----------------------------- MODULE HeapProofs -----------------------------
(***************************************************************************)
(* Proofs about the kernel heap, for a heap of any size, any requests and  *)
(* any stray pointers.                                                     *)
(***************************************************************************)
EXTENDS Heap, TLAPS

(* The three invariants of the run hold together: the chain is needed to   *)
(* know what a scan passes, the scan to know what kmalloc may hand out.    *)
(* Asked says what kmalloc's parameter is while it searches.               *)
Asked == pc = "scan" => size \in Requests /\ Acceptable(size)
Inv == ChainTiles /\ UsedMeansLive /\ SearchComplete /\ Asked

(* x % m where nothing wraps. *)
LEMMA NoWrap == ASSUME NEW m \in Nat, NEW x \in Nat, x < m PROVE x % m = x
OBVIOUS

(* The size of a block that kmalloc looks for: at least the minimum, with  *)
(* room for its header, and adding it to an offset does not wrap.          *)
LEMMA TotalSize ==
    ASSUME NEW n \in 0 .. HeapSize
    PROVE  /\ total_size(n) \in Nat /\ total_size(n) >= MIN_ALLOC_SIZE
           /\ total_size(n) >= n + HEADER_SIZE
           /\ \A o \in 0 .. HeapSize : (o + total_size(n)) % SizeMod = o + total_size(n)
<1>1. HEADER_SIZE + n \in Nat /\ HEADER_SIZE + n < SizeMod /\ SizeMod \in Nat
  BY HeapAssumption
<1>2. (HEADER_SIZE + n) % SizeMod = HEADER_SIZE + n
  BY <1>1, NoWrap
<1>3. total_size(n) = IF HEADER_SIZE + n < MIN_ALLOC_SIZE THEN MIN_ALLOC_SIZE
                      ELSE HEADER_SIZE + n
  BY <1>2, Zenon DEF total_size
<1>4. /\ total_size(n) \in Nat /\ total_size(n) >= MIN_ALLOC_SIZE
      /\ total_size(n) >= n + HEADER_SIZE
      /\ HeapSize + total_size(n) < SizeMod
  BY <1>3, HeapAssumption
<1>5. ASSUME NEW o \in 0 .. HeapSize PROVE (o + total_size(n)) % SizeMod = o + total_size(n)
  <2>1. o + total_size(n) \in Nat /\ o + total_size(n) < SizeMod
    BY <1>4, HeapAssumption
  <2>2. QED
    BY <1>1, <2>1, NoWrap
<1>6. QED
  BY <1>4, <1>5

(* The scan position while kmalloc searches. *)
LEMMA ScanPosition ==
    ASSUME Inv, pc = "scan"
    PROVE  /\ offset < used => offset \in heads
           /\ ~(offset < used) => offset = used /\ offset \notin heads
BY HeapAssumption DEF Inv, ChainTiles, TypeOK
-----------------------------------------------------------------------------
LEMMA InitInv == Init => Inv
BY HeapAssumption DEF Init, Inv, ChainTiles, TypeOK, UsedMeansLive, SearchComplete,
                      Asked, heap_get_stats

LEMMA CallInv ==
    ASSUME Inv, NEW n \in Requests, kmalloc_call(n)
    PROVE  Inv'
<1>1. CASE UNCHANGED vars
  BY <1>1 DEF vars, Inv, ChainTiles, TypeOK, UsedMeansLive, SearchComplete, Asked,
              heap_get_stats, Fits
<1>2. CASE ~UNCHANGED vars
  <2>1. /\ Acceptable(n) /\ pc' = "scan" /\ size' = n /\ offset' = 0
        /\ UNCHANGED <<heads, hsize, hused, used, live>>
    BY <1>2 DEF kmalloc_call
  <2>2. n \in 1 .. HeapSize
    BY <2>1, HeapAssumption DEF Acceptable
  <2>3. ChainTiles'
    BY <2>1, <2>2, HeapAssumption DEF Inv, ChainTiles, TypeOK
  <2>4. UsedMeansLive'
    BY <2>1 DEF Inv, UsedMeansLive, heap_get_stats
  <2>5. SearchComplete'
    BY <2>1 DEF Inv, ChainTiles, TypeOK, SearchComplete
  <2>6. Asked'
    BY <2>1 DEF Asked, Acceptable
  <2>7. QED
    BY <2>3, <2>4, <2>5, <2>6 DEF Inv
<1>3. QED
  BY <1>1, <1>2

LEMMA ReuseInv == ASSUME Inv, kmalloc_reuse PROVE Inv'
<1>1. /\ pc = "scan" /\ offset \in heads /\ offset \notin hused
      /\ hsize[offset] >= total_size(size)
      /\ hused' = hused \cup {offset} /\ live' = live \cup {Region(offset, size)}
      /\ pc' = "idle" /\ UNCHANGED <<heads, hsize, used, size, offset>>
  BY DEF kmalloc_reuse, Fits
<1>2. size \in 1 .. HeapSize /\ total_size(size) \in Nat
      /\ total_size(size) >= size + HEADER_SIZE
  BY <1>1, TotalSize, HeapAssumption DEF Inv, Asked, Acceptable, ChainTiles, TypeOK
<1>3. /\ size + HEADER_SIZE <= hsize[offset]
      /\ offset + HEADER_SIZE + size <= used
      /\ offset \in Nat /\ used \in 0 .. HeapSize
  BY <1>1, <1>2, HeapAssumption DEF Inv, ChainTiles, TypeOK
<1>4. ChainTiles'
  <2>1. Region(offset, size) \in [ptr : 0 .. HeapSize, size : 1 .. HeapSize]
    BY <1>2, <1>3, HeapAssumption DEF Region
  <2>2. TypeOK'
    BY <1>1, <2>1 DEF Inv, ChainTiles, TypeOK
  <2>3. QED
    BY <1>1, <2>2 DEF Inv, ChainTiles
<1>5. UsedMeansLive'
  <2>. DEFINE r0 == Region(offset, size)
  <2>1. r0.ptr = offset + HEADER_SIZE /\ r0.size = size /\ r0.ptr - HEADER_SIZE = offset
    BY <1>3, HeapAssumption DEF Region
  <2>2. \A r \in live : r.ptr \in 0 .. HeapSize /\ r.ptr # r0.ptr
    BY <1>1, <2>1, HeapAssumption DEF Inv, ChainTiles, TypeOK, UsedMeansLive
  <2>. HIDE DEF r0
  <2>3. \A r \in live' : r.ptr - HEADER_SIZE \in hused' /\ r.size + HEADER_SIZE <= hsize'[r.ptr - HEADER_SIZE]
    BY <1>1, <1>3, <2>1 DEF Inv, UsedMeansLive, r0
  <2>4. \A o \in hused' : \E r \in live' : r.ptr = o + HEADER_SIZE
    BY <1>1, <2>1 DEF Inv, UsedMeansLive, r0
  <2>5. \A r, s \in live' : r.ptr = s.ptr => r = s
    BY <1>1, <2>2 DEF Inv, UsedMeansLive, r0
  <2>6. used' <= HeapSize /\ \A r \in live' : r.ptr + r.size <= used'
    BY <1>1, <1>3, <2>1 DEF Inv, UsedMeansLive, r0, heap_get_stats
  <2>7. QED
    BY <2>3, <2>4, <2>5, <2>6 DEF UsedMeansLive, heap_get_stats
<1>6. QED
  BY <1>1, <1>4, <1>5 DEF Inv, SearchComplete, Asked

LEMMA SkipInv == ASSUME Inv, kmalloc_skip PROVE Inv'
<1>1. /\ pc = "scan" /\ offset \in heads /\ ~Fits(offset)
      /\ offset' = (offset + hsize[offset]) % SizeMod
      /\ UNCHANGED <<heads, hsize, hused, used, pc, size, live>>
  BY DEF kmalloc_skip
<1>2. offset' = offset + hsize[offset]
  <2>1. offset + hsize[offset] \in Nat /\ offset + hsize[offset] < SizeMod /\ SizeMod \in Nat
    BY <1>1, HeapAssumption DEF Inv, ChainTiles, TypeOK
  <2>2. QED
    BY <1>1, <2>1, NoWrap
<1>3. ChainTiles'
  BY <1>1, <1>2, HeapAssumption DEF Inv, ChainTiles, TypeOK
<1>4. SearchComplete'
  <2>1. ASSUME NEW o \in heads, o < offset' PROVE ~Fits(o)
    <3>1. o < offset \/ o = offset
      BY <1>1, <1>2, <2>1, HeapAssumption DEF Inv, ChainTiles, TypeOK
    <3>2. QED
      BY <1>1, <3>1 DEF Inv, SearchComplete
  <2>2. \A o \in heads : Fits(o)' <=> Fits(o)
    BY <1>1 DEF Fits
  <2>3. QED
    BY <1>1, <2>1, <2>2 DEF SearchComplete
<1>5. QED
  BY <1>1, <1>3, <1>4 DEF Inv, UsedMeansLive, heap_get_stats, Asked

LEMMA NullInv == ASSUME Inv, kmalloc_null PROVE Inv'
BY DEF kmalloc_null, Inv, ChainTiles, TypeOK, UsedMeansLive, SearchComplete, Asked,
       heap_get_stats

LEMMA GrowInv == ASSUME Inv, kmalloc_grow PROVE Inv'
<1>. DEFINE t == total_size(size)
<1>1. /\ pc = "scan" /\ (used + t) % SizeMod <= HeapSize
      /\ heads' = heads \cup {offset}
      /\ hsize' = [o \in heads \cup {offset} |-> IF o = offset THEN t ELSE hsize[o]]
      /\ hused' = hused \cup {offset} /\ used' = (used + t) % SizeMod
      /\ live' = live \cup {Region(offset, size)}
      /\ pc' = "idle" /\ size' = size /\ offset' = offset
  BY DEF kmalloc_grow, HasRoom
<1>2. offset = used /\ offset \notin heads /\ used \in 0 .. HeapSize
  BY ScanPosition DEF kmalloc_grow, Inv, ChainTiles, TypeOK
<1>3. /\ size \in 1 .. HeapSize /\ t \in Nat /\ t >= MIN_ALLOC_SIZE
      /\ t >= size + HEADER_SIZE /\ (used + t) % SizeMod = used + t
  BY <1>1, <1>2, TotalSize, HeapAssumption DEF Inv, Asked, Acceptable, ChainTiles, TypeOK
<1>. HIDE DEF t
<1>4. /\ used' = used + t /\ used' \in 0 .. HeapSize /\ offset + HEADER_SIZE + size <= used'
      /\ t \in MIN_ALLOC_SIZE .. HeapSize /\ offset \in 0 .. HeapSize - 1
      /\ offset + HEADER_SIZE \in 0 .. HeapSize /\ offset < used' /\ used < used'
  BY <1>1, <1>2, <1>3, HeapAssumption
<1>5. /\ \A o \in heads : hsize'[o] = hsize[o] /\ o # offset
      /\ hsize'[offset] = t
  BY <1>1, <1>2
<1>6. \A o \in heads : /\ o \in 0 .. HeapSize - 1 /\ hsize[o] \in MIN_ALLOC_SIZE .. HeapSize
                       /\ o < used /\ o + hsize[o] <= used /\ o + hsize[o] \in heads \cup {used}
  BY HeapAssumption DEF Inv, ChainTiles, TypeOK
<1>7. ChainTiles'
  <2>1. Region(offset, size) \in [ptr : 0 .. HeapSize, size : 1 .. HeapSize]
    BY <1>3, <1>4 DEF Region
  <2>2. hsize' \in [heads' -> MIN_ALLOC_SIZE .. HeapSize]
    BY <1>1, <1>4, <1>6
  <2>3. TypeOK'
    BY <1>1, <1>3, <1>4, <2>1, <2>2 DEF Inv, ChainTiles, TypeOK
  <2>4. 0 \in heads' \cup {used'}
    BY <1>1, <1>2 DEF Inv, ChainTiles
  <2>5. \A o \in heads' : o + hsize'[o] \in heads' \cup {used'}
    <3>1. ASSUME NEW o \in heads PROVE o + hsize'[o] \in heads' \cup {used'}
      BY <1>1, <1>2, <1>5, <1>6
    <3>2. offset + hsize'[offset] = used'
      BY <1>2, <1>4, <1>5
    <3>3. QED
      BY <1>1, <3>1, <3>2
  <2>6. \A o \in heads' : o + hsize'[o] <= used'
    BY <1>1, <1>2, <1>3, <1>4, <1>5, <1>6
  <2>7. \A o, p \in heads' : o < p => o + hsize'[o] <= p
    <3>1. \A o, p \in heads : o < p => o + hsize'[o] <= p
      BY <1>5 DEF Inv, ChainTiles
    <3>2. \A o \in heads : o + hsize'[o] <= offset /\ ~(offset < o)
      BY <1>2, <1>5, <1>6
    <3>3. ~(offset < offset)
      BY <1>4
    <3>4. QED
      BY <1>1, <3>1, <3>2, <3>3, Zenon
  <2>8. QED
    BY <1>1, <2>3, <2>4, <2>5, <2>6, <2>7 DEF ChainTiles
<1>8. UsedMeansLive'
  <2>. DEFINE r0 == Region(offset, size)
  <2>1. r0.ptr = offset + HEADER_SIZE /\ r0.size = size /\ r0.ptr - HEADER_SIZE = offset
    BY <1>4, HeapAssumption DEF Region
  <2>2. \A r \in live : /\ r.ptr \in 0 .. HeapSize /\ r.size \in 1 .. HeapSize
                        /\ r.ptr - HEADER_SIZE \in hused /\ r.ptr - HEADER_SIZE \in heads
                        /\ r.ptr - HEADER_SIZE # offset
                        /\ r.size + HEADER_SIZE <= hsize[r.ptr - HEADER_SIZE]
    BY <1>2 DEF Inv, ChainTiles, TypeOK, UsedMeansLive
  <2>3. \A r \in live : r.ptr # r0.ptr
    BY <2>1, <2>2
  <2>. HIDE DEF r0
  <2>4. \A r \in live' : r.ptr - HEADER_SIZE \in hused' /\ r.size + HEADER_SIZE <= hsize'[r.ptr - HEADER_SIZE]
    <3>1. ASSUME NEW r \in live
          PROVE r.ptr - HEADER_SIZE \in hused' /\ r.size + HEADER_SIZE <= hsize'[r.ptr - HEADER_SIZE]
      <4>1. hsize'[r.ptr - HEADER_SIZE] = hsize[r.ptr - HEADER_SIZE]
        BY <1>5, <2>2
      <4>2. QED
        BY <1>1, <2>2, <4>1
    <3>2. r0.ptr - HEADER_SIZE \in hused' /\ r0.size + HEADER_SIZE <= hsize'[r0.ptr - HEADER_SIZE]
      BY <1>1, <1>3, <1>5, <2>1, HeapAssumption
    <3>3. QED
      BY <1>1, <3>1, <3>2, Zenon DEF r0
  <2>5. \A o \in hused' : \E r \in live' : r.ptr = o + HEADER_SIZE
    BY <1>1, <2>1 DEF Inv, UsedMeansLive, r0
  <2>6. \A r, s \in live' : r.ptr = s.ptr => r = s
    BY <1>1, <2>3 DEF Inv, UsedMeansLive, r0
  <2>7. \A r \in live' : r.ptr + r.size <= used'
    <3>1. ASSUME NEW r \in live PROVE r.ptr + r.size <= used'
      <4>1. r.ptr + r.size <= used
        BY DEF Inv, UsedMeansLive, heap_get_stats
      <4>2. QED
        BY <1>2, <1>4, <2>2, <4>1
    <3>2. r0.ptr + r0.size <= used'
      BY <1>4, <2>1
    <3>3. QED
      BY <1>1, <3>1, <3>2, Zenon DEF r0
  <2>8. used' <= HeapSize
    BY <1>4
  <2>9. QED
    BY <2>4, <2>5, <2>6, <2>7, <2>8 DEF UsedMeansLive, heap_get_stats
<1>9. QED
  BY <1>1, <1>7, <1>8 DEF Inv, SearchComplete, Asked

LEMMA FreeInv ==
    ASSUME Inv, NEW ptr \in {o + HEADER_SIZE : o \in heads} \cup {NULL} \cup StrayPtrs,
           kfree(ptr)
    PROVE  Inv'
<1>1. /\ pc = "idle" /\ live' = {r \in live : r.ptr # ptr}
      /\ UNCHANGED <<heads, hsize, used, pc, size, offset>>
      /\ hused' = IF ptr # NULL /\ ptr - HEADER_SIZE \in heads
                  THEN hused \ {ptr - HEADER_SIZE} ELSE hused
  BY DEF kfree
<1>2. ptr \in Int
  <2>1. heads \subseteq 0 .. HeapSize - 1 /\ HEADER_SIZE \in Int /\ StrayPtrs \subseteq Int
    BY HeapAssumption DEF Inv, ChainTiles, TypeOK
  <2>2. (\E o \in heads : ptr = o + HEADER_SIZE) \/ ptr = NULL \/ ptr \in StrayPtrs
    OBVIOUS
  <2>3. CASE \E o \in heads : ptr = o + HEADER_SIZE
    <3>1. PICK o \in heads : ptr = o + HEADER_SIZE
      BY <2>3
    <3>2. o \in Int
      BY <2>1
    <3>3. QED
      BY <2>1, <3>1, <3>2
  <2>4. NULL \in Int
    BY DEF NULL
  <2>5. QED
    BY <2>1, <2>2, <2>3, <2>4
<1>3. hused' \subseteq hused /\ live' \subseteq live
  BY <1>1
<1>4. ChainTiles'
  BY <1>1, <1>3 DEF Inv, ChainTiles, TypeOK
<1>5. \A r \in live' : r.ptr - HEADER_SIZE \in hused'
  BY <1>1, <1>2, HeapAssumption DEF Inv, ChainTiles, TypeOK, UsedMeansLive
<1>6. \A o \in hused' : \E r \in live' : r.ptr = o + HEADER_SIZE
  <2>. SUFFICES ASSUME NEW o \in hused' PROVE \E r \in live' : r.ptr = o + HEADER_SIZE
    OBVIOUS
  <2>1. PICK r \in live : r.ptr = o + HEADER_SIZE
    BY <1>3 DEF Inv, UsedMeansLive
  <2>2. o \in heads /\ o \in 0 .. HeapSize - 1
    BY <1>3 DEF Inv, ChainTiles, TypeOK
  <2>3. r.ptr # ptr
    <3>1. SUFFICES ASSUME ptr = o + HEADER_SIZE PROVE FALSE
      BY <2>1
    <3>2. ptr # NULL /\ ptr - HEADER_SIZE = o
      BY <2>2, <3>1, HeapAssumption DEF NULL
    <3>3. QED
      BY <1>1, <2>2, <3>2
  <2>4. QED
    BY <1>1, <2>1, <2>3
<1>7. UsedMeansLive'
  BY <1>1, <1>3, <1>5, <1>6 DEF Inv, UsedMeansLive, heap_get_stats
<1>8. QED
  BY <1>1, <1>4, <1>7 DEF Inv, SearchComplete, Asked

LEMMA NextInv == Inv /\ [Next]_vars => Inv'
<1>. SUFFICES ASSUME Inv, [Next]_vars PROVE Inv'
  OBVIOUS
<1>1. CASE UNCHANGED vars
  BY <1>1 DEF vars, Inv, ChainTiles, TypeOK, UsedMeansLive, SearchComplete, Asked,
              heap_get_stats, Fits
<1>2. CASE \E n \in Requests : kmalloc_call(n)
  BY <1>2, CallInv
<1>3. CASE kmalloc
  BY <1>3, ReuseInv, SkipInv, GrowInv, NullInv DEF kmalloc
<1>4. CASE \E ptr \in {o + HEADER_SIZE : o \in heads} \cup {NULL} \cup StrayPtrs : kfree(ptr)
  BY <1>4, FreeInv
<1>5. QED
  BY <1>1, <1>2, <1>3, <1>4 DEF Next

LEMMA AlwaysInv == Spec => []Inv
BY InitInv, NextInv, PTL DEF Spec
-----------------------------------------------------------------------------
(* The blocks tile the used part of the heap, for every sequence of calls: *)
(* stepping by header->size always lands on a header.                      *)
THEOREM HeapChain == Spec => []ChainTiles
BY AlwaysInv, PTL DEF Inv

(* No block that a caller holds is ever handed out again, and none is lost. *)
THEOREM HeapUsed == Spec => []UsedMeansLive
BY AlwaysInv, PTL DEF Inv

(* The search never passes a free block that is large enough. *)
THEOREM HeapSearch == Spec => []SearchComplete
BY AlwaysInv, PTL DEF Inv
-----------------------------------------------------------------------------
(* The refinement: a step that hands out a block is a Give of the region   *)
(* behind its header, a step that frees a held block is a TakeBack, and    *)
(* every other step leaves the regions as they are.                        *)
LEMMA GiveStep ==
    ASSUME Inv, Inv', pc = "scan", offset \in heads', offset \notin hused,
           \A o \in heads : o \in heads' /\ hsize'[o] = hsize[o],
           live' = live \cup {Region(offset, size)}
    PROVE  Abstract!Give
<1>. DEFINE r0 == Region(offset, size)
<1>1. /\ r0 = [ptr |-> offset + HEADER_SIZE, size |-> size]
      /\ r0.ptr = offset + HEADER_SIZE /\ r0.size = size /\ r0 \in live'
  BY DEF Region
<1>2. /\ offset \in 0 .. HeapSize /\ size \in 1 .. HeapSize /\ size \in Requests
      /\ HeapSize \in Nat /\ HEADER_SIZE \in Nat
  BY HeapAssumption DEF Inv, Asked, Acceptable, ChainTiles, TypeOK
<1>3. r0.ptr + r0.size <= HeapSize /\ r0.ptr \in 0 .. HeapSize
  <2>1. r0.ptr + r0.size <= used' /\ used' \in 0 .. HeapSize /\ r0.ptr \in 0 .. HeapSize
    <3>. HIDE DEF r0
    <3>. QED
      BY <1>1 DEF Inv, ChainTiles, TypeOK, UsedMeansLive, heap_get_stats
  <2>2. QED
    BY <1>1, <1>2, <2>1
<1>4. r0.size + HEADER_SIZE <= hsize'[offset]
  <2>1. r0.size + HEADER_SIZE <= hsize'[r0.ptr - HEADER_SIZE]
    <3>. HIDE DEF r0
    <3>. QED
      BY <1>1 DEF Inv, UsedMeansLive
  <2>2. r0.ptr - HEADER_SIZE = offset
    BY <1>1, <1>2
  <2>3. QED
    BY <2>1, <2>2
<1>5. ASSUME NEW s \in live PROVE Abstract!Disjoint(r0, s)
  <2>. DEFINE o == s.ptr - HEADER_SIZE
  <2>1. /\ s.ptr \in 0 .. HeapSize /\ s.size \in 1 .. HeapSize /\ o \in hused
        /\ o \in heads /\ s.size + HEADER_SIZE <= hsize[o]
    BY DEF Inv, ChainTiles, TypeOK, UsedMeansLive
  <2>2. o # offset /\ o \in heads' /\ hsize'[o] = hsize[o]
    BY <2>1
  <2>3. /\ o < offset => o + hsize'[o] <= offset
        /\ offset < o => offset + hsize'[offset] <= o
        /\ hsize'[o] \in Int /\ hsize'[offset] \in Int
    <3>. HIDE DEF o
    <3>1. \A x, y \in heads' : x < y => x + hsize'[x] <= y
      BY DEF Inv, ChainTiles
    <3>2. hsize' \in [heads' -> MIN_ALLOC_SIZE .. HeapSize] /\ MIN_ALLOC_SIZE .. HeapSize \subseteq Int
      BY HeapAssumption DEF Inv, ChainTiles, TypeOK
    <3>3. QED
      BY <2>2, <3>1, <3>2
  <2>4. s.ptr = o + HEADER_SIZE /\ o \in Int
    BY <1>2, <2>1
  <2>. HIDE DEF o, r0
  <2>5. r0.ptr + r0.size <= s.ptr \/ s.ptr + s.size <= r0.ptr
    <3>1. CASE o < offset
      BY <1>1, <1>2, <2>1, <2>2, <2>3, <2>4, <3>1
    <3>2. CASE offset < o
      BY <1>1, <1>2, <1>4, <2>1, <2>2, <2>3, <2>4, <3>2
    <3>3. QED
      BY <1>2, <2>2, <2>4, <3>1, <3>2
  <2>6. QED
    BY <2>5 DEF Abstract!Disjoint
<1>6. QED
  <2>1. size > 0 /\ (offset + HEADER_SIZE) + size <= HeapSize /\ offset + HEADER_SIZE \in 0 .. HeapSize
    BY <1>1, <1>2, <1>3
  <2>2. /\ \A s \in live : Abstract!Disjoint([ptr |-> offset + HEADER_SIZE, size |-> size], s)
        /\ live' = live \cup {[ptr |-> offset + HEADER_SIZE, size |-> size]}
    BY <1>1, <1>5
  <2>3. QED
    BY <1>2, <2>1, <2>2 DEF Abstract!Give

LEMMA FreeStep ==
    ASSUME Inv, NEW ptr, live' = {r \in live : r.ptr # ptr}
    PROVE  Abstract!TakeBack \/ UNCHANGED live
<1>1. CASE \E r \in live : r.ptr = ptr
  <2>1. PICK r \in live : r.ptr = ptr
    BY <1>1
  <2>2. live' = live \ {r}
    BY <2>1 DEF Inv, UsedMeansLive
  <2>3. QED
    BY <2>2 DEF Abstract!TakeBack
<1>2. CASE ~\E r \in live : r.ptr = ptr
  BY <1>2
<1>3. QED
  BY <1>1, <1>2

LEMMA NextRefines == Inv /\ Inv' /\ [Next]_vars => [Abstract!Next]_live
<1>. SUFFICES ASSUME Inv, Inv', [Next]_vars PROVE [Abstract!Next]_live
  OBVIOUS
<1>1. CASE UNCHANGED vars
  BY <1>1 DEF vars
<1>2. CASE \E n \in Requests : kmalloc_call(n)
  BY <1>2 DEF kmalloc_call, vars
<1>3. CASE kmalloc_reuse
  <2>1. /\ pc = "scan" /\ offset \in heads' /\ offset \notin hused
        /\ \A o \in heads : o \in heads' /\ hsize'[o] = hsize[o]
        /\ live' = live \cup {Region(offset, size)}
    BY <1>3 DEF kmalloc_reuse, Fits
  <2>2. QED
    BY <2>1, GiveStep DEF Abstract!Next
<1>4. CASE kmalloc_grow
  <2>1. offset \notin heads
    BY <1>4, ScanPosition DEF kmalloc_grow
  <2>2. /\ pc = "scan" /\ offset \in heads' /\ offset \notin hused
        /\ \A o \in heads : o \in heads' /\ hsize'[o] = hsize[o]
        /\ live' = live \cup {Region(offset, size)}
    BY <1>4, <2>1 DEF kmalloc_grow, Inv, ChainTiles, TypeOK
  <2>3. QED
    BY <2>2, GiveStep DEF Abstract!Next
<1>5. CASE kmalloc_skip \/ kmalloc_null
  BY <1>5 DEF kmalloc_skip, kmalloc_null
<1>6. CASE \E ptr \in {o + HEADER_SIZE : o \in heads} \cup {NULL} \cup StrayPtrs : kfree(ptr)
  BY <1>6, FreeStep DEF kfree, Abstract!Next
<1>7. QED
  BY <1>1, <1>2, <1>3, <1>4, <1>5, <1>6 DEF Next, kmalloc

(* The heap gives out disjoint regions of the heap and nothing else,       *)
(* whatever is asked for and whatever pointers are freed.                  *)
THEOREM HeapRefinement == Spec => RegionsSpec
<1>1. Init => Abstract!Init
  BY DEF Init, Abstract!Init
<1>2. QED
  BY <1>1, NextRefines, AlwaysInv, PTL DEF RegionsSpec, Abstract!Spec, Spec
=============================================================================
