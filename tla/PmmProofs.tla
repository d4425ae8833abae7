----------------------------- MODULE PmmProofs ------------------------------
(***************************************************************************)
(* Proofs about the physical memory manager, for any number of pages and   *)
(* any set of callers.                                                     *)
(***************************************************************************)
EXTENDS Pmm, FiniteSetTheorems, NaturalsInduction, TLAPS

(* Which byte and which bit of it a page uses: two pages never share one,  *)
(* and the bitmap that pmm_init sizes by rounding up has a byte for every  *)
(* page.                                                                   *)
LEMMA BitOfPage ==
    /\ \A p \in Pages : p \in Nat /\ p \div 8 \in 0 .. bitmap_size - 1
                        /\ p % 8 \in Bits
    /\ \A p, q \in Pages : p \div 8 = q \div 8 /\ p % 8 = q % 8 => p = q
    /\ \A p \in Pages : (p \div 8) * 8 + (p % 8) < TotalPages
BY PmmAssumption DEF Pages, bitmap_size, Bits

(* The address of a page gives the page back: pmm_free recovers the index  *)
(* that pmm_alloc multiplied by the page size.                             *)
LEMMA AddrOfPage ==
    \A p \in Nat : /\ p * PAGE_SIZE \in Nat
                   /\ (p * PAGE_SIZE) % PAGE_SIZE = 0
                   /\ (p * PAGE_SIZE) \div PAGE_SIZE = p
                   /\ p * PAGE_SIZE = 0 <=> p = 0
BY SMT DEF PAGE_SIZE

(* The uint32_t counter does not wrap while it counts pages. *)
LEMMA CounterRange == \A n \in 0 .. TotalPages : n % CounterMod = n
<1>1. \A n, m \in Nat : n < m => n % m = n
  BY SMT
<1>2. QED
  BY <1>1, PmmAssumption

(* Every non-empty set of natural numbers has a smallest element. *)
LEMMA NatMinimum ==
    ASSUME NEW S \in SUBSET Nat, S # {}
    PROVE  Min(S) \in S /\ \A y \in S : Min(S) =< y
<1>1. \A x, y \in Nat : x < y => <<x, y>> \in OpToRel(<, Nat)
  BY Zenon DEF OpToRel
<1>2. PICK R : IsWellFoundedOn(R, Nat) /\ \A x, y \in Nat : x < y => <<x, y>> \in R
  BY <1>1, NatLessThanWellFounded, Zenon
<1>3. PICK x \in S : \A y \in S : ~(<<y, x>> \in R)
  <2>1. S \subseteq Nat /\ S # {}
    OBVIOUS
  <2>2. \A Q, T : IsWellFoundedOn(Q, Nat) /\ T \subseteq Nat /\ T # {}
                    => \E x \in T : \A y \in T : ~(<<y, x>> \in Q)
    BY WFMin, Zenon
  <2>3. QED
    BY <1>2, <2>1, <2>2, Zenon
<1>4. ASSUME NEW y \in S PROVE x =< y
  <2>1. x \in Nat /\ y \in Nat
    OBVIOUS
  <2>2. ~(y < x)
    BY <1>2, <1>3, <2>1, Zenon
  <2>3. QED
    BY <2>1, <2>2, SMT
<1>5. \E m \in S : \A y \in S : m =< y
  BY <1>4
<1>6. QED
  BY <1>5, Zenon DEF Min

(* A scan that meets a clear bit returns the index of a free page. *)
LEMMA FirstFreePage ==
    /\ FreePages # {} => find_free_page \in FreePages
    /\ FreePages = {} => find_free_page = NO_PAGE
    /\ NO_PAGE \notin Pages
<1>1. FreePages \in SUBSET Nat
  BY BitOfPage DEF FreePages
<1>2. NO_PAGE \notin Pages
  BY PmmAssumption DEF NO_PAGE, Pages
<1>3. FreePages # {} => Min(FreePages) \in FreePages
  BY <1>1, NatMinimum, Zenon
<1>4. QED
  BY <1>2, <1>3, Zenon DEF find_free_page
-----------------------------------------------------------------------------
(* Setting the bit of a page marks that page and no other. *)
LEMMA SetBit ==
    ASSUME TypeOK, NEW p \in Pages, bitmap' = bitmap_set_bit(p)
    PROVE  /\ bitmap' \in [0 .. bitmap_size - 1 -> SUBSET Bits]
           /\ FreePages' = FreePages \ {p}
           /\ AllocatedPages' = AllocatedPages \cup {p}
           /\ PaddingClear => PaddingClear'
<1>1. bitmap' \in [0 .. bitmap_size - 1 -> SUBSET Bits]
  BY BitOfPage DEF TypeOK, bitmap_set_bit
<1>2. \A q \in Pages : bitmap_test_bit(q)' <=> bitmap_test_bit(q) \/ q = p
  BY BitOfPage DEF TypeOK, bitmap_set_bit, bitmap_test_bit
<1>3. FreePages' = FreePages \ {p}
  BY <1>2 DEF FreePages
<1>4. AllocatedPages' = AllocatedPages \cup {p}
  BY <1>3 DEF AllocatedPages
<1>5. ASSUME PaddingClear PROVE PaddingClear'
  <2>. SUFFICES ASSUME NEW i \in 0 .. bitmap_size - 1, NEW b \in bitmap'[i]
                PROVE  i * 8 + b < TotalPages
    BY DEF PaddingClear
  <2>1. b \in bitmap[i] \/ (i = p \div 8 /\ b = p % 8)
    BY BitOfPage DEF TypeOK, bitmap_set_bit
  <2>2. CASE b \in bitmap[i]
    BY <1>5, <2>2, Zenon DEF PaddingClear
  <2>3. CASE i = p \div 8 /\ b = p % 8
    <3>1. (p \div 8) * 8 + (p % 8) < TotalPages /\ p \in Nat
      BY BitOfPage
    <3>2. i * 8 + b = (p \div 8) * 8 + (p % 8)
      BY <2>3, Zenon
    <3>3. QED
      BY <3>1, <3>2, Zenon
  <2>4. QED
    BY <2>1, <2>2, <2>3
<1>6. QED
  BY <1>1, <1>3, <1>4, <1>5

(* Clearing the bit of a page frees that page and no other. *)
LEMMA ClearBit ==
    ASSUME TypeOK, NEW p \in Pages, bitmap' = bitmap_clear_bit(p)
    PROVE  /\ bitmap' \in [0 .. bitmap_size - 1 -> SUBSET Bits]
           /\ FreePages' = FreePages \cup {p}
           /\ AllocatedPages' = AllocatedPages \ {p}
           /\ PaddingClear => PaddingClear'
<1>1. bitmap' \in [0 .. bitmap_size - 1 -> SUBSET Bits]
  BY BitOfPage DEF TypeOK, bitmap_clear_bit
<1>2. \A q \in Pages : bitmap_test_bit(q)' <=> bitmap_test_bit(q) /\ q # p
  BY BitOfPage DEF TypeOK, bitmap_clear_bit, bitmap_test_bit
<1>3. FreePages' = FreePages \cup {p}
  BY <1>2 DEF FreePages
<1>4. AllocatedPages' = AllocatedPages \ {p}
  BY <1>3 DEF AllocatedPages
<1>5. PaddingClear => PaddingClear'
  BY BitOfPage DEF TypeOK, bitmap_clear_bit, PaddingClear
<1>6. QED
  BY <1>1, <1>3, <1>4, <1>5

(* The pages are finitely many, and each is either free or allocated. *)
LEMMA PageCount ==
    /\ IsFiniteSet(FreePages) /\ IsFiniteSet(AllocatedPages)
    /\ Cardinality(FreePages) \in Nat /\ Cardinality(AllocatedPages) \in Nat
    /\ Cardinality(Pages) = TotalPages
    /\ Cardinality(FreePages) + Cardinality(AllocatedPages) = TotalPages
<1>1. IsFiniteSet(Pages) /\ Cardinality(Pages) = TotalPages
  BY FS_Interval, PmmAssumption DEF Pages
<1>2. /\ FreePages \subseteq Pages /\ AllocatedPages \subseteq Pages
      /\ FreePages \cup AllocatedPages = Pages
      /\ FreePages \cap AllocatedPages = {}
  BY DEF FreePages, AllocatedPages
<1>3. IsFiniteSet(FreePages) /\ IsFiniteSet(AllocatedPages)
  BY <1>1, <1>2, FS_Subset
<1>4. Cardinality(FreePages) \in Nat /\ Cardinality(AllocatedPages) \in Nat
  BY <1>3, FS_CardinalityType
<1>5. Cardinality(Pages) = Cardinality(FreePages) + Cardinality(AllocatedPages)
                             - Cardinality(FreePages \cap AllocatedPages)
  BY <1>2, <1>3, FS_Union
<1>6. Cardinality(FreePages \cap AllocatedPages) = 0
  BY <1>2, FS_EmptySet
<1>7. QED
  BY <1>1, <1>3, <1>4, <1>5, <1>6
-----------------------------------------------------------------------------
(* None of the five properties is inductive alone: that an allocation      *)
(* hands out a frame nobody holds needs the bitmap to cover what is held,  *)
(* that no frame is lost needs the same after a free, and the counter      *)
(* stays in range only because it counts the bits.                         *)
Inv ==
    /\ TypeOK
    /\ CountersExact
    /\ ExclusiveFrames
    /\ OnlyPageZeroLeaks
    /\ PaddingClear

LEMMA InitInv == Init => Inv
<1>. SUFFICES ASSUME Init PROVE Inv
  OBVIOUS
<1>1. TypeOK
  BY PmmAssumption DEF Init, TypeOK
<1>2. FreePages = Pages /\ AllocatedPages = {}
  BY BitOfPage DEF Init, FreePages, AllocatedPages, bitmap_test_bit
<1>3. CountersExact
  BY <1>2, PageCount, FS_EmptySet, PmmAssumption
     DEF Init, CountersExact, pmm_get_allocated, pmm_get_free
<1>4. ExclusiveFrames /\ OnlyPageZeroLeaks /\ PaddingClear
  BY <1>2 DEF Init, ExclusiveFrames, OnlyPageZeroLeaks, PaddingClear
<1>5. QED
  BY <1>1, <1>3, <1>4 DEF Inv

(* pmm_alloc with a free page: the page it takes was free, so no caller    *)
(* held its address, and the counter and the bitmap move together.         *)
LEMMA AllocInv ==
    ASSUME Inv, NEW c \in Callers, pmm_alloc(c), find_free_page # NO_PAGE
    PROVE  Inv'
<1>. DEFINE p == find_free_page
<1>1. p \in FreePages /\ p \in Pages /\ p \in Nat
  BY FirstFreePage, BitOfPage DEF FreePages
<1>2. /\ bitmap' = bitmap_set_bit(p)
      /\ allocated_pages' = (allocated_pages + 1) % CounterMod
      /\ held' = [held EXCEPT ![c] = @ \cup ({AllocResult} \ {0})]
  BY DEF pmm_alloc
<1>3. AllocResult = p * PAGE_SIZE /\ AllocResult \in Addrs
  BY <1>1 DEF AllocResult, Addrs
<1>4. /\ bitmap' \in [0 .. bitmap_size - 1 -> SUBSET Bits]
      /\ FreePages' = FreePages \ {p}
      /\ AllocatedPages' = AllocatedPages \cup {p}
      /\ PaddingClear'
  BY <1>1, <1>2, SetBit DEF Inv
<1>5. p \notin AllocatedPages
  BY <1>1 DEF AllocatedPages
<1>6. /\ Cardinality(FreePages') = Cardinality(FreePages) - 1
      /\ Cardinality(AllocatedPages') = Cardinality(AllocatedPages) + 1
  BY <1>1, <1>4, <1>5, PageCount, FS_AddElement, FS_RemoveElement
<1>7. allocated_pages' = allocated_pages + 1 /\ allocated_pages' \in 0 .. TotalPages
  <2>1. Cardinality(FreePages) > 0
    BY <1>1, PageCount, FS_EmptySet
  <2>2. allocated_pages + 1 \in 0 .. TotalPages
    BY <2>1, PageCount, PmmAssumption
       DEF Inv, TypeOK, CountersExact, pmm_get_allocated, pmm_get_free
  <2>3. QED
    BY <1>2, <2>2, CounterRange
<1>8. CountersExact'
  BY <1>6, <1>7, PageCount, PmmAssumption
     DEF Inv, TypeOK, CountersExact, pmm_get_allocated, pmm_get_free
<1>9. TypeOK'
  BY <1>2, <1>3, <1>4, <1>7, Zenon DEF Inv, TypeOK
<1>10. \A d \in Callers : \A a \in held'[d] :
          a \in held[d] \/ (d = c /\ a = p * PAGE_SIZE)
  BY <1>2, <1>3 DEF Inv, TypeOK
<1>11. \A d \in Callers : p * PAGE_SIZE \notin held[d]
  BY <1>1, <1>5, AddrOfPage, Zenon DEF Inv, ExclusiveFrames
<1>12. ExclusiveFrames'
  <2>. SUFFICES ASSUME NEW e \in Callers, NEW a \in held'[e]
                PROVE  /\ a \div PAGE_SIZE \in AllocatedPages'
                       /\ \A d \in Callers \ {e} : a \notin held'[d]
    BY Zenon DEF ExclusiveFrames
  <2>1. CASE a \in held[e]
    <3>1. a \div PAGE_SIZE \in AllocatedPages'
      BY <1>4, <2>1, Zenon DEF Inv, ExclusiveFrames
    <3>2. a # p * PAGE_SIZE
      BY <1>11, <2>1, Zenon
    <3>3. \A d \in Callers \ {e} : a \notin held'[d]
      BY <1>10, <2>1, <3>2, Zenon DEF Inv, ExclusiveFrames
    <3>4. QED
      BY <3>1, <3>3
  <2>2. CASE e = c /\ a = p * PAGE_SIZE
    <3>1. a \div PAGE_SIZE = p
      BY <1>1, <2>2, AddrOfPage, Zenon
    <3>2. a \div PAGE_SIZE \in AllocatedPages'
      BY <1>4, <3>1, Zenon
    <3>3. \A d \in Callers \ {e} : a \notin held'[d]
      BY <1>10, <1>11, <2>2, Zenon
    <3>4. QED
      BY <3>2, <3>3
  <2>3. QED
    BY <1>10, <2>1, <2>2, Zenon
<1>13. OnlyPageZeroLeaks'
  <2>. SUFFICES ASSUME NEW q \in AllocatedPages', q # 0
                PROVE  \E d \in Callers : q * PAGE_SIZE \in held'[d]
    BY Zenon DEF OnlyPageZeroLeaks
  <2>1. CASE q = p
    <3>1. q * PAGE_SIZE # 0
      BY <1>1, <2>1, AddrOfPage, Zenon
    <3>2. q * PAGE_SIZE \in held'[c]
      BY <1>2, <1>3, <2>1, <3>1, Zenon DEF Inv, TypeOK
    <3>3. QED
      BY <3>2
  <2>2. CASE q # p
    <3>1. PICK d \in Callers : q * PAGE_SIZE \in held[d]
      BY <1>4, <2>2, Zenon DEF Inv, OnlyPageZeroLeaks
    <3>2. held[d] \subseteq held'[d]
      BY <1>2 DEF Inv, TypeOK
    <3>3. QED
      BY <3>1, <3>2
  <2>3. QED
    BY <2>1, <2>2
<1>14. QED
  BY <1>4, <1>8, <1>9, <1>12, <1>13 DEF Inv

(* pmm_free of an address that passes the checks: the page was marked, so  *)
(* the counter is positive, and its address leaves the only caller that    *)
(* can hold it.                                                            *)
LEMMA FreeInv ==
    ASSUME Inv, NEW c \in Callers, NEW a \in Addrs \cup StrayAddrs,
           pmm_free(c, a), FreeAccepts(a)
    PROVE  Inv'
<1>. DEFINE p == a \div PAGE_SIZE
<1>1. a \in Nat /\ p \in Nat /\ p < TotalPages /\ a = p * PAGE_SIZE
  <2>1. a \in Nat
    BY AddrOfPage, BitOfPage, PmmAssumption, Zenon DEF Addrs
  <2>2. QED
    BY <2>1, SMT DEF FreeAccepts, PAGE_SIZE
<1>2. p \in Pages /\ p \in AllocatedPages /\ p \notin FreePages
  BY <1>1, PmmAssumption DEF Pages, FreeAccepts, AllocatedPages, FreePages
<1>3. /\ bitmap' = bitmap_clear_bit(p)
      /\ allocated_pages' = (allocated_pages - 1) % CounterMod
      /\ held' = [held EXCEPT ![c] = @ \ {a}]
      /\ \A d \in Callers \ {c} : a \notin held[d]
  BY DEF pmm_free
<1>4. /\ bitmap' \in [0 .. bitmap_size - 1 -> SUBSET Bits]
      /\ FreePages' = FreePages \cup {p}
      /\ AllocatedPages' = AllocatedPages \ {p}
      /\ PaddingClear'
  BY <1>2, <1>3, ClearBit DEF Inv
<1>5. /\ Cardinality(FreePages') = Cardinality(FreePages) + 1
      /\ Cardinality(AllocatedPages') = Cardinality(AllocatedPages) - 1
  <2>1. Cardinality(FreePages \cup {p}) = Cardinality(FreePages) + 1
    BY <1>2, PageCount, FS_AddElement
  <2>2. Cardinality(AllocatedPages \ {p}) = Cardinality(AllocatedPages) - 1
    BY <1>2, PageCount, FS_RemoveElement
  <2>3. QED
    BY <1>4, <2>1, <2>2
<1>6. allocated_pages' = allocated_pages - 1 /\ allocated_pages' \in 0 .. TotalPages
  <2>1. Cardinality(AllocatedPages) > 0
    BY <1>2, PageCount, FS_EmptySet
  <2>2. allocated_pages - 1 \in 0 .. TotalPages
    BY <2>1, PageCount, PmmAssumption
       DEF Inv, TypeOK, CountersExact, pmm_get_allocated, pmm_get_free
  <2>3. QED
    BY <1>3, <2>2, CounterRange
<1>7. CountersExact'
  BY <1>5, <1>6, PageCount, PmmAssumption
     DEF Inv, TypeOK, CountersExact, pmm_get_allocated, pmm_get_free
<1>8. TypeOK'
  BY <1>3, <1>4, <1>6, Zenon DEF Inv, TypeOK
<1>9. \A d \in Callers : held'[d] = held[d] \ {a}
  BY <1>3 DEF Inv, TypeOK
<1>10. ExclusiveFrames'
  <2>. SUFFICES ASSUME NEW d \in Callers, NEW b \in held'[d]
                PROVE  /\ b \div PAGE_SIZE \in AllocatedPages'
                       /\ \A e \in Callers \ {d} : b \notin held'[e]
    BY Zenon DEF ExclusiveFrames
  <2>1. b \in held[d] /\ b # a
    BY <1>9, Zenon
  <2>2. b \div PAGE_SIZE \in AllocatedPages /\ \A e \in Callers \ {d} : b \notin held[e]
    BY <2>1, Zenon DEF Inv, ExclusiveFrames
  <2>3. PICK q \in Pages : b = q * PAGE_SIZE
    BY <2>1, Zenon DEF Inv, TypeOK, Addrs
  <2>4. b \div PAGE_SIZE # p
    BY <1>1, <2>1, <2>3, AddrOfPage, BitOfPage, Zenon
  <2>5. QED
    BY <1>4, <1>9, <2>2, <2>4, Zenon
<1>11. OnlyPageZeroLeaks'
  <2>. SUFFICES ASSUME NEW q \in AllocatedPages', q # 0
                PROVE  \E d \in Callers : q * PAGE_SIZE \in held'[d]
    BY Zenon DEF OnlyPageZeroLeaks
  <2>1. q \in AllocatedPages /\ q # p /\ q \in Nat
    BY <1>4, BitOfPage DEF AllocatedPages
  <2>2. PICK d \in Callers : q * PAGE_SIZE \in held[d]
    BY <2>1, Zenon DEF Inv, OnlyPageZeroLeaks
  <2>3. q * PAGE_SIZE # a
    BY <1>1, <2>1, AddrOfPage, Zenon
  <2>4. QED
    BY <1>9, <2>2, <2>3, Zenon
<1>12. QED
  BY <1>4, <1>7, <1>8, <1>10, <1>11 DEF Inv

(* pmm_free of an address that fails a check changes no frame, and no      *)
(* caller was holding such an address.                                     *)
LEMMA RefusedInv ==
    ASSUME Inv, NEW c \in Callers, NEW a \in Addrs \cup StrayAddrs,
           pmm_free(c, a), ~FreeAccepts(a)
    PROVE  UNCHANGED vars
<1>1. a \notin held[c]
  <2>. SUFFICES ASSUME a \in held[c] PROVE FreeAccepts(a)
    OBVIOUS
  <2>1. PICK q \in Pages : a = q * PAGE_SIZE
    BY Zenon DEF Inv, TypeOK, Addrs
  <2>2. q \in AllocatedPages
    BY <2>1, AddrOfPage, BitOfPage, Zenon DEF Inv, ExclusiveFrames
  <2>3. bitmap_test_bit(q) /\ q < TotalPages
    BY <2>2, PmmAssumption DEF AllocatedPages, FreePages, Pages
  <2>4. a % PAGE_SIZE = 0 /\ a \div PAGE_SIZE = q
    BY <2>1, AddrOfPage, BitOfPage, Zenon
  <2>5. QED
    BY <2>3, <2>4, Zenon DEF FreeAccepts
<1>2. held' = [held EXCEPT ![c] = @ \ {a}]
      /\ UNCHANGED <<bitmap, allocated_pages>>
  BY DEF pmm_free
<1>3. held' = held
  BY <1>1, <1>2, Zenon DEF Inv, TypeOK
<1>4. QED
  BY <1>2, <1>3 DEF vars

LEMMA NextInv == Inv /\ [Next]_vars => Inv'
<1>. SUFFICES ASSUME Inv, [Next]_vars PROVE Inv'
  OBVIOUS
<1>1. CASE UNCHANGED vars
  BY <1>1 DEF vars, Inv, TypeOK, CountersExact, ExclusiveFrames,
     OnlyPageZeroLeaks, PaddingClear, FreePages, AllocatedPages,
     bitmap_test_bit, pmm_get_allocated, pmm_get_free
<1>2. ASSUME NEW c \in Callers, pmm_alloc(c) PROVE Inv'
  <2>1. CASE find_free_page # NO_PAGE
    BY <1>2, <2>1, AllocInv
  <2>2. CASE find_free_page = NO_PAGE
    <3>1. UNCHANGED vars
      BY <1>2, <2>2 DEF pmm_alloc
    <3>2. QED
      BY <1>1, <3>1
  <2>3. QED
    BY <2>1, <2>2
<1>3. ASSUME NEW c \in Callers, NEW a \in Addrs \cup StrayAddrs, pmm_free(c, a)
      PROVE  Inv'
  <2>1. CASE FreeAccepts(a)
    BY <1>3, <2>1, FreeInv
  <2>2. CASE ~FreeAccepts(a)
    BY <1>1, <1>3, <2>2, RefusedInv
  <2>3. QED
    BY <2>1, <2>2
<1>4. QED
  BY <1>1, <1>2, <1>3 DEF Next

(* What a caller of pmm_alloc can rely on: the address is 0, or that of    *)
(* the first free page, which nobody held; nobody loses a frame.           *)
LEMMA AllocFacts ==
    ASSUME Inv, NEW c \in Callers, pmm_alloc(c)
    PROVE  /\ Inv'
           /\ AllocResult \in Addrs
           /\ \A d \in Callers : held[d] \subseteq held'[d]
           /\ \A d \in Callers : d # c => held'[d] = held[d]
           /\ AllocResult # 0 => /\ AllocResult \in held'[c]
                                 /\ \A d \in Callers : AllocResult \notin held[d]
           /\ FreePages = {} => /\ find_free_page = NO_PAGE /\ AllocResult = 0
                                /\ FreePages' = {} /\ AllocatedPages' = AllocatedPages
                                /\ held' = held
           /\ FreePages # {} =>
                 /\ find_free_page \in FreePages
                 /\ \A q \in FreePages : find_free_page =< q
                 /\ AllocResult = find_free_page * PAGE_SIZE
                 /\ AllocResult \div PAGE_SIZE = find_free_page
                 /\ AllocResult = 0 <=> find_free_page = 0
                 /\ FreePages' = FreePages \ {find_free_page}
                 /\ AllocatedPages' = AllocatedPages \cup {find_free_page}
<1>1. Inv'
  BY NextInv, Zenon DEF Next
<1>2. 0 \in Pages /\ Pages \subseteq Nat /\ 0 \in Addrs
  BY PmmAssumption DEF Pages, Addrs, PAGE_SIZE
<1>3. CASE FreePages = {}
  <2>1. find_free_page = NO_PAGE
    BY <1>3, FirstFreePage, Zenon
  <2>2. AllocResult = 0
    BY <2>1, Zenon DEF AllocResult
  <2>3. bitmap' = bitmap /\ held' = held
    BY <2>1, Zenon DEF pmm_alloc, vars
  <2>4. FreePages' = FreePages /\ AllocatedPages' = AllocatedPages
    BY <2>3, Zenon DEF FreePages, AllocatedPages, bitmap_test_bit
  <2>5. QED
    BY <1>1, <1>2, <1>3, <2>1, <2>2, <2>3, <2>4, Zenon
<1>4. CASE FreePages # {}
  <2>. DEFINE p == find_free_page
  <2>1. /\ p \in FreePages /\ p \in Pages /\ p # NO_PAGE /\ p \in Nat
        /\ p \notin AllocatedPages
    BY <1>2, <1>4, FirstFreePage, Zenon DEF FreePages, AllocatedPages
  <2>2. \A q \in FreePages : p =< q
    <3>1. FreePages \in SUBSET Nat
      BY <1>2, Zenon DEF FreePages
    <3>2. \A q \in FreePages : Min(FreePages) =< q
      BY <1>4, <3>1, NatMinimum, Zenon
    <3>3. QED
      BY <1>4, <3>2, Zenon DEF find_free_page
  <2>3. /\ bitmap' = bitmap_set_bit(p)
        /\ held' = [held EXCEPT ![c] = @ \cup ({AllocResult} \ {0})]
    BY <2>1, Zenon DEF pmm_alloc
  <2>4. /\ FreePages' = FreePages \ {p}
        /\ AllocatedPages' = AllocatedPages \cup {p}
    BY <2>1, <2>3, SetBit, Zenon DEF Inv
  <2>5. AllocResult = p * PAGE_SIZE /\ AllocResult \in Addrs
    BY <2>1, Zenon DEF AllocResult, Addrs
  <2>6. AllocResult \div PAGE_SIZE = p /\ (AllocResult = 0 <=> p = 0)
    BY <2>1, <2>5, AddrOfPage, Zenon
  <2>7. /\ held'[c] = held[c] \cup ({AllocResult} \ {0})
        /\ \A d \in Callers : d # c => held'[d] = held[d]
    BY <2>3, Zenon DEF Inv, TypeOK
  <2>8. \A d \in Callers : AllocResult \notin held[d]
    BY <2>1, <2>6, Zenon DEF Inv, ExclusiveFrames
  <2>9. \A d \in Callers : held[d] \subseteq held'[d]
    BY <2>7, Zenon
  <2>10. QED
    BY <1>1, <1>4, <2>1, <2>2, <2>4, <2>5, <2>6, <2>7, <2>8, <2>9, Zenon
<1>5. QED
  BY <1>3, <1>4, Zenon

(* The counters pmm_get_allocated and pmm_get_free report stay in range    *)
(* and exact, whatever addresses are passed to pmm_free.                   *)
THEOREM PmmCounters == Spec => [](TypeOK /\ CountersExact)
<1>1. Inv => TypeOK /\ CountersExact
  BY DEF Inv
<1>2. QED
  BY <1>1, InitInv, NextInv, PTL DEF Spec

(* A frame pmm_alloc gave out is not given to anyone else until it is      *)
(* freed.                                                                  *)
THEOREM PmmExclusive == Spec => []ExclusiveFrames
<1>1. Inv => ExclusiveFrames
  BY DEF Inv
<1>2. QED
  BY <1>1, InitInv, NextInv, PTL DEF Spec

(* pmm_alloc and pmm_free lose no frame except the first page.             *)
THEOREM PmmNoLeak == Spec => [](OnlyPageZeroLeaks /\ PaddingClear)
<1>1. Inv => OnlyPageZeroLeaks /\ PaddingClear
  BY DEF Inv
<1>2. QED
  BY <1>1, InitInv, NextInv, PTL DEF Spec
-----------------------------------------------------------------------------
(* The bitmap allocator implements the abstract allocator: a successful    *)
(* pmm_alloc is a Grant (or a stutter, when it returns page 0), and a      *)
(* pmm_free of an address its caller holds is a Release.                   *)
THEOREM PmmRefinement == Spec => FrameAllocatorSpec
<1>1. Init => Abstract!Init
  BY DEF Init, Abstract!Init
<1>2. ASSUME Inv, [Next]_vars PROVE [Abstract!Next]_held
  <2>1. CASE UNCHANGED vars
    BY <2>1 DEF vars
  <2>2. ASSUME NEW c \in Callers, pmm_alloc(c), find_free_page # NO_PAGE
        PROVE  [Abstract!Next]_held
    <3>. DEFINE p == find_free_page
    <3>1. p \in FreePages /\ p \in Pages /\ p \in Nat /\ p \notin AllocatedPages
      BY <2>2, FirstFreePage, BitOfPage DEF FreePages, AllocatedPages
    <3>2. AllocResult = p * PAGE_SIZE
      BY <2>2 DEF AllocResult
    <3>3. held' = [held EXCEPT ![c] = @ \cup ({AllocResult} \ {0})]
      BY <2>2 DEF pmm_alloc
    <3>4. \A d \in Callers : AllocResult \notin held[d]
      BY <1>2, <3>1, <3>2, AddrOfPage, Zenon DEF Inv, ExclusiveFrames
    <3>5. CASE AllocResult = 0
      <4>1. {AllocResult} \ {0} = {}
        BY <3>5
      <4>2. held' = held
        BY <1>2, <3>3, <4>1, Zenon DEF Inv, TypeOK
      <4>3. QED
        BY <4>2
    <3>6. CASE AllocResult # 0
      <4>1. {AllocResult} \ {0} = {AllocResult}
        BY <3>6
      <4>2. AllocResult \in Addrs \ {0}
        BY <3>1, <3>2, <3>6, Zenon DEF Addrs
      <4>3. Abstract!Grant(c)
        BY <3>3, <3>4, <4>1, <4>2, Zenon DEF Abstract!Grant
      <4>4. QED
        BY <4>3 DEF Abstract!Next
    <3>7. QED
      BY <3>5, <3>6
  <2>3. ASSUME NEW c \in Callers, pmm_alloc(c), find_free_page = NO_PAGE
        PROVE  [Abstract!Next]_held
    BY <2>3 DEF pmm_alloc, vars
  <2>4. ASSUME NEW c \in Callers, NEW a \in Addrs \cup StrayAddrs, pmm_free(c, a)
        PROVE  [Abstract!Next]_held
    <3>1. held' = [held EXCEPT ![c] = @ \ {a}]
      BY <2>4 DEF pmm_free
    <3>2. CASE a \in held[c]
      <4>1. Abstract!Release(c)
        BY <3>1, <3>2, Zenon DEF Abstract!Release
      <4>2. QED
        BY <4>1 DEF Abstract!Next
    <3>3. CASE a \notin held[c]
      <4>1. held' = held
        BY <1>2, <3>1, <3>3, Zenon DEF Inv, TypeOK
      <4>2. QED
        BY <4>1
    <3>4. QED
      BY <3>2, <3>3
  <2>5. QED
    BY <1>2, <2>1, <2>2, <2>3, <2>4 DEF Next
<1>3. QED
  BY <1>1, <1>2, InitInv, NextInv, PTL DEF Spec, FrameAllocatorSpec, Abstract!Spec
=============================================================================
