----------------------------- MODULE VmmProofs ------------------------------
(***************************************************************************)
(* Proofs about the virtual memory manager, for every size of the          *)
(* directory, the tables and the identity map: page tables belong to one   *)
(* entry, and while they are in reach of the identity map they are reached *)
(* where they are, the kernel stays mapped and the translations are those  *)
(* that callers were told.                                                 *)
(***************************************************************************)
EXTENDS Vmm, TLAPS

Pm == INSTANCE PmmProofs WITH Callers <- {"vmm", "other"}, StrayAddrs <- {}

(* What the proofs say of a directory d and tables m while the kernel      *)
(* runs and page tables are in reach.  The kernel's entries are never      *)
(* assigned, and its tables keep the identity map but for page 0.          *)
KernelOK(d, m) ==
    /\ \A i \in PDEs : KernelEntry(i) => d[i] = KernelTable(KernelIndex(i))
    /\ \A k \in 0 .. KernelTables - 1 : KernelTable(k) \in DOMAIN m
    /\ \A p \in 1 .. IdentityPages - 1 :
          m[KernelTable(pd_index(p))][pt_index(p)] = p

(* Every other table is in a frame that vmm_map was given, those in h.     *)
OwnTable(d, h, i) ==
    /\ d[i] \notin KernelFrames /\ d[i] * Memory!PAGE_SIZE \in h
    /\ \A j \in PDEs \ {i} : d[j] # d[i]

TablesOK(d, m, h) ==
    /\ d \in [PDEs -> Frames \cup {NONE}]
    /\ \A i \in PDEs : d[i] \in DOMAIN m \cup {NONE}
    /\ \A f \in DOMAIN m : m[f] \in [PTEs -> Frames \cup {NONE}]
    /\ KernelOK(d, m)
    /\ \A i \in PDEs : ~KernelEntry(i) /\ d[i] # NONE => OwnTable(d, h, i)

(* A cached translation is right unless its page has an alias, and in the  *)
(* identity map in any case.                                               *)
CacheOK(d, m, c) ==
    \A e \in c : /\ e \in VPages \X Frames
                 /\ e[1] \in 1 .. IdentityPages - 1 => e[2] = e[1]
                 /\ InKernelTable(e[1]) \/ Walk(d, m, e[1]) = e[2]

ToldOK(d, m, t) ==
    \A page \in DOMAIN t :
        page \in VPages /\ d[pd_index(page)] # NONE /\ Walk(d, m, page) = t[page]

Running ==
    /\ TablesOK(directory, tables, held["vmm"])
    /\ CacheOK(directory, tables, tlb)
    /\ ToldOK(directory, tables, told)

(* What holds of the directory whether or not page tables are in reach:    *)
(* the tables that vmm_map made are in frames of its own, and not in the   *)
(* kernel's as long as the kernel is not overwritten.                      *)
EntriesOwned(d, h) ==
    /\ \A i \in PDEs : KernelEntry(i) => d[i] = KernelTable(KernelIndex(i))
    /\ \A i \in PDEs : ~KernelEntry(i) /\ d[i] # NONE =>
          /\ d[i] * Memory!PAGE_SIZE \in h
          /\ \A j \in PDEs \ {i} : ~KernelEntry(j) => d[j] # d[i]

DirectoryOK ==
    /\ EntriesOwned(directory, held["vmm"])
    /\ mode # "overwritten" =>
          \A i \in PDEs : ~KernelEntry(i) => directory[i] \notin KernelFrames

Inv ==
    /\ TypeOK /\ Pm!Inv /\ DirectoryOK
    /\ mode = "fault" => ~InReach
    /\ mode = "run" /\ InReach => Running
-----------------------------------------------------------------------------
(* Quotient and remainder by the size of a table. *)
LEMMA Division ==
    ASSUME NEW n \in Nat \ {0}, NEW p \in Nat
    PROVE  /\ p \div n \in Nat /\ p % n \in 0 .. n - 1
           /\ p = (p \div n) * n + (p % n)
           /\ \A m \in Nat : p < m * n => p \div n < m
           /\ \A q \in Nat : p = q * n => p \div n = q /\ p % n = 0
<1>1. p \div n \in Nat /\ p % n \in 0 .. n - 1 /\ p = (p \div n) * n + (p % n)
  BY SMT
<1>2. \A a, d, w \in Nat : a * w \in Nat /\ (a + d) * w = a * w + d * w
  BY SMT
<1>3. ASSUME NEW a \in Nat, NEW b \in Nat, a < b PROVE a * n + n =< b * n
  <2>1. b - a - 1 \in Nat /\ b = (a + 1) + (b - a - 1) /\ a + 1 \in Nat
    BY <1>3
  <2>2. b * n = (a + 1) * n + (b - a - 1) * n /\ (b - a - 1) * n \in Nat
    BY <1>2, <2>1
  <2>3. (a + 1) * n = a * n + n /\ a * n \in Nat
    BY <1>2
  <2>4. QED
    BY <2>2, <2>3
<1>. DEFINE k == p \div n
            r == p % n
<1>4. k \in Nat /\ r \in 0 .. n - 1 /\ p = k * n + r /\ k * n \in Nat
  BY <1>1, <1>2
<1>. HIDE DEF k, r
<1>5. ASSUME NEW m \in Nat, p < m * n PROVE k < m
  <2>1. m * n \in Nat
    BY <1>2
  <2>2. m < k => m * n + n =< k * n
    BY <1>3, <1>4
  <2>3. m = k => m * n = k * n
    OBVIOUS
  <2>4. QED
    BY <1>4, <1>5, <2>1, <2>2, <2>3
<1>6. ASSUME NEW q \in Nat, p = q * n PROVE k = q /\ r = 0
  <2>1. k < q => k * n + n =< q * n
    BY <1>3, <1>4
  <2>2. q < k => q * n + n =< k * n
    BY <1>3, <1>4
  <2>3. k = q => k * n = q * n
    OBVIOUS
  <2>4. q * n \in Nat
    BY <1>2
  <2>5. QED
    BY <1>4, <1>6, <2>1, <2>2, <2>3, <2>4
<1>7. QED
  BY <1>1, <1>5, <1>6 DEF k, r

(* Pages as entries of tables. *)
LEMMA PageIndex ==
    /\ \A p \in VPages : /\ p \in Nat /\ pd_index(p) \in PDEs /\ pt_index(p) \in PTEs
                         /\ p = pd_index(p) * PT_SIZE + pt_index(p)
    /\ \A p, q \in VPages :
          pd_index(p) = pd_index(q) /\ pt_index(p) = pt_index(q) => p = q
    /\ \A i \in PDEs : /\ i * PT_SIZE \in VPages
                       /\ pd_index(i * PT_SIZE) = i /\ pt_index(i * PT_SIZE) = 0
    /\ \A p \in 0 .. IdentityPages - 1 :
          p \in VPages /\ pd_index(p) \in 0 .. KernelTables - 1
<1>1. PD_SIZE \in Nat /\ PT_SIZE \in Nat \ {0} /\ KernelTables \in Nat
  BY VmmAssumption
<1>2. ASSUME NEW p \in Nat
      PROVE  /\ pd_index(p) \in Nat /\ pt_index(p) \in 0 .. PT_SIZE - 1
             /\ p = pd_index(p) * PT_SIZE + pt_index(p)
             /\ \A m \in Nat : p < m * PT_SIZE => pd_index(p) < m
             /\ \A q \in Nat : p = q * PT_SIZE => pd_index(p) = q /\ pt_index(p) = 0
  BY <1>1, Division DEF pd_index, pt_index
<1>3. PD_SIZE * PT_SIZE \in Nat /\ KernelTables * PT_SIZE \in Nat
  BY <1>1, SMT
<1>4. \A p \in VPages : p \in Nat /\ p < PD_SIZE * PT_SIZE
  BY <1>3 DEF VPages
<1>5. \A p \in VPages : /\ p \in Nat /\ pd_index(p) \in PDEs /\ pt_index(p) \in PTEs
                        /\ p = pd_index(p) * PT_SIZE + pt_index(p)
  <2>. SUFFICES ASSUME NEW p \in VPages
                PROVE  /\ p \in Nat /\ pd_index(p) \in PDEs /\ pt_index(p) \in PTEs
                       /\ p = pd_index(p) * PT_SIZE + pt_index(p)
    OBVIOUS
  <2>1. p \in Nat /\ pd_index(p) < PD_SIZE
    BY <1>1, <1>2, <1>4
  <2>2. QED
    BY <1>1, <1>2, <2>1 DEF PDEs, PTEs
<1>6. \A i \in PDEs : /\ i * PT_SIZE \in VPages
                      /\ pd_index(i * PT_SIZE) = i /\ pt_index(i * PT_SIZE) = 0
  <2>. SUFFICES ASSUME NEW i \in PDEs
                PROVE  /\ i * PT_SIZE \in VPages
                       /\ pd_index(i * PT_SIZE) = i /\ pt_index(i * PT_SIZE) = 0
    OBVIOUS
  <2>1. i \in Nat /\ PD_SIZE - i - 1 \in Nat /\ i * PT_SIZE \in Nat
    BY <1>1 DEF PDEs
  <2>2. \A a, d, w \in Nat : a * w \in Nat /\ (a + d) * w = a * w + d * w
    BY SMT
  <2>3. (i + 1) + (PD_SIZE - i - 1) = PD_SIZE
    BY <1>1, <2>1
  <2>4. PD_SIZE * PT_SIZE = (i + 1) * PT_SIZE + (PD_SIZE - i - 1) * PT_SIZE
    BY <1>1, <2>1, <2>2, <2>3
  <2>5. (i + 1) * PT_SIZE = i * PT_SIZE + PT_SIZE
    BY <1>1, <2>1, <2>2
  <2>6. (PD_SIZE - i - 1) * PT_SIZE \in Nat
    BY <1>1, <2>1, <2>2
  <2>7. i * PT_SIZE < PD_SIZE * PT_SIZE
    BY <1>1, <2>1, <2>4, <2>5, <2>6
  <2>8. QED
    BY <1>2, <1>3, <2>1, <2>7 DEF VPages
<1>7. \A p \in 0 .. IdentityPages - 1 :
         p \in VPages /\ pd_index(p) \in 0 .. KernelTables - 1
  <2>. SUFFICES ASSUME NEW p \in 0 .. IdentityPages - 1
                PROVE  p \in VPages /\ pd_index(p) \in 0 .. KernelTables - 1
    OBVIOUS
  <2>1. p \in Nat /\ p < KernelTables * PT_SIZE
    BY <1>3 DEF IdentityPages
  <2>2. pd_index(p) \in Nat /\ pd_index(p) < KernelTables
    BY <1>1, <1>2, <2>1
  <2>3. KernelTables =< PD_SIZE /\ PD_SIZE - KernelTables \in Nat
        /\ KernelTables + (PD_SIZE - KernelTables) = PD_SIZE
    BY VmmAssumption
  <2>4. \A a, d, w \in Nat : d * w \in Nat /\ (a + d) * w = a * w + d * w
    BY SMT
  <2>5. PD_SIZE * PT_SIZE = KernelTables * PT_SIZE + (PD_SIZE - KernelTables) * PT_SIZE
        /\ (PD_SIZE - KernelTables) * PT_SIZE \in Nat
    BY <1>1, <2>3, <2>4
  <2>6. p < PD_SIZE * PT_SIZE
    BY <1>3, <2>1, <2>5
  <2>7. QED
    BY <1>1, <1>3, <2>1, <2>2, <2>6 DEF VPages
<1>8. \A p, q \in VPages :
         pd_index(p) = pd_index(q) /\ pt_index(p) = pt_index(q) => p = q
  BY <1>5, Zenon
<1>9. QED
  BY <1>5, <1>6, <1>7, <1>8, Zenon
(* Entries of the directory that are the kernel's, and the pages that      *)
(* share an entry of its tables.                                           *)
LEMMA KernelEntries ==
    /\ \A i : KernelEntry(i) => i \in PDEs /\ KernelIndex(i) \in 0 .. KernelTables - 1
    /\ \A i \in 0 .. KernelTables - 1 : KernelEntry(i) /\ KernelIndex(i) = i
    /\ \A k \in 0 .. KernelTables - 1 : KernelTable(k) \in KernelFrames
    /\ \A j, k \in 0 .. KernelTables - 1 : KernelTable(j) = KernelTable(k) => j = k
BY VmmAssumption DEF KernelEntry, KernelIndex, PDEs, KernelTable

LEMMA IdentityFacts ==
    /\ IdentityPages \in Nat /\ IdentityPages =< TotalPages
    /\ KernelFrames \subseteq 1 .. IdentityPages - 1
    /\ KernelFrames \subseteq Frames /\ KernelFrames # {}
    /\ NONE \notin Frames /\ NONE \notin KernelFrames /\ NONE # 0
    /\ 1 .. IdentityPages - 1 \subseteq Frames
<1>1. KernelTables \in Nat /\ PT_SIZE \in Nat
  BY VmmAssumption
<1>2. IdentityPages \in Nat
  BY <1>1, SMT DEF IdentityPages
<1>3. /\ IdentityPages =< TotalPages /\ KernelFrames \subseteq 1 .. IdentityPages - 1
      /\ KernelFrames # {} /\ TotalPages \in Nat
  BY VmmAssumption, Zenon
<1>4. QED
  BY <1>2, <1>3 DEF Frames, NONE

LEMMA AliasFacts ==
    ASSUME NEW page \in VPages
    PROVE  /\ page \in Aliases(page) /\ Aliases(page) \subseteq VPages
           /\ \A p \in Aliases(page) : pt_index(p) = pt_index(page)
           /\ InKernelTable(page) => \A p \in Aliases(page) : InKernelTable(p)
                 /\ KernelIndex(pd_index(p)) = KernelIndex(pd_index(page))
           /\ ~InKernelTable(page) => Aliases(page) = {page}
BY Zenon DEF Aliases

(* Pages that are in the same entry of the same table are aliases. *)
LEMMA SameEntry ==
    ASSUME NEW d, NEW m, NEW h, TablesOK(d, m, h),
           NEW p \in VPages, NEW q \in VPages, d[pd_index(p)] # NONE,
           d[pd_index(p)] = d[pd_index(q)], pt_index(p) = pt_index(q)
    PROVE  p \in Aliases(q)
<1>1. pd_index(p) \in PDEs /\ pd_index(q) \in PDEs
  BY PageIndex, Zenon
<1>2. /\ \A i \in PDEs : KernelEntry(i) => d[i] = KernelTable(KernelIndex(i))
      /\ \A i \in PDEs : ~KernelEntry(i) /\ d[i] # NONE =>
            d[i] \notin KernelFrames /\ \A j \in PDEs \ {i} : d[j] # d[i]
  BY Zenon DEF TablesOK, KernelOK, OwnTable
<1>3. CASE pd_index(p) = pd_index(q)
  <2>1. p = q
    BY <1>3, PageIndex, Zenon
  <2>2. QED
    BY <2>1, AliasFacts, Zenon
<1>4. CASE pd_index(p) # pd_index(q)
  <2>1. KernelEntry(pd_index(p)) /\ KernelEntry(pd_index(q))
    BY <1>1, <1>2, <1>4, Zenon
  <2>2. KernelTable(KernelIndex(pd_index(p))) = KernelTable(KernelIndex(pd_index(q)))
    BY <1>1, <1>2, <2>1, Zenon
  <2>3. KernelIndex(pd_index(p)) = KernelIndex(pd_index(q))
    BY <2>1, <2>2, KernelEntries, Zenon
  <2>4. QED
    BY <2>1, <2>3, Zenon DEF Aliases, InKernelTable
<1>5. QED
  BY <1>3, <1>4

(* Aliases have the same entry. *)
LEMMA SharedEntry ==
    ASSUME NEW d, NEW m, NEW h, TablesOK(d, m, h),
           NEW q \in VPages, NEW p \in Aliases(q)
    PROVE  /\ p \in VPages /\ d[pd_index(p)] = d[pd_index(q)]
           /\ pt_index(p) = pt_index(q)
<1>1. p \in VPages /\ pd_index(p) \in PDEs /\ pd_index(q) \in PDEs
      /\ pt_index(p) = pt_index(q)
  BY AliasFacts, PageIndex, Zenon
<1>2. CASE InKernelTable(q)
  <2>1. /\ KernelEntry(pd_index(p)) /\ KernelEntry(pd_index(q))
        /\ KernelIndex(pd_index(p)) = KernelIndex(pd_index(q))
    BY <1>2, AliasFacts, Zenon DEF InKernelTable
  <2>2. QED
    BY <1>1, <2>1, Zenon DEF TablesOK, KernelOK
<1>3. CASE ~InKernelTable(q)
  BY <1>1, <1>3, AliasFacts, Zenon
<1>4. QED
  BY <1>2, <1>3

(* The walk for a frame of the identity map ends at the frame, and so does *)
(* every access to it.                                                     *)
LEMMA IdentityWalk ==
    ASSUME NEW d, NEW m, KernelOK(d, m), NEW p \in 1 .. IdentityPages - 1
    PROVE  Walk(d, m, p) = p
<1>1. p \in 0 .. IdentityPages - 1
  BY IdentityFacts
<1>2. p \in VPages /\ pd_index(p) \in 0 .. KernelTables - 1
  BY <1>1, PageIndex, Zenon
<1>3. /\ KernelEntry(pd_index(p)) /\ KernelIndex(pd_index(p)) = pd_index(p)
      /\ pd_index(p) \in PDEs /\ KernelTable(pd_index(p)) \in KernelFrames
  BY <1>2, KernelEntries, Zenon
<1>4. d[pd_index(p)] = KernelTable(pd_index(p))
  BY <1>3, Zenon DEF KernelOK
<1>5. d[pd_index(p)] # NONE
  BY <1>3, <1>4, IdentityFacts, Zenon
<1>6. QED
  BY <1>4, <1>5, Zenon DEF Walk, KernelOK

LEMMA IdentityReached ==
    ASSUME NEW d, NEW m, KernelOK(d, m), NEW p \in 1 .. IdentityPages - 1,
           \A e \in tlb : e[1] \in 1 .. IdentityPages - 1 => e[2] = e[1]
    PROVE  Reached(d, m, p) = {p}
<1>1. Walk(d, m, p) = p
  BY IdentityWalk, Zenon
<1>2. {e[2] : e \in {x \in tlb : x[1] = p}} \subseteq {p}
  BY Zenon
<1>3. QED
  BY <1>1, <1>2, Zenon DEF Reached
-----------------------------------------------------------------------------
(* page_table[pt_index] = entry. *)
Stored(m, f, j, entry) == [m EXCEPT ![f][j] = entry]

LEMMA StoredFacts ==
    ASSUME NEW m, NEW f \in DOMAIN m, NEW j \in PTEs, NEW entry \in Frames \cup {NONE},
           \A g \in DOMAIN m : m[g] \in [PTEs -> Frames \cup {NONE}]
    PROVE  /\ DOMAIN Stored(m, f, j, entry) = DOMAIN m
           /\ \A g \in DOMAIN m : Stored(m, f, j, entry)[g] \in [PTEs -> Frames \cup {NONE}]
           /\ Stored(m, f, j, entry)[f][j] = entry
           /\ \A g \in DOMAIN m : \A k \in PTEs :
                 g # f \/ k # j => Stored(m, f, j, entry)[g][k] = m[g][k]
<1>. DEFINE E == Frames \cup {NONE}
            n == Stored(m, f, j, entry)
<1>1. /\ DOMAIN n = DOMAIN m
      /\ n[f] = [m[f] EXCEPT ![j] = entry]
      /\ \A g \in DOMAIN m : g # f => n[g] = m[g]
  BY Zenon DEF Stored
<1>. HIDE DEF n, E
<1>2. m[f] \in [PTEs -> E] /\ entry \in E
  BY Zenon DEF E
<1>3. /\ n[f] \in [PTEs -> E] /\ n[f][j] = entry
      /\ \A k \in PTEs : k # j => n[f][k] = m[f][k]
  BY <1>1, <1>2
<1>4. \A g \in DOMAIN m : m[g] \in [PTEs -> E]
  BY Zenon DEF E
<1>5. QED
  BY <1>1, <1>3, <1>4, Zenon DEF n, E

(* Writing the entry of a page changes its translation and that of its     *)
(* alias, and no other.                                                    *)
LEMMA StoredWalk ==
    ASSUME NEW d, NEW m, NEW h, TablesOK(d, m, h),
           NEW page \in VPages, d[pd_index(page)] # NONE,
           NEW entry \in Frames \cup {NONE},
           NEW q \in VPages, d[pd_index(q)] # NONE
    PROVE  Walk(d, Stored(m, d[pd_index(page)], pt_index(page), entry), q) =
              IF q \in Aliases(page) THEN entry ELSE Walk(d, m, q)
<1>. DEFINE f == d[pd_index(page)]
            j == pt_index(page)
            n == Stored(m, f, j, entry)
<1>1. /\ pd_index(page) \in PDEs /\ j \in PTEs
      /\ pd_index(q) \in PDEs /\ pt_index(q) \in PTEs
  BY PageIndex, Zenon
<1>2. f \in DOMAIN m /\ d[pd_index(q)] \in DOMAIN m
      /\ \A g \in DOMAIN m : m[g] \in [PTEs -> Frames \cup {NONE}]
  BY <1>1, Zenon DEF TablesOK
<1>3. /\ n[f][j] = entry
      /\ \A g \in DOMAIN m : \A k \in PTEs : g # f \/ k # j => n[g][k] = m[g][k]
  BY <1>1, <1>2, StoredFacts, SMT
<1>4. Walk(d, n, q) = n[d[pd_index(q)]][pt_index(q)]
      /\ Walk(d, m, q) = m[d[pd_index(q)]][pt_index(q)]
  BY Zenon DEF Walk
<1>5. CASE q \in Aliases(page)
  <2>1. d[pd_index(q)] = f /\ pt_index(q) = j
    BY <1>5, SharedEntry, Zenon
  <2>2. QED
    BY <1>3, <1>4, <1>5, <2>1, Zenon
<1>6. CASE q \notin Aliases(page)
  <2>1. d[pd_index(q)] # f \/ pt_index(q) # j
    BY <1>6, SameEntry, Zenon
  <2>2. QED
    BY <1>1, <1>2, <1>3, <1>4, <1>6, <2>1, Zenon
<1>7. QED
  BY <1>5, <1>6

(* What SetEntry leaves in the TLB, and tells the caller. *)
Flushed(c, page) == {e \in c : e[1] # page}
Reported(t, page, entry) ==
    [p \in DOMAIN t \cup Aliases(page) |-> IF p \in Aliases(page) THEN entry ELSE t[p]]

LEMMA StoreOK ==
    ASSUME NEW d, NEW m, NEW h, NEW c, NEW t,
           TablesOK(d, m, h), CacheOK(d, m, c), ToldOK(d, m, t),
           NEW page \in MapPages, d[pd_index(page)] # NONE,
           \A p \in 1 .. IdentityPages - 1 : p \notin Aliases(page),
           NEW entry \in Frames \cup {NONE}
    PROVE  LET n == Stored(m, d[pd_index(page)], pt_index(page), entry)
           IN  /\ TablesOK(d, n, h)
               /\ CacheOK(d, n, Flushed(c, page))
               /\ ToldOK(d, n, Reported(t, page, entry))
<1>. DEFINE n == Stored(m, d[pd_index(page)], pt_index(page), entry)
<1>1. page \in VPages /\ pd_index(page) \in PDEs /\ pt_index(page) \in PTEs
  BY VmmAssumption, PageIndex, Zenon
<1>2. d[pd_index(page)] \in DOMAIN m
      /\ \A g \in DOMAIN m : m[g] \in [PTEs -> Frames \cup {NONE}]
  BY <1>1, Zenon DEF TablesOK
<1>3. /\ DOMAIN n = DOMAIN m
      /\ \A g \in DOMAIN m : n[g] \in [PTEs -> Frames \cup {NONE}]
  BY <1>1, <1>2, StoredFacts, SMT
<1>4. \A q \in VPages : d[pd_index(q)] # NONE =>
         Walk(d, n, q) = IF q \in Aliases(page) THEN entry ELSE Walk(d, m, q)
  BY <1>1, StoredWalk, Zenon
<1>. HIDE DEF n
<1>5. TablesOK(d, n, h)
  <2>1. ASSUME NEW p \in 1 .. IdentityPages - 1
        PROVE  n[KernelTable(pd_index(p))][pt_index(p)] = p
    <3>1. p \in 0 .. IdentityPages - 1
      BY IdentityFacts
    <3>2. p \in VPages /\ pd_index(p) \in 0 .. KernelTables - 1
      BY <3>1, PageIndex, Zenon
    <3>3. /\ KernelEntry(pd_index(p)) /\ KernelIndex(pd_index(p)) = pd_index(p)
          /\ pd_index(p) \in PDEs /\ KernelTable(pd_index(p)) \in KernelFrames
      BY <3>2, KernelEntries, Zenon
    <3>4. d[pd_index(p)] = KernelTable(pd_index(p)) /\ d[pd_index(p)] # NONE
      BY <3>3, IdentityFacts, Zenon DEF TablesOK, KernelOK
    <3>5. Walk(d, n, p) = p
      BY <1>4, <3>2, <3>4, IdentityWalk, Zenon DEF TablesOK
    <3>6. QED
      BY <3>4, <3>5, Zenon DEF Walk
  <2>2. KernelOK(d, n)
    BY <1>3, <2>1, Zenon DEF TablesOK, KernelOK
  <2>3. QED
    BY <1>3, <2>2, Zenon DEF TablesOK
<1>6. CacheOK(d, n, Flushed(c, page))
  <2>. SUFFICES ASSUME NEW e \in c, e[1] # page, ~InKernelTable(e[1])
                PROVE  Walk(d, n, e[1]) = e[2]
    BY Zenon DEF CacheOK, Flushed
  <2>1. e \in VPages \X Frames /\ Walk(d, m, e[1]) = e[2]
    BY Zenon DEF CacheOK
  <2>2. e[1] \in VPages /\ e[2] \in Frames
    BY <2>1
  <2>3. d[pd_index(e[1])] # NONE
    BY <2>1, <2>2, IdentityFacts, Zenon DEF Walk
  <2>4. e[1] \notin Aliases(page)
    BY <1>1, AliasFacts, Zenon
  <2>5. QED
    BY <1>4, <2>1, <2>2, <2>3, <2>4, Zenon
<1>7. ToldOK(d, n, Reported(t, page, entry))
  <2>. DEFINE r == Reported(t, page, entry)
  <2>. SUFFICES ASSUME NEW p \in DOMAIN r
                PROVE  /\ p \in VPages /\ d[pd_index(p)] # NONE
                       /\ Walk(d, n, p) = r[p]
    BY Zenon DEF ToldOK
  <2>1. p \in DOMAIN t \cup Aliases(page)
        /\ r[p] = IF p \in Aliases(page) THEN entry ELSE t[p]
    BY Zenon DEF Reported
  <2>2. p \in VPages /\ d[pd_index(p)] # NONE
    BY <1>1, <2>1, SharedEntry, Zenon DEF ToldOK
  <2>3. p \notin Aliases(page) => Walk(d, m, p) = t[p]
    BY <2>1, Zenon DEF ToldOK
  <2>4. QED
    BY <1>4, <2>1, <2>2, <2>3, Zenon
<1>8. QED
  BY <1>5, <1>6, <1>7, Zenon DEF n

(* The directory and the tables once frame f, which holds old, is a table. *)
WithEntry(d, page, f) == [d EXCEPT ![pd_index(page)] = f]
WithTable(m, f, old) ==
    [g \in DOMAIN m \cup {f} |-> IF g = f THEN old ELSE m[g]]

(* A frame that nobody used becomes the table of an entry that had none,   *)
(* whatever the frame holds.                                               *)
LEMMA NewTableOK ==
    ASSUME NEW d, NEW m, NEW h, NEW c, NEW t,
           TablesOK(d, m, h), CacheOK(d, m, c), ToldOK(d, m, t),
           NEW page \in MapPages, d[pd_index(page)] = NONE,
           NEW f \in Frames, f \notin KernelFrames,
           NEW k, h \subseteq k, f * Memory!PAGE_SIZE \in k,
           f * Memory!PAGE_SIZE \notin h,
           NEW old \in [PTEs -> Frames \cup {NONE}]
    PROVE  /\ TablesOK(WithEntry(d, page, f), WithTable(m, f, old), k)
           /\ CacheOK(WithEntry(d, page, f), WithTable(m, f, old), c)
           /\ ToldOK(WithEntry(d, page, f), WithTable(m, f, old), t)
           /\ WithEntry(d, page, f)[pd_index(page)] = f /\ f # NONE
<1>. DEFINE i == pd_index(page)
            e == WithEntry(d, page, f)
            n == WithTable(m, f, old)
<1>1. page \in VPages /\ i \in PDEs
  BY VmmAssumption, PageIndex, Zenon
<1>2. f # NONE
  BY IdentityFacts, Zenon
<1>3. /\ d \in [PDEs -> Frames \cup {NONE}]
      /\ \A j \in PDEs : d[j] \in DOMAIN m \cup {NONE}
      /\ \A g \in DOMAIN m : m[g] \in [PTEs -> Frames \cup {NONE}]
      /\ \A j \in PDEs : KernelEntry(j) => d[j] = KernelTable(KernelIndex(j))
      /\ \A j \in PDEs : ~KernelEntry(j) /\ d[j] # NONE => OwnTable(d, h, j)
  BY Zenon DEF TablesOK, KernelOK
<1>4. \A j \in PDEs : KernelEntry(j) => d[j] \in KernelFrames /\ d[j] # NONE
  <2>1. \A j : KernelEntry(j) => KernelTable(KernelIndex(j)) \in KernelFrames
    BY KernelEntries, Zenon
  <2>2. NONE \notin KernelFrames
    BY IdentityFacts, Zenon
  <2>3. QED
    BY <1>3, <2>1, <2>2, Zenon
<1>5. ~KernelEntry(i)
  BY <1>1, <1>4, Zenon
<1>6. \A j \in PDEs : d[j] # f
  BY <1>2, <1>3, <1>4, Zenon DEF OwnTable
<1>7. /\ e \in [PDEs -> Frames \cup {NONE}] /\ e[i] = f
      /\ \A j \in PDEs : j # i => e[j] = d[j]
  BY <1>1, <1>3 DEF WithEntry
<1>8. /\ DOMAIN n = DOMAIN m \cup {f} /\ n[f] = old
      /\ \A g \in DOMAIN m : g # f => n[g] = m[g]
  BY Zenon DEF WithTable
<1>. HIDE DEF e, n, i
<1>9. \A q \in VPages : d[pd_index(q)] # NONE =>
         e[pd_index(q)] # NONE /\ Walk(e, n, q) = Walk(d, m, q)
  <2>. SUFFICES ASSUME NEW q \in VPages, d[pd_index(q)] # NONE
                PROVE  e[pd_index(q)] # NONE /\ Walk(e, n, q) = Walk(d, m, q)
    OBVIOUS
  <2>1. pd_index(q) \in PDEs /\ pd_index(q) # i
    BY PageIndex, Zenon DEF i
  <2>2. e[pd_index(q)] = d[pd_index(q)] /\ d[pd_index(q)] \in DOMAIN m
    BY <1>3, <1>7, <2>1, Zenon
  <2>3. n[d[pd_index(q)]] = m[d[pd_index(q)]]
    BY <1>6, <1>8, <2>1, <2>2, Zenon
  <2>4. QED
    BY <2>2, <2>3, Zenon DEF Walk
<1>10. KernelOK(e, n)
  <2>1. ASSUME NEW p \in 1 .. IdentityPages - 1
        PROVE  n[KernelTable(pd_index(p))][pt_index(p)] = p
    <3>1. p \in 0 .. IdentityPages - 1
      BY IdentityFacts
    <3>2. KernelTable(pd_index(p)) \in KernelFrames
          /\ KernelTable(pd_index(p)) \in DOMAIN m
      BY <3>1, PageIndex, KernelEntries, Zenon DEF TablesOK, KernelOK
    <3>3. QED
      BY <1>8, <3>2, Zenon DEF TablesOK, KernelOK
  <2>2. \A j \in PDEs : KernelEntry(j) => e[j] = KernelTable(KernelIndex(j))
    BY <1>3, <1>5, <1>7, Zenon
  <2>3. \A j \in 0 .. KernelTables - 1 : KernelTable(j) \in DOMAIN n
    BY <1>8, Zenon DEF TablesOK, KernelOK
  <2>4. QED
    BY <2>1, <2>2, <2>3, Zenon DEF KernelOK
<1>11. \A j \in PDEs : ~KernelEntry(j) /\ e[j] # NONE => OwnTable(e, k, j)
  <2>. SUFFICES ASSUME NEW j \in PDEs, ~KernelEntry(j), e[j] # NONE
                PROVE  OwnTable(e, k, j)
    OBVIOUS
  <2>1. CASE j = i
    BY <1>1, <1>6, <1>7, <2>1, Zenon DEF OwnTable
  <2>2. CASE j # i
    <3>1. e[j] = d[j] /\ OwnTable(d, h, j)
      BY <1>3, <1>7, <2>2, Zenon
    <3>2. \A x \in PDEs \ {j} : e[x] # d[j]
      BY <1>6, <1>7, <3>1, Zenon DEF OwnTable
    <3>3. QED
      BY <3>1, <3>2, Zenon DEF OwnTable
  <2>3. QED
    BY <2>1, <2>2
<1>12. \A j \in PDEs : e[j] \in DOMAIN n \cup {NONE}
  BY <1>3, <1>7, <1>8, Zenon
<1>13. \A g \in DOMAIN n : n[g] \in [PTEs -> Frames \cup {NONE}]
  BY <1>3, <1>8, Zenon
<1>14. TablesOK(e, n, k)
  BY <1>7, <1>10, <1>11, <1>12, <1>13, Zenon DEF TablesOK
<1>15. CacheOK(e, n, c)
  <2>. SUFFICES ASSUME NEW x \in c, ~InKernelTable(x[1])
                PROVE  Walk(e, n, x[1]) = x[2]
    BY Zenon DEF CacheOK
  <2>1. x \in VPages \X Frames /\ Walk(d, m, x[1]) = x[2]
    BY Zenon DEF CacheOK
  <2>2. x[1] \in VPages /\ x[2] \in Frames
    BY <2>1
  <2>3. d[pd_index(x[1])] # NONE
    BY <2>1, <2>2, IdentityFacts, Zenon DEF Walk
  <2>4. QED
    BY <1>9, <2>1, <2>2, <2>3, Zenon
<1>16. ToldOK(e, n, t)
  BY <1>9, Zenon DEF ToldOK
<1>17. QED
  BY <1>2, <1>7, <1>14, <1>15, <1>16, Zenon DEF e, n, i
-----------------------------------------------------------------------------
(* What the two instances of Pmm define is the same. *)
LEMMA SameMemory ==
    /\ Memory!Pages = Pm!Pages /\ Memory!Addrs = Pm!Addrs
    /\ Memory!FreePages = Pm!FreePages
    /\ Memory!AllocatedPages = Pm!AllocatedPages
    /\ Memory!FreePages' = Pm!FreePages'
    /\ Memory!AllocatedPages' = Pm!AllocatedPages'
    /\ Memory!find_free_page = Pm!find_free_page
    /\ Memory!AllocResult = Pm!AllocResult
    /\ Memory!PAGE_SIZE = Pm!PAGE_SIZE
    /\ Memory!TypeOK <=> Pm!TypeOK
    /\ Memory!TypeOK' <=> Pm!TypeOK'
    /\ Memory!Init <=> Pm!Init
    /\ \A c : Memory!pmm_alloc(c) <=> Pm!pmm_alloc(c)
<1>1. /\ Memory!Pages = Pm!Pages /\ Memory!PAGE_SIZE = Pm!PAGE_SIZE
      /\ Memory!NO_PAGE = Pm!NO_PAGE /\ Memory!Bits = Pm!Bits
      /\ Memory!bitmap_size = Pm!bitmap_size
  BY DEF Memory!Pages, Pm!Pages, Memory!PAGE_SIZE, Pm!PAGE_SIZE, Memory!NO_PAGE,
     Pm!NO_PAGE, Memory!bitmap_size, Pm!bitmap_size, Memory!Bits, Pm!Bits
<1>2. /\ Memory!FreePages = Pm!FreePages /\ Memory!FreePages' = Pm!FreePages'
      /\ Memory!AllocatedPages = Pm!AllocatedPages
      /\ Memory!AllocatedPages' = Pm!AllocatedPages'
  BY <1>1 DEF Memory!FreePages, Pm!FreePages, Memory!AllocatedPages,
     Pm!AllocatedPages, Memory!bitmap_test_bit, Pm!bitmap_test_bit
<1>3. /\ Memory!find_free_page = Pm!find_free_page
      /\ Memory!AllocResult = Pm!AllocResult
  <2>1. Memory!Min(Memory!FreePages) = Pm!Min(Memory!FreePages)
    BY Zenon DEF Memory!Min, Pm!Min
  <2>2. Memory!find_free_page = Pm!find_free_page
    BY <1>1, <1>2, <2>1, Zenon DEF Memory!find_free_page, Pm!find_free_page
  <2>3. QED
    BY <1>1, <2>2, Zenon DEF Memory!AllocResult, Pm!AllocResult
<1>4. Memory!Addrs = Pm!Addrs
  BY <1>1, Zenon DEF Memory!Addrs, Pm!Addrs
<1>5. /\ Memory!TypeOK <=> Pm!TypeOK
      /\ Memory!TypeOK' <=> Pm!TypeOK'
  BY <1>1, <1>4, Zenon DEF Memory!TypeOK, Pm!TypeOK
<1>6. Memory!Init <=> Pm!Init
  BY <1>1, Zenon DEF Memory!Init, Pm!Init
<1>7. \A c : Memory!pmm_alloc(c) <=> Pm!pmm_alloc(c)
  BY <1>1, <1>3, Zenon DEF Memory!pmm_alloc, Pm!pmm_alloc, Memory!bitmap_set_bit,
     Pm!bitmap_set_bit, Memory!vars, Pm!vars
<1>8. QED
  BY <1>1, <1>2, <1>3, <1>4, <1>5, <1>6, <1>7, Zenon

(* The assumption of PmmProofs holds of its instance here. *)
LEMMA PmmHolds == Pm!PmmAssumption
BY VmmAssumption DEF Pm!PmmAssumption

LEMMA MemoryUnchanged ==
    ASSUME UNCHANGED pmm_vars
    PROVE  (Pm!Inv => Pm!Inv') /\ held' = held
<1>1. held' = held /\ UNCHANGED Pm!vars
  BY Zenon DEF pmm_vars, Pm!vars
<1>2. QED
  BY <1>1, PmmHolds, Pm!NextInv, Zenon

(* A frame that pmm_alloc gives is one that vmm_map did not have. *)
LEMMA Alloc ==
    ASSUME Pm!Inv, NEW c \in {"vmm", "other"}, Memory!pmm_alloc(c)
    PROVE  LET f == Memory!AllocResult \div Memory!PAGE_SIZE
           IN  /\ Pm!Inv'
               /\ held["vmm"] \subseteq held'["vmm"]
               /\ Memory!AllocResult # 0 =>
                     /\ f \in Frames
                     /\ f * Memory!PAGE_SIZE \in held'[c]
                     /\ f * Memory!PAGE_SIZE \notin held["vmm"]
<1>1. Pm!pmm_alloc(c) /\ "vmm" \in {"vmm", "other"}
  BY SameMemory, Zenon
<1>2. /\ Pm!Inv'
      /\ \A d \in {"vmm", "other"} : held[d] \subseteq held'[d]
      /\ Pm!AllocResult # 0 =>
            /\ Pm!AllocResult \in held'[c]
            /\ \A d \in {"vmm", "other"} : Pm!AllocResult \notin held[d]
      /\ Pm!FreePages = {} => Pm!AllocResult = 0
      /\ Pm!FreePages # {} =>
            /\ Pm!find_free_page \in Pm!FreePages
            /\ Pm!AllocResult = Pm!find_free_page * Pm!PAGE_SIZE
            /\ Pm!AllocResult \div Pm!PAGE_SIZE = Pm!find_free_page
  BY <1>1, PmmHolds, Pm!AllocFacts, Zenon
<1>3. Pm!FreePages \subseteq Frames
  BY Zenon DEF Pm!FreePages, Pm!Pages, Frames
<1>4. QED
  BY <1>1, <1>2, <1>3, SameMemory, Zenon
-----------------------------------------------------------------------------
(* vmm_init makes the identity map. *)
LEMMA InitInv == Init => Inv
<1>. SUFFICES ASSUME Init PROVE Inv
  OBVIOUS
<1>1. Pm!Inv /\ Memory!TypeOK
  BY PmmHolds, Pm!InitInv, SameMemory, Zenon DEF Init, Pm!Inv
<1>. DEFINE Roots == {KernelTable(i) : i \in 0 .. KernelTables - 1}
<1>2. /\ directory = [i \in PDEs |-> boot_entry(i)]
      /\ tables = [f \in Roots |-> [j \in PTEs |-> identity((f - TableFrame) * PT_SIZE + j)]]
      /\ tlb = {} /\ mode = "run" /\ told = [page \in {} |-> NONE]
  BY Zenon DEF Init
<1>3. \A i \in PDEs :
         /\ KernelEntry(i) => directory[i] = KernelTable(KernelIndex(i))
         /\ ~KernelEntry(i) => directory[i] = NONE
  BY <1>2, Zenon DEF boot_entry
<1>4. \A i \in PDEs : KernelEntry(i) => directory[i] \in Roots /\ directory[i] \in Frames
  <2>1. \A i : KernelEntry(i) => KernelIndex(i) \in 0 .. KernelTables - 1
                                 /\ KernelTable(KernelIndex(i)) \in KernelFrames
    BY KernelEntries, Zenon
  <2>2. QED
    BY <1>3, <2>1, IdentityFacts, Zenon
<1>5. DOMAIN tables = Roots
  BY <1>2, Zenon
<1>6. directory \in [PDEs -> Frames \cup {NONE}]
  BY <1>2, <1>3, <1>4
<1>7. ASSUME NEW k \in 0 .. KernelTables - 1, NEW j \in PTEs
      PROVE  /\ k * PT_SIZE + j \in Nat
             /\ tables[KernelTable(k)][j] = identity(k * PT_SIZE + j)
  <2>1. k \in Nat /\ j \in Nat /\ PT_SIZE \in Nat /\ KernelTable(k) - TableFrame = k
    BY VmmAssumption DEF PTEs, KernelTable
  <2>2. k * PT_SIZE \in Nat
    BY <2>1, SMT
  <2>3. KernelTable(k) \in Roots
    OBVIOUS
  <2>4. QED
    BY <1>2, <2>1, <2>2, <2>3
<1>8. \A i \in Nat : identity(i) \in Frames \cup {NONE}
  BY IdentityFacts, VmmAssumption DEF identity, Frames
<1>9. \A f \in DOMAIN tables : tables[f] \in [PTEs -> Frames \cup {NONE}]
  <2>. SUFFICES ASSUME NEW k \in 0 .. KernelTables - 1
                PROVE  tables[KernelTable(k)] \in [PTEs -> Frames \cup {NONE}]
    BY <1>5, Zenon
  <2>1. KernelTable(k) \in Roots
    OBVIOUS
  <2>2. tables[KernelTable(k)] =
           [j \in PTEs |-> identity((KernelTable(k) - TableFrame) * PT_SIZE + j)]
    BY <1>2, <2>1, Zenon
  <2>3. \A j \in PTEs : tables[KernelTable(k)][j] \in Frames \cup {NONE}
    BY <1>7, <1>8, Zenon
  <2>4. QED
    BY <2>2, <2>3, Zenon
<1>10. ASSUME NEW p \in 1 .. IdentityPages - 1
       PROVE  tables[KernelTable(pd_index(p))][pt_index(p)] = p
  <2>1. p \in 0 .. IdentityPages - 1 /\ p < IdentityPages
    BY IdentityFacts
  <2>2. p \in VPages /\ pd_index(p) \in 0 .. KernelTables - 1
    BY <2>1, PageIndex, Zenon
  <2>3. pt_index(p) \in PTEs /\ p = pd_index(p) * PT_SIZE + pt_index(p)
    BY <2>2, PageIndex, Zenon
  <2>4. identity(p) = p
    BY <2>1, Zenon DEF identity
  <2>5. tables[KernelTable(pd_index(p))][pt_index(p)]
           = identity(pd_index(p) * PT_SIZE + pt_index(p))
    BY <1>7, <2>2, <2>3, Zenon
  <2>6. QED
    BY <2>3, <2>4, <2>5, Zenon
<1>11. TablesOK(directory, tables, held["vmm"])
  <2>1. KernelOK(directory, tables)
    BY <1>3, <1>5, <1>10, Zenon DEF KernelOK
  <2>2. QED
    BY <1>3, <1>4, <1>5, <1>6, <1>9, <2>1, Zenon DEF TablesOK
<1>12. Running
  BY <1>2, <1>11, Zenon DEF Running, CacheOK, ToldOK
<1>13. TypeOK
  BY <1>1, <1>2, <1>11, Zenon DEF TypeOK, TablesOK
<1>14. DirectoryOK
  <2>1. NONE \notin KernelFrames
    BY IdentityFacts, Zenon
  <2>2. QED
    BY <1>3, <2>1, Zenon DEF DirectoryOK, EntriesOwned
<1>15. QED
  BY <1>1, <1>2, <1>12, <1>13, <1>14, Zenon DEF Inv

(* An entry written to the table of a page, by vmm_map or by vmm_unmap: it *)
(* is reached where it is, and the kernel goes on.                         *)
LEMMA SetEntryOK ==
    ASSUME NEW d, NEW m, NEW h, TablesOK(d, m, h), CacheOK(d, m, tlb),
           ToldOK(d, m, told), mode = "run",
           NEW page \in MapPages, NEW entry \in Frames \cup {NONE},
           d[pd_index(page)] \in 1 .. IdentityPages - 1,
           NEW f \in Reached(d, m, d[pd_index(page)]), SetEntry(m, f, page, entry),
           \A p \in 1 .. IdentityPages - 1 : p \notin DOMAIN told'
    PROVE  /\ TablesOK(d, tables', h) /\ CacheOK(d, tables', tlb')
           /\ ToldOK(d, tables', told') /\ mode' = "run"
<1>1. \A e \in tlb : e[1] \in 1 .. IdentityPages - 1 => e[2] = e[1]
  BY Zenon DEF CacheOK
<1>2. KernelOK(d, m)
  BY Zenon DEF TablesOK
<1>3. Reached(d, m, d[pd_index(page)]) = {d[pd_index(page)]}
  BY <1>1, <1>2, IdentityReached, Zenon
<1>4. f = d[pd_index(page)]
  BY <1>3, Zenon
<1>5. f # NONE
  BY <1>4, IdentityFacts, Zenon
<1>6. pd_index(page) \in PDEs
  BY VmmAssumption, PageIndex, Zenon
<1>7. f \in DOMAIN m
  BY <1>4, <1>5, <1>6, Zenon DEF TablesOK
<1>8. /\ tables' = Stored(m, d[pd_index(page)], pt_index(page), entry)
      /\ tlb' = Flushed(tlb, page)
      /\ told' = Reported(told, page, entry)
      /\ mode' = mode /\ Aliases(page) \subseteq DOMAIN told'
  BY <1>4, <1>5, <1>7, Zenon DEF SetEntry, Stored, invlpg, Flushed, Tell, Reported
<1>9. /\ d[pd_index(page)] # NONE
      /\ \A p \in 1 .. IdentityPages - 1 : p \notin Aliases(page)
  BY <1>4, <1>5, <1>8, Zenon
<1>10. LET n == Stored(m, d[pd_index(page)], pt_index(page), entry)
       IN  /\ TablesOK(d, n, h) /\ CacheOK(d, n, Flushed(tlb, page))
           /\ ToldOK(d, n, Reported(told, page, entry))
  BY <1>9, StoreOK, Zenon
<1>11. QED
  BY <1>8, <1>10, Zenon

LEMMA KernelOwned ==
    ASSUME NEW d, NEW h, EntriesOwned(d, h), NEW k \in PDEs, KernelEntry(k)
    PROVE  /\ d[k] = KernelTable(KernelIndex(k))
           /\ KernelIndex(k) \in 0 .. KernelTables - 1
           /\ d[k] \in KernelFrames
<1>1. d[k] = KernelTable(KernelIndex(k))
  BY Zenon DEF EntriesOwned
<1>2. KernelIndex(k) \in 0 .. KernelTables - 1
  BY KernelEntries, Zenon
<1>3. KernelTable(KernelIndex(k)) \in KernelFrames
  BY <1>2, KernelEntries, Zenon
<1>4. QED
  BY <1>1, <1>2, <1>3, Zenon

(* A page table that is in reach is in a frame that the identity map       *)
(* covers, page 0 excepted: pmm_alloc gives it to nobody.                  *)
LEMMA TableMapped ==
    ASSUME NEW d \in [PDEs -> Frames \cup {NONE}], NEW h, 0 \notin h,
           EntriesOwned(d, h), NEW i \in PDEs, d[i] # NONE, d[i] < IdentityPages
    PROVE  d[i] \in 1 .. IdentityPages - 1
<1>1. d[i] \in Frames /\ Frames \subseteq Nat
  BY VmmAssumption DEF Frames
<1>2. d[i] # 0
  <2>1. CASE KernelEntry(i)
    <3>1. d[i] \in KernelFrames
      BY <2>1, KernelOwned, Zenon
    <3>2. QED
      BY <3>1, IdentityFacts
  <2>2. CASE ~KernelEntry(i)
    <3>1. d[i] * Memory!PAGE_SIZE \in h
      BY <2>2, Zenon DEF EntriesOwned
    <3>2. 0 * Memory!PAGE_SIZE = 0
      BY DEF Memory!PAGE_SIZE
    <3>3. QED
      BY <3>1, <3>2, Zenon
  <2>3. QED
    BY <2>1, <2>2
<1>3. ASSUME NEW x \in Nat, x # 0, x < IdentityPages
      PROVE  x \in 1 .. IdentityPages - 1
  BY <1>3, IdentityFacts
<1>4. QED
  BY <1>1, <1>2, <1>3, Zenon

LEMMA PmmNonZero == (Pm!Inv => 0 \notin held["vmm"]) /\ (Pm!Inv' => 0 \notin held'["vmm"])
<1>1. "vmm" \in {"vmm", "other"}
  OBVIOUS
<1>2. QED
  BY <1>1, Zenon DEF Pm!Inv, Pm!TypeOK

(* What Inv needs to hold after a step. *)
LEMMA Conclude ==
    ASSUME Pm!Inv', DirectoryOK',
           directory' \in [PDEs -> Frames \cup {NONE}],
           mode' = "run" => \A i \in PDEs : directory'[i] \in DOMAIN tables' \cup {NONE},
           \A f \in DOMAIN tables' : tables'[f] \in [PTEs -> Frames \cup {NONE}],
           \A e \in tlb' : e \in VPages \X Frames,
           mode' \in {"run", "fault", "overwritten"},
           mode' = "fault" => ~InReach',
           mode' = "run" /\ InReach' => Running'
    PROVE  Inv'
<1>1. Memory!TypeOK'
  BY SameMemory, Zenon DEF Pm!Inv
<1>2. TypeOK'
  BY <1>1, Zenon DEF TypeOK
<1>3. QED
  BY <1>2, Zenon DEF Inv

(* What was in reach after a step was in reach before it. *)
LEMMA ReachedBefore ==
    ASSUME DOMAIN told \subseteq DOMAIN told',
           \A i \in PDEs : directory[i] \in {directory'[i], NONE}, InReach'
    PROVE  InReach
<1>1. NONE < IdentityPages
  BY IdentityFacts DEF NONE
<1>2. /\ \A i \in PDEs : directory'[i] < IdentityPages
      /\ \A p \in 1 .. IdentityPages - 1 : p \notin DOMAIN told'
  BY Zenon DEF InReach
<1>3. \A i \in PDEs : directory[i] < IdentityPages
  BY <1>1, <1>2, Zenon
<1>4. QED
  BY <1>2, <1>3, Zenon DEF InReach

(* An entry is written when the directory is d and the tables m, wherever  *)
(* the address of the table leads.                                         *)
LEMMA SetEntryInv ==
    ASSUME Pm!Inv', mode = "run", NEW d, NEW m, directory' = d,
           d \in [PDEs -> Frames \cup {NONE}],
           \A i \in PDEs : d[i] \in DOMAIN m \cup {NONE},
           \A g \in DOMAIN m : m[g] \in [PTEs -> Frames \cup {NONE}],
           \A e \in tlb : e \in VPages \X Frames,
           EntriesOwned(d, held'["vmm"]),
           \A i \in PDEs : ~KernelEntry(i) => d[i] \notin KernelFrames,
           InReach' => /\ TablesOK(d, m, held'["vmm"]) /\ CacheOK(d, m, tlb)
                       /\ ToldOK(d, m, told),
           NEW page \in MapPages, NEW entry \in Frames \cup {NONE},
           d[pd_index(page)] # NONE,
           NEW f \in Reached(d, m, d[pd_index(page)]), SetEntry(m, f, page, entry)
    PROVE  Inv'
<1>1. page \in VPages /\ pd_index(page) \in PDEs /\ pt_index(page) \in PTEs
  BY VmmAssumption, PageIndex, Zenon
<1>2. DirectoryOK'
  BY Zenon DEF DirectoryOK
<1>3. /\ tables' = m \/ (f \in DOMAIN m /\ tables' = Stored(m, f, pt_index(page), entry))
      /\ tlb' \subseteq tlb
      /\ mode' \in {"run", "fault", "overwritten"}
  BY Zenon DEF SetEntry, Stored, invlpg
<1>4. /\ DOMAIN tables' = DOMAIN m
      /\ \A g \in DOMAIN tables' : tables'[g] \in [PTEs -> Frames \cup {NONE}]
  <2>1. CASE tables' = m
    BY <2>1, Zenon
  <2>2. CASE f \in DOMAIN m /\ tables' = Stored(m, f, pt_index(page), entry)
    <3>1. /\ DOMAIN Stored(m, f, pt_index(page), entry) = DOMAIN m
          /\ \A g \in DOMAIN m : Stored(m, f, pt_index(page), entry)[g]
                                     \in [PTEs -> Frames \cup {NONE}]
      BY <1>1, <2>2, StoredFacts, SMT
    <3>2. QED
      BY <2>2, <3>1, Zenon
  <2>3. QED
    BY <1>3, <2>1, <2>2, Zenon
<1>5. ASSUME InReach' PROVE mode' = "run" /\ Running'
  <2>1. /\ \A i \in PDEs : d[i] < IdentityPages
        /\ \A p \in 1 .. IdentityPages - 1 : p \notin DOMAIN told'
    BY <1>5, Zenon DEF InReach
  <2>2. 0 \notin held'["vmm"]
    BY PmmNonZero, Zenon
  <2>3. d[pd_index(page)] < IdentityPages
    BY <1>1, <2>1, Zenon
  <2>4. d[pd_index(page)] \in 1 .. IdentityPages - 1
    BY <1>1, <2>2, <2>3, TableMapped, Zenon
  <2>5. /\ TablesOK(d, tables', held'["vmm"]) /\ CacheOK(d, tables', tlb')
        /\ ToldOK(d, tables', told') /\ mode' = "run"
    BY <1>5, <2>1, <2>4, SetEntryOK, Zenon
  <2>6. QED
    BY <2>5, Zenon DEF Running
<1>6. \A e \in tlb' : e \in VPages \X Frames
  BY <1>3, Zenon
<1>7. /\ directory' \in [PDEs -> Frames \cup {NONE}]
      /\ \A i \in PDEs : directory'[i] \in DOMAIN tables' \cup {NONE}
  BY <1>4, Zenon
<1>8. mode' = "fault" => ~InReach'
  BY <1>5, Zenon
<1>9. QED
  BY <1>2, <1>3, <1>4, <1>5, <1>6, <1>7, <1>8, Conclude, Zenon

(* What Inv says before a step. *)
LEMMA Before ==
    ASSUME Inv, mode = "run"
    PROVE  /\ directory \in [PDEs -> Frames \cup {NONE}]
           /\ \A i \in PDEs : directory[i] \in DOMAIN tables \cup {NONE}
           /\ \A g \in DOMAIN tables : tables[g] \in [PTEs -> Frames \cup {NONE}]
           /\ \A e \in tlb : e \in VPages \X Frames
           /\ EntriesOwned(directory, held["vmm"])
           /\ \A i \in PDEs : ~KernelEntry(i) => directory[i] \notin KernelFrames
           /\ InReach => /\ TablesOK(directory, tables, held["vmm"])
                         /\ CacheOK(directory, tables, tlb)
                         /\ ToldOK(directory, tables, told)
           /\ Pm!Inv
BY Zenon DEF Inv, TypeOK, DirectoryOK, Running

(* SetEntry never forgets what callers were told. *)
LEMMA ToldGrows ==
    ASSUME NEW m, NEW f, NEW page, NEW entry, SetEntry(m, f, page, entry)
    PROVE  DOMAIN told \subseteq DOMAIN told'
BY Zenon DEF SetEntry, Tell

(* An entry written to a table that exists. *)
LEMMA PresentInv ==
    ASSUME Inv, mode = "run", NEW page \in MapPages, NEW entry \in Frames \cup {NONE},
           directory[pd_index(page)] # NONE,
           NEW f \in Reached(directory, tables, directory[pd_index(page)]),
           SetEntry(tables, f, page, entry), UNCHANGED <<directory, pmm_vars>>
    PROVE  Inv'
<1>1. directory' = directory /\ UNCHANGED pmm_vars
  BY Zenon
<1>2. Pm!Inv' /\ held' = held
  BY <1>1, Before, MemoryUnchanged, Zenon
<1>3. InReach' => InReach
  BY <1>1, ToldGrows, ReachedBefore, Zenon
<1>4. QED
  BY <1>1, <1>2, <1>3, Before, SetEntryInv, Zenon

LEMMA MapPresentInv ==
    ASSUME Inv, NEW page \in MapPages, NEW entry \in MapFrames, map_present(page, entry)
    PROVE  Inv'
<1>1. entry \in Frames \cup {NONE}
  BY VmmAssumption, Zenon
<1>2. QED
  BY <1>1, PresentInv, Zenon DEF map_present, NeedsTable

LEMMA UnmapInv ==
    ASSUME Inv, NEW page \in MapPages, vmm_unmap(page)
    PROVE  Inv'
<1>1. NONE \in Frames \cup {NONE}
  OBVIOUS
<1>2. QED
  BY <1>1, PresentInv, Zenon DEF vmm_unmap

(* A frame that vmm_map did not have becomes the table of an entry that    *)
(* had none.                                                               *)
LEMMA NewEntryOwned ==
    ASSUME NEW d \in [PDEs -> Frames \cup {NONE}], NEW h, EntriesOwned(d, h),
           NEW page \in MapPages, d[pd_index(page)] = NONE, NEW f \in Frames,
           NEW k, h \subseteq k, f * Memory!PAGE_SIZE \in k,
           f * Memory!PAGE_SIZE \notin h
    PROVE  /\ WithEntry(d, page, f) \in [PDEs -> Frames \cup {NONE}]
           /\ WithEntry(d, page, f)[pd_index(page)] = f /\ f # NONE
           /\ ~KernelEntry(pd_index(page)) /\ pd_index(page) \in PDEs
           /\ \A j \in PDEs \ {pd_index(page)} : WithEntry(d, page, f)[j] = d[j]
           /\ EntriesOwned(WithEntry(d, page, f), k)
<1>. DEFINE i == pd_index(page)
            e == WithEntry(d, page, f)
<1>1. i \in PDEs /\ f # NONE
  BY VmmAssumption, PageIndex, IdentityFacts, Zenon
<1>2. /\ e \in [PDEs -> Frames \cup {NONE}] /\ e[i] = f
      /\ \A j \in PDEs \ {i} : e[j] = d[j]
  BY <1>1 DEF WithEntry
<1>3. ~KernelEntry(i)
  <2>1. KernelEntry(i) => d[i] \in KernelFrames
    BY <1>1, KernelOwned, Zenon
  <2>2. QED
    BY <2>1, IdentityFacts, Zenon
<1>. HIDE DEF e, i
<1>4. \A j \in PDEs : ~KernelEntry(j) => d[j] # f
  BY <1>1, Zenon DEF EntriesOwned
<1>5. EntriesOwned(e, k)
  <2>1. \A j \in PDEs : KernelEntry(j) => e[j] = KernelTable(KernelIndex(j))
    BY <1>2, <1>3, Zenon DEF EntriesOwned
  <2>2. ASSUME NEW j \in PDEs, ~KernelEntry(j), e[j] # NONE
        PROVE  /\ e[j] * Memory!PAGE_SIZE \in k
               /\ \A x \in PDEs \ {j} : ~KernelEntry(x) => e[x] # e[j]
    <3>1. CASE j = i
      BY <1>2, <1>4, <3>1, Zenon
    <3>2. CASE j # i
      <4>1. e[j] = d[j] /\ d[j] # NONE
        BY <1>2, <2>2, <3>2, Zenon
      <4>2. /\ d[j] * Memory!PAGE_SIZE \in h
            /\ \A x \in PDEs \ {j} : ~KernelEntry(x) => d[x] # d[j]
        BY <2>2, <4>1, Zenon DEF EntriesOwned
      <4>3. d[j] # f
        BY <1>4, <2>2, Zenon
      <4>4. QED
        BY <1>2, <4>1, <4>2, <4>3, Zenon
    <3>3. QED
      BY <3>1, <3>2
  <2>3. QED
    BY <2>1, <2>2, Zenon DEF EntriesOwned
<1>6. QED
  BY <1>1, <1>2, <1>3, <1>5, Zenon DEF e, i

LEMMA MapNewTableInv ==
    ASSUME Inv, NEW page \in MapPages, NEW entry \in MapFrames,
           map_new_table(page, entry)
    PROVE  Inv'
<1>. DEFINE f == Memory!AllocResult \div Memory!PAGE_SIZE
            d == WithEntry(directory, page, f)
<1>1. /\ mode = "run" /\ directory[pd_index(page)] = NONE
      /\ Memory!pmm_alloc("vmm") /\ Memory!AllocResult # 0
      /\ directory' = d
  BY Zenon DEF map_new_table, NeedsTable, take_table, WithEntry
<1>2. \/ /\ f \notin KernelFrames
         /\ \E old \in [PTEs -> MapFrames \cup {NONE}] :
            \E g \in Reached(d, WithTable(tables, f, old), f) :
               SetEntry(WithTable(tables, f, old), g, page, entry)
      \/ /\ f \in KernelFrames
         /\ mode' = "overwritten" /\ tables' = tables /\ tlb' = tlb
  BY Zenon DEF map_new_table, WithEntry, WithTable
<1>3. /\ directory \in [PDEs -> Frames \cup {NONE}]
      /\ \A i \in PDEs : directory[i] \in DOMAIN tables \cup {NONE}
      /\ \A g \in DOMAIN tables : tables[g] \in [PTEs -> Frames \cup {NONE}]
      /\ \A e \in tlb : e \in VPages \X Frames
      /\ EntriesOwned(directory, held["vmm"])
      /\ \A i \in PDEs : ~KernelEntry(i) => directory[i] \notin KernelFrames
      /\ InReach => /\ TablesOK(directory, tables, held["vmm"])
                    /\ CacheOK(directory, tables, tlb)
                    /\ ToldOK(directory, tables, told)
      /\ Pm!Inv
  BY <1>1, Before, Zenon
<1>4. /\ pd_index(page) \in PDEs /\ entry \in Frames \cup {NONE}
      /\ MapFrames \subseteq Frames \cup {NONE}
  BY VmmAssumption, PageIndex, Zenon
<1>5. /\ Pm!Inv' /\ held["vmm"] \subseteq held'["vmm"] /\ f \in Frames
      /\ f * Memory!PAGE_SIZE \in held'["vmm"]
      /\ f * Memory!PAGE_SIZE \notin held["vmm"]
  <2>1. "vmm" \in {"vmm", "other"}
    OBVIOUS
  <2>2. QED
    BY <1>1, <1>3, <2>1, Alloc, Zenon
<1>. HIDE DEF f
<1>6. /\ d \in [PDEs -> Frames \cup {NONE}] /\ d[pd_index(page)] = f /\ f # NONE
      /\ ~KernelEntry(pd_index(page))
      /\ \A j \in PDEs \ {pd_index(page)} : d[j] = directory[j]
      /\ EntriesOwned(d, held'["vmm"])
  <2>1. ASSUME NEW g \in Frames, g * Memory!PAGE_SIZE \in held'["vmm"],
               g * Memory!PAGE_SIZE \notin held["vmm"]
        PROVE  LET e == WithEntry(directory, page, g)
               IN  /\ e \in [PDEs -> Frames \cup {NONE}]
                   /\ e[pd_index(page)] = g /\ g # NONE
                   /\ ~KernelEntry(pd_index(page))
                   /\ \A j \in PDEs \ {pd_index(page)} : e[j] = directory[j]
                   /\ EntriesOwned(e, held'["vmm"])
    BY <1>1, <1>3, <1>5, <2>1, NewEntryOwned, SMT
  <2>2. QED
    BY <1>5, <2>1, Zenon
<1>. HIDE DEF d
<1>7. CASE f \in KernelFrames
  <2>1. mode' = "overwritten" /\ tables' = tables /\ tlb' = tlb
    BY <1>2, <1>7, Zenon
  <2>2. DirectoryOK'
    BY <1>1, <1>6, <2>1, Zenon DEF DirectoryOK
  <2>3. QED
    BY <1>1, <1>3, <1>5, <1>6, <2>1, <2>2, Conclude, Zenon
<1>8. CASE f \notin KernelFrames
  <2>1. PICK old \in [PTEs -> MapFrames \cup {NONE}] :
          \E g \in Reached(d, WithTable(tables, f, old), f) :
             SetEntry(WithTable(tables, f, old), g, page, entry)
    BY <1>2, <1>8, Zenon
  <2>. DEFINE m == WithTable(tables, f, old)
  <2>2. PICK g \in Reached(d, m, f) : SetEntry(m, g, page, entry)
    BY <2>1, Zenon
  <2>3. old \in [PTEs -> Frames \cup {NONE}]
    BY <1>4
  <2>4. /\ DOMAIN m = DOMAIN tables \cup {f}
        /\ \A x \in DOMAIN m : m[x] \in [PTEs -> Frames \cup {NONE}]
    BY <1>3, <2>3, Zenon DEF WithTable
  <2>5. InReach' => InReach
    <3>1. DOMAIN told \subseteq DOMAIN told'
      BY <2>2, ToldGrows, Zenon
    <3>2. \A i \in PDEs : directory[i] \in {directory'[i], NONE}
      BY <1>1, <1>6, Zenon
    <3>3. QED
      BY <3>1, <3>2, ReachedBefore, Zenon
  <2>6. InReach' => /\ TablesOK(d, m, held'["vmm"]) /\ CacheOK(d, m, tlb)
                    /\ ToldOK(d, m, told)
    BY <1>1, <1>3, <1>5, <1>8, <2>3, <2>5, NewTableOK, SMT DEF d
  <2>. HIDE DEF m
  <2>7. /\ \A i \in PDEs : d[i] \in DOMAIN m \cup {NONE}
        /\ \A i \in PDEs : ~KernelEntry(i) => d[i] \notin KernelFrames
    BY <1>3, <1>6, <1>8, <2>4, Zenon
  <2>8. QED
    BY <1>1, <1>3, <1>4, <1>5, <1>6, <2>2, <2>4, <2>6, <2>7, SetEntryInv, Zenon
<1>9. QED
  BY <1>7, <1>8

(* The steps that leave the directory, the tables and the TLB alone. *)
LEMMA AllocatedInv ==
    ASSUME Inv, mode = "run", NEW c \in {"vmm", "other"}, Memory!pmm_alloc(c),
           UNCHANGED <<directory, tables, tlb, mode, told>>
    PROVE  Inv'
<1>1. /\ directory' = directory /\ tables' = tables /\ tlb' = tlb /\ told' = told
      /\ mode' = "run"
  BY Zenon
<1>2. /\ Pm!Inv' /\ held["vmm"] \subseteq held'["vmm"]
  BY Before, Alloc, Zenon
<1>3. EntriesOwned(directory, held'["vmm"])
  BY <1>2, Before, Zenon DEF EntriesOwned
<1>4. DirectoryOK'
  BY <1>1, <1>3, Before, Zenon DEF DirectoryOK
<1>5. InReach' => InReach
  BY <1>1, Zenon DEF InReach
<1>6. InReach => Running'
  <2>1. \A i \in PDEs : OwnTable(directory, held["vmm"], i)
                           => OwnTable(directory, held'["vmm"], i)
    BY <1>2, Zenon DEF OwnTable
  <2>2. InReach => TablesOK(directory, tables, held'["vmm"])
    BY <2>1, Before, Zenon DEF TablesOK
  <2>3. QED
    BY <1>1, <2>2, Before, Zenon DEF Running
<1>7. QED
  BY <1>1, <1>2, <1>4, <1>5, <1>6, Before, Conclude, Zenon

LEMMA NoMemoryInv ==
    ASSUME Inv, NEW page \in MapPages, map_no_memory(page)
    PROVE  Inv'
<1>1. "vmm" \in {"vmm", "other"}
  OBVIOUS
<1>2. QED
  BY <1>1, AllocatedInv, Zenon DEF map_no_memory, take_table

LEMMA OtherAllocInv == ASSUME Inv, OtherAlloc PROVE Inv'
<1>1. "other" \in {"vmm", "other"}
  OBVIOUS
<1>2. QED
  BY <1>1, AllocatedInv, Zenon DEF OtherAlloc

LEMMA AccessInv == ASSUME Inv, NEW page \in MapPages, Access(page) PROVE Inv'
<1>1. /\ mode = "run" /\ mode' = mode /\ UNCHANGED pmm_vars
      /\ directory' = directory /\ tables' = tables /\ told' = told
      /\ Translation(page) # NONE /\ tlb' = {<<page, Translation(page)>>}
  BY Zenon DEF Access
<1>2. Pm!Inv' /\ held' = held
  BY <1>1, Before, MemoryUnchanged, Zenon
<1>3. page \in VPages /\ pd_index(page) \in PDEs /\ pt_index(page) \in PTEs
  BY VmmAssumption, PageIndex, Zenon
<1>4. Translation(page) \in Frames
  <2>1. directory[pd_index(page)] # NONE
        /\ Translation(page) = tables[directory[pd_index(page)]][pt_index(page)]
    BY <1>1, Zenon DEF Translation, Walk
  <2>2. directory[pd_index(page)] \in DOMAIN tables
    BY <1>1, <1>3, <2>1, Before, Zenon
  <2>3. tables[directory[pd_index(page)]] \in [PTEs -> Frames \cup {NONE}]
    BY <1>1, <2>2, Before, Zenon
  <2>4. QED
    BY <1>1, <1>3, <2>1, <2>3
<1>5. \A e \in tlb' : /\ e \in VPages \X Frames
                       /\ e[1] = page /\ e[2] = Translation(page)
  <2>1. SUFFICES ASSUME NEW e, e = <<page, Translation(page)>>
                 PROVE  /\ e \in VPages \X Frames
                        /\ e[1] = page /\ e[2] = Translation(page)
    BY <1>1, Zenon
  <2>2. QED
    BY <1>3, <1>4, <2>1
<1>6. InReach' => InReach
  BY <1>1, Zenon DEF InReach
<1>7. ASSUME InReach PROVE Running'
  <2>1. TablesOK(directory, tables, held["vmm"])
    BY <1>1, <1>7, Before, Zenon
  <2>2. page \in 1 .. IdentityPages - 1 => Translation(page) = page
    BY <2>1, IdentityWalk, Zenon DEF TablesOK, Translation
  <2>3. CacheOK(directory, tables, tlb')
    BY <1>5, <2>2, Zenon DEF CacheOK, Translation
  <2>4. QED
    BY <1>1, <1>2, <1>7, <2>3, Before, Zenon DEF Running
<1>8. DirectoryOK'
  BY <1>1, <1>2, Before, Zenon DEF DirectoryOK
<1>9. QED
  BY <1>1, <1>2, <1>5, <1>6, <1>7, <1>8, Before, Conclude, Zenon

LEMMA NextInv == Inv /\ [Next]_vars => Inv'
<1>. SUFFICES ASSUME Inv, [Next]_vars PROVE Inv'
  OBVIOUS
<1>1. CASE Next
  BY <1>1, MapPresentInv, MapNewTableInv, NoMemoryInv, UnmapInv, OtherAllocInv,
     AccessInv, Zenon DEF Next, vmm_map
<1>2. CASE UNCHANGED vars
  <2>1. /\ directory' = directory /\ tables' = tables /\ tlb' = tlb /\ mode' = mode
        /\ told' = told /\ UNCHANGED pmm_vars
    BY <1>2, Zenon DEF vars
  <2>2. held' = held /\ Pm!Inv'
    BY <2>1, MemoryUnchanged, Zenon DEF Inv
  <2>3. Memory!TypeOK'
    BY <2>2, SameMemory, Zenon DEF Pm!Inv
  <2>4. TypeOK'
    BY <2>1, <2>3, Zenon DEF Inv, TypeOK
  <2>5. /\ Running => Running'
        /\ DirectoryOK => DirectoryOK'
        /\ InReach <=> InReach'
    BY <2>1, <2>2, Zenon DEF Running, DirectoryOK, InReach
  <2>6. QED
    BY <2>1, <2>2, <2>4, <2>5, Zenon DEF Inv
<1>3. QED
  BY <1>1, <1>2
-----------------------------------------------------------------------------
(* vmm_map and vmm_unmap end in a page fault only when a page table is     *)
(* beyond the identity map or a caller changed the identity map: in every  *)
(* other state the address of a table leads to the table.                  *)
THEOREM VmmFaults == Spec => []FaultsOnlyOutOfReach
<1>1. Inv => FaultsOnlyOutOfReach
  BY Zenon DEF Inv, FaultsOnlyOutOfReach
<1>2. QED
  BY <1>1, InitInv, NextInv, PTL DEF Spec

(* The kernel's frames stay mapped to themselves, and at the same distance *)
(* in the higher half, however the address space around them changes while *)
(* page tables are in reach.                                               *)
THEOREM VmmKernel == Spec => []KernelMapped
<1>1. ASSUME Inv PROVE KernelMapped
  <2>. SUFFICES ASSUME mode = "run", InReach, NEW f \in KernelFrames, NEW page \in Aliases(f)
                PROVE  Translation(page) = f
    BY Zenon DEF KernelMapped
  <2>1. TablesOK(directory, tables, held["vmm"])
    BY <1>1, Zenon DEF Inv, Running
  <2>2. f \in 1 .. IdentityPages - 1
    BY IdentityFacts, Zenon
  <2>3. f \in 0 .. IdentityPages - 1
    BY <2>2, IdentityFacts
  <2>4. f \in VPages
    BY <2>3, PageIndex, Zenon
  <2>5. Walk(directory, tables, page) = Walk(directory, tables, f)
    BY <2>1, <2>4, SharedEntry, Zenon DEF Walk
  <2>6. Walk(directory, tables, f) = f
    BY <2>1, <2>2, IdentityWalk, Zenon DEF TablesOK
  <2>7. QED
    BY <2>5, <2>6, Zenon DEF Translation
<1>2. QED
  BY <1>1, InitInv, NextInv, PTL DEF Spec

(* A frame is the table of one directory entry, up to the two halves of    *)
(* the kernel and until vmm_map is given a frame of the kernel, and the    *)
(* other caller of pmm_alloc holds none of the tables that vmm_map made.   *)
THEOREM VmmTables == Spec => []TablesOwned
<1>1. ASSUME Inv PROVE TablesOwned
  <2>1. TypeOK /\ Pm!Inv /\ EntriesOwned(directory, held["vmm"])
        /\ (mode # "overwritten" =>
              \A i \in PDEs : ~KernelEntry(i) => directory[i] \notin KernelFrames)
    BY <1>1, Zenon DEF Inv, DirectoryOK
  <2>2. ASSUME NEW i \in PDEs, NEW j \in PDEs, directory[i] # NONE,
               directory[i] = directory[j]
        PROVE  \/ j * PT_SIZE \in Aliases(i * PT_SIZE)
               \/ mode = "overwritten" /\ directory[i] \in KernelFrames
    <3>1. /\ i * PT_SIZE \in VPages /\ pd_index(i * PT_SIZE) = i
          /\ j * PT_SIZE \in VPages /\ pd_index(j * PT_SIZE) = j
          /\ pt_index(i * PT_SIZE) = pt_index(j * PT_SIZE)
      BY PageIndex, Zenon
    <3>2. \A k \in PDEs : KernelEntry(k) =>
             /\ directory[k] = KernelTable(KernelIndex(k))
             /\ KernelIndex(k) \in 0 .. KernelTables - 1
             /\ directory[k] \in KernelFrames
      BY <2>1, KernelOwned, Zenon
    <3>3. CASE KernelEntry(i) /\ KernelEntry(j)
      <4>1. KernelTable(KernelIndex(i)) = KernelTable(KernelIndex(j))
        BY <2>2, <3>2, <3>3, Zenon
      <4>2. KernelIndex(i) = KernelIndex(j)
        BY <3>2, <3>3, <4>1, KernelEntries, Zenon
      <4>3. QED
        BY <3>1, <3>3, <4>2, Zenon DEF Aliases, InKernelTable
    <3>4. CASE ~KernelEntry(i) /\ ~KernelEntry(j)
      <4>1. i = j
        BY <2>1, <2>2, <3>4, Zenon DEF EntriesOwned
      <4>2. QED
        BY <3>1, <4>1, AliasFacts, Zenon
    <3>5. CASE KernelEntry(i) /\ ~KernelEntry(j)
      BY <2>1, <2>2, <3>2, <3>5, Zenon
    <3>6. CASE ~KernelEntry(i) /\ KernelEntry(j)
      BY <2>1, <2>2, <3>2, <3>6, Zenon
    <3>7. QED
      BY <3>3, <3>4, <3>5, <3>6, Zenon
  <2>3. ASSUME NEW i \in PDEs, ~KernelEntry(i)
        PROVE  directory[i] * Memory!PAGE_SIZE \notin held["other"]
    <3>1. "vmm" \in {"vmm", "other"} /\ "other" \in {"vmm", "other"} \ {"vmm"}
      OBVIOUS
    <3>2. CASE directory[i] # NONE
      <4>1. directory[i] * Memory!PAGE_SIZE \in held["vmm"]
        BY <2>1, <2>3, <3>2, Zenon DEF EntriesOwned
      <4>2. QED
        BY <2>1, <3>1, <4>1, Zenon DEF Pm!Inv, Pm!ExclusiveFrames
    <3>3. CASE directory[i] = NONE
      <4>1. held["other"] \subseteq Pm!Addrs
        BY <2>1, <3>1, Zenon DEF Pm!Inv, Pm!TypeOK
      <4>2. Pm!Addrs \subseteq Nat
        BY VmmAssumption DEF Pm!Addrs, Pm!Pages, Pm!PAGE_SIZE
      <4>3. NONE * Memory!PAGE_SIZE \notin Nat
        BY DEF NONE, Memory!PAGE_SIZE
      <4>4. QED
        BY <3>3, <4>1, <4>2, <4>3, Zenon
    <3>4. QED
      BY <3>2, <3>3
  <2>4. QED
    BY <2>1, <2>2, <2>3, Zenon DEF TablesOwned
<1>2. QED
  BY <1>1, InitInv, NextInv, PTL DEF Spec

(* A cached translation that is out of date is that of a page with an      *)
(* alias: invlpg leaves none for a page that has no other address.         *)
THEOREM VmmStale == Spec => []StaleOnlyThroughAlias
<1>1. Inv => StaleOnlyThroughAlias
  BY Zenon DEF Inv, Running, CacheOK, StaleOnlyThroughAlias, Translation
<1>2. QED
  BY <1>1, InitInv, NextInv, PTL DEF Spec

(* What callers were told of a page is what the processor finds and what   *)
(* vmm_get_phys returns, after any calls for other pages, while page       *)
(* tables are in reach.                                                    *)
THEOREM VmmMappings == Spec => []MappingsKept
<1>1. ASSUME Inv PROVE MappingsKept
  <2>. SUFFICES ASSUME mode = "run", InReach, NEW page \in DOMAIN told
                PROVE  /\ Translation(page) = told[page]
                       /\ vmm_get_phys(page) =
                            {IF told[page] = NONE THEN 0
                             ELSE told[page] * Memory!PAGE_SIZE}
    BY Zenon DEF MappingsKept
  <2>1. /\ TablesOK(directory, tables, held["vmm"]) /\ Pm!Inv
        /\ EntriesOwned(directory, held["vmm"])
        /\ CacheOK(directory, tables, tlb) /\ ToldOK(directory, tables, told)
    BY <1>1, Zenon DEF Inv, Running, DirectoryOK
  <2>. DEFINE f == directory[pd_index(page)]
  <2>2. page \in VPages /\ f # NONE /\ Walk(directory, tables, page) = told[page]
    BY <2>1, Zenon DEF ToldOK
  <2>3. pd_index(page) \in PDEs
    BY <2>2, PageIndex, Zenon
  <2>4. f \in DOMAIN tables /\ tables[f][pt_index(page)] = told[page]
    BY <2>1, <2>2, <2>3, Zenon DEF TablesOK, Walk
  <2>5. Reached(directory, tables, f) = {f}
    <3>1. f \in 1 .. IdentityPages - 1
      <4>1. /\ directory \in [PDEs -> Frames \cup {NONE}]
            /\ f < IdentityPages /\ 0 \notin held["vmm"]
        BY <2>1, <2>3, PmmNonZero, Zenon DEF TablesOK, InReach
      <4>2. QED
        BY <2>1, <2>2, <2>3, <4>1, TableMapped, Zenon
    <3>2. /\ KernelOK(directory, tables)
          /\ \A e \in tlb : e[1] \in 1 .. IdentityPages - 1 => e[2] = e[1]
      BY <2>1, Zenon DEF TablesOK, CacheOK
    <3>3. QED
      BY <3>1, <3>2, IdentityReached, Zenon
  <2>. DEFINE read(g) == IF g \in DOMAIN tables THEN {tables[g][pt_index(page)]}
                         ELSE Frames \cup {NONE}
              addr(e) == IF e = NONE THEN 0 ELSE e * Memory!PAGE_SIZE
  <2>6. UNION {read(g) : g \in Reached(directory, tables, f)} = {told[page]}
    BY <2>4, <2>5, Zenon
  <2>7. vmm_get_phys(page)
           = {addr(e) : e \in UNION {read(g) : g \in Reached(directory, tables, f)}}
    BY <2>2, Zenon DEF vmm_get_phys
  <2>8. vmm_get_phys(page) = {addr(told[page])}
    BY <2>6, <2>7, Zenon
  <2>9. QED
    BY <2>2, <2>8, Zenon DEF Translation
<1>2. QED
  BY <1>1, InitInv, NextInv, PTL DEF Spec
=============================================================================
