-------------------------------- MODULE Vmm ---------------------------------
(***************************************************************************)
(* The virtual memory manager, src/kernel/mm/vmm.c: the page directory,    *)
(* its page tables and the operations on them, over the physical memory    *)
(* manager (the module Pmm) and the processor's translation.               *)
(*                                                                         *)
(* Pages and frames are counted, so the alignment checks have nothing left *)
(* to refuse.  An entry is the frame it points to, or NONE when its        *)
(* PRESENT bit is clear; the other flags are left out.  The code reaches a *)
(* page table at its physical address, which paging translates like every  *)
(* other address: a page that is not present there is a page fault, whose  *)
(* handler stops the machine.  The TLB is one entry for any page, filled   *)
(* by accesses and gone at any time: entries for several pages do not      *)
(* influence each other.                                                   *)
(*                                                                         *)
(* The frames KernelFrames hold the kernel, its directory and its tables.  *)
(* The physical memory manager does not know that and gives them away like *)
(* any other.  Its other caller, proc_create, only keeps the address of a  *)
(* frame, so the system goes on; vmm_map writes to the frame it is given,  *)
(* and once an entry has been written over the kernel the model stops.     *)
(***************************************************************************)
EXTENDS Integers, FiniteSets

CONSTANTS PD_SIZE, PT_SIZE,   \* 1024 and 1024
          KernelTables,       \* 4 kernel_page_tables
          higher_half_index,  \* 768
          TableFrame,         \* the frame of kernel_page_tables[0]
          KernelFrames,       \* the frames of the kernel's image
          TotalPages, CounterMod,
          MapPages,           \* the pages callers map and unmap
          MapFrames           \* the frames they map them to

NONE == -1
PDEs   == 0 .. PD_SIZE - 1
PTEs   == 0 .. PT_SIZE - 1
VPages == 0 .. PD_SIZE * PT_SIZE - 1
Frames == 0 .. TotalPages - 1
IdentityPages == KernelTables * PT_SIZE      \* 0x1000, the first 16 MB
KernelTable(i) == TableFrame + i

pd_index(page) == page \div PT_SIZE
pt_index(page) == page % PT_SIZE

(* Each kernel table is at two entries of the directory, i and 768 + i. *)
KernelEntry(i) == i \in 0 .. KernelTables - 1
                     \cup higher_half_index .. higher_half_index + KernelTables - 1
KernelIndex(i) == IF i < higher_half_index THEN i ELSE i - higher_half_index

(* A page and the page that the same entry of a kernel table maps. *)
InKernelTable(page) == KernelEntry(pd_index(page))
Aliases(page) ==
    IF InKernelTable(page)
    THEN {p \in VPages : /\ InKernelTable(p) /\ pt_index(p) = pt_index(page)
                         /\ KernelIndex(pd_index(p)) = KernelIndex(pd_index(page))}
    ELSE {page}

(* Callers may map any page but those the kernel itself runs in; the first *)
(* 16 MB, through which page tables are reached, are not protected.        *)
ASSUME VmmAssumption ==
    /\ PD_SIZE \in Nat /\ PT_SIZE \in Nat \ {0} /\ KernelTables \in Nat
    /\ higher_half_index \in Nat /\ TableFrame \in Nat
    /\ TotalPages \in Nat \ {0} /\ CounterMod \in Nat /\ TotalPages < CounterMod
    /\ KernelTables <= higher_half_index /\ IdentityPages <= TotalPages
    /\ higher_half_index + KernelTables <= PD_SIZE
    /\ \A i \in 0 .. KernelTables - 1 : KernelTable(i) \in KernelFrames
    /\ KernelFrames \subseteq 1 .. IdentityPages - 1
    /\ \E k \in KernelFrames : KernelFrames = k .. k + Cardinality(KernelFrames) - 1
    /\ MapPages \subseteq VPages /\ MapFrames \subseteq Frames \cup {NONE}
    /\ \A page \in MapPages : Aliases(page) \cap KernelFrames = {}

VARIABLES directory,   \* kernel_page_directory
          tables,      \* the frames used as page tables, and their entries
          tlb,         \* the processor's cached translation, if any
          mode,        \* "run", "fault" or "overwritten"
          told,        \* what callers were told of the pages they mapped
          bitmap, allocated_pages, held

pmm_vars == <<bitmap, allocated_pages, held>>
vars == <<directory, tables, tlb, mode, told, pmm_vars>>

Memory == INSTANCE Pmm WITH Callers <- {"vmm", "other"}, StrayAddrs <- {}
-----------------------------------------------------------------------------
(* The processor's walk through directory d and tables m. *)
Walk(d, m, page) ==
    IF d[pd_index(page)] = NONE THEN NONE ELSE m[d[pd_index(page)]][pt_index(page)]

Translation(page) == Walk(directory, tables, page)

(* Where an access to the page may end up. *)
Reached(d, m, page) ==
    {Walk(d, m, page)} \cup {e[2] : e \in {x \in tlb : x[1] = page}}

(* The loop that fills kernel_page_tables[0] and runs on into the others. *)
identity(i) == IF i < IdentityPages THEN i ELSE NONE

(* The directory's entries. *)
boot_entry(i) == IF KernelEntry(i) THEN KernelTable(KernelIndex(i)) ELSE NONE

(* kmain: pmm_init, then vmm_init. *)
Init ==
    /\ Memory!Init
    /\ directory = [i \in PDEs |-> boot_entry(i)]
    /\ tables = [f \in {KernelTable(i) : i \in 0 .. KernelTables - 1} |->
           [j \in PTEs |-> identity((f - TableFrame) * PT_SIZE + j)]]
    /\ tlb = {} /\ mode = "run"
    /\ told = [page \in {} |-> NONE]

(* Mutant: the TLB is left alone. *)
invlpg_missing(page) == tlb

invlpg(page) == {e \in tlb : e[1] # page}

(* The caller is told that page, and with it its aliases, maps to entry. *)
Tell(page, entry) ==
    told' = [p \in DOMAIN told \cup Aliases(page) |->
                IF p \in Aliases(page) THEN entry ELSE told[p]]

(* page_table[pt_index] = entry, when the tables are m and the address of  *)
(* page_table leads to frame f: a page fault if it leads nowhere, and the  *)
(* end of the kernel if it leads into its code or data.                    *)
SetEntry(m, f, page, entry) ==
    \/ /\ f = NONE
       /\ mode' = "fault" /\ tables' = m /\ UNCHANGED <<tlb, told>>
    \/ /\ f # NONE
       /\ tables' = IF f \in DOMAIN m
                    THEN [m EXCEPT ![f][pt_index(page)] = entry] ELSE m
       /\ tlb' = invlpg(page)
       /\ Tell(page, entry)
       /\ mode' = IF f \in KernelFrames \ DOMAIN m THEN "overwritten" ELSE mode

(* Mutant: the table is taken without being marked. *)
take_table_unmarked == UNCHANGED pmm_vars

(* pmm_alloc, called by vmm_map. *)
take_table == Memory!pmm_alloc("vmm")

(* Mutant: a new table is made whether or not there is one. *)
NeedsTable_always(page) == TRUE

NeedsTable(page) == directory[pd_index(page)] = NONE

(* A page whose table exists. *)
map_present(page, entry) ==
    /\ mode = "run" /\ ~NeedsTable(page)
    /\ \E f \in Reached(directory, tables, directory[pd_index(page)]) :
          SetEntry(tables, f, page, entry)
    /\ UNCHANGED <<directory, pmm_vars>>

(* "Need to create new page table": whatever the new frame holds becomes   *)
(* the rest of the table.                                                  *)
map_new_table(page, entry) ==
    LET new_table == Memory!AllocResult \div Memory!PAGE_SIZE
        d == [directory EXCEPT ![pd_index(page)] = new_table]
        with(old) == [g \in DOMAIN tables \cup {new_table} |->
                         IF g = new_table THEN old ELSE tables[g]]
    IN  /\ mode = "run" /\ NeedsTable(page)
        /\ take_table
        /\ Memory!AllocResult # 0
        /\ directory' = d
        /\ \/ /\ new_table \notin KernelFrames
              /\ \E old \in [PTEs -> MapFrames \cup {NONE}] :
                 \E f \in Reached(d, with(old), new_table) :
                    SetEntry(with(old), f, page, entry)
           \/ /\ new_table \in KernelFrames
              /\ mode' = "overwritten" /\ UNCHANGED <<tables, tlb, told>>

(* "No memory": also what the address of page 0 is taken for. *)
map_no_memory(page) ==
    /\ mode = "run" /\ NeedsTable(page)
    /\ take_table
    /\ Memory!AllocResult = 0
    /\ UNCHANGED <<directory, tables, tlb, mode, told>>

vmm_map(page, entry) ==
    map_present(page, entry) \/ map_new_table(page, entry) \/ map_no_memory(page)

(* Mutant: the table is dropped from the directory with its page. *)
vmm_unmap_table(page) ==
    /\ mode = "run" /\ directory[pd_index(page)] # NONE
    /\ directory' = [directory EXCEPT ![pd_index(page)] = NONE]
    /\ tlb' = invlpg(page) /\ Tell(page, NONE)
    /\ UNCHANGED <<tables, mode, pmm_vars>>

(* -1 and no change when the page has no table or no entry that is present. *)
vmm_unmap(page) ==
    /\ mode = "run" /\ directory[pd_index(page)] # NONE
    /\ \E f \in Reached(directory, tables, directory[pd_index(page)]) :
          /\ f \in DOMAIN tables => tables[f][pt_index(page)] # NONE
          /\ SetEntry(tables, f, page, NONE)
    /\ UNCHANGED <<directory, pmm_vars>>

(* What vmm_get_phys may return; it changes nothing. *)
vmm_get_phys(page) ==
    IF directory[pd_index(page)] = NONE THEN {0}
    ELSE LET read(f) == IF f \in DOMAIN tables THEN {tables[f][pt_index(page)]}
                        ELSE Frames \cup {NONE}
         IN  {IF e = NONE THEN 0 ELSE e * Memory!PAGE_SIZE :
                 e \in UNION {read(f) : f \in Reached(directory, tables,
                                                directory[pd_index(page)])}}

(* The other caller of the physical memory manager, proc_create: it writes *)
(* nothing to the frames it takes, the kernel's included.                  *)
OtherAlloc ==
    /\ mode = "run"
    /\ Memory!pmm_alloc("other")
    /\ UNCHANGED <<directory, tables, tlb, mode, told>>

(* The processor uses a page and caches its translation. *)
Access(page) ==
    /\ mode = "run" /\ Translation(page) # NONE
    /\ tlb' = {<<page, Translation(page)>>}
    /\ UNCHANGED <<directory, tables, mode, told, pmm_vars>>

Next ==
    \/ \E page \in MapPages : \/ \E entry \in MapFrames : vmm_map(page, entry)
                              \/ vmm_unmap(page)
    \/ OtherAlloc
    \/ \E page \in MapPages : Access(page)

Spec == Init /\ [][Next]_vars
-----------------------------------------------------------------------------
TypeOK ==
    /\ directory \in [PDEs -> Frames \cup {NONE}]
    /\ mode = "run" => \A i \in PDEs : directory[i] \in DOMAIN tables \cup {NONE}
    /\ \A f \in DOMAIN tables : tables[f] \in [PTEs -> Frames \cup {NONE}]
    /\ \A e \in tlb : e \in VPages \X Frames
    /\ mode \in {"run", "fault", "overwritten"}
    /\ Memory!TypeOK

(* Page tables can be reached: they are all in the first 16 MB, and no     *)
(* caller has mapped or unmapped a page there.  The code ensures neither.  *)
InReach ==
    /\ \A i \in PDEs : directory[i] < IdentityPages
    /\ \A p \in 1 .. IdentityPages - 1 : p \notin DOMAIN told

(* What vmm_map and vmm_unmap last reported for a page, or for its alias,  *)
(* is what the processor finds and what vmm_get_phys returns, after any    *)
(* calls for other pages and whatever new tables contained, while page     *)
(* tables are in reach.                                                    *)
MappingsKept ==
    mode = "run" /\ InReach => \A page \in DOMAIN told :
        /\ Translation(page) = told[page]
        /\ vmm_get_phys(page) =
             {IF told[page] = NONE THEN 0 ELSE told[page] * Memory!PAGE_SIZE}

(* The kernel's frames stay mapped to themselves, and at the same distance *)
(* in the higher half, however the address space around them is changed,   *)
(* while page tables are in reach.                                         *)
KernelMapped ==
    mode = "run" /\ InReach =>
        \A f \in KernelFrames : \A page \in Aliases(f) : Translation(page) = f

(* vmm_map and vmm_unmap stop in a page fault on a page table only when    *)
(* the physical memory manager gave a table beyond the identity map, or a  *)
(* caller changed the identity map itself.                                 *)
FaultsOnlyOutOfReach == mode = "fault" => ~InReach

(* A frame is the table of one directory entry, up to the two halves of    *)
(* the kernel, until vmm_map itself is given a frame of the kernel; and a  *)
(* table that vmm_map made is never held by the other caller of pmm_alloc, *)
(* even when the kernel's own tables are.                                  *)
TablesOwned ==
    /\ TypeOK
    /\ \A i, j \in PDEs : directory[i] # NONE /\ directory[i] = directory[j] =>
          \/ j * PT_SIZE \in Aliases(i * PT_SIZE)
          \/ mode = "overwritten" /\ directory[i] \in KernelFrames
    /\ \A i \in PDEs : ~KernelEntry(i) =>
          directory[i] * Memory!PAGE_SIZE \notin held["other"]

(* A cached translation that is out of date is one of a page whose alias   *)
(* was mapped or unmapped: invlpg is done for one of the two only.         *)
StaleOnlyThroughAlias ==
    mode = "run" /\ InReach =>
        \A e \in tlb : e[2] # Translation(e[1]) => InKernelTable(e[1])
=============================================================================
