-------------------------- MODULE SchedulerProofs ---------------------------
(***************************************************************************)
(* Proofs about the process table and the scheduler (the modules Process   *)
(* and Scheduler): a created process is complete, a terminated one stays   *)
(* terminated, a tick chooses only registers that are set, and a ready     *)
(* process waits for a bounded number of ticks.                            *)
(*                                                                         *)
(* What pmm_alloc does to the bitmap is taken from the lemmas of           *)
(* PmmProofs, instantiated for the only caller there is here.              *)
(***************************************************************************)
EXTENDS Scheduler, FiniteSetTheorems, TLAPS

Pm == INSTANCE PmmProofs WITH Callers <- {"proc_create"}, StrayAddrs <- {}

(* The registers of every slot but that of process 0, which interrupts     *)
(* overwrite: a published process has its own block, and its registers are *)
(* set; a slot that waits for a process has none; in between, kmalloc's    *)
(* block is there before its registers are.                                *)
ContextsOK ==
    /\ filled \subseteq 1 .. contexts
    /\ \A i \in Created :
          /\ context[i] \in filled
          /\ \A j \in Created \ {i} : context[j] # context[i]
    /\ \A i \in Slots : i > next_pid => context[i] = NULL
    /\ pc \notin {"registers", "publish"} /\ next_pid \in Slots
          => context[next_pid] = NULL
    /\ pc \in {"registers", "publish"} =>
          /\ context[next_pid] \in 1 .. contexts
          /\ \A j \in Created : context[j] # context[next_pid]
    /\ pc = "publish" => context[next_pid] \in filled

(* A page directory is a frame of proc_create's and of one process only.   *)
OwnFrame(a) == a # 0 /\ a \in Frames /\ \A j \in Created : page_dir[j] # a

DirsOK ==
    /\ \A i \in Created :
          /\ pid[i] = i
          /\ page_dir[i] # 0 /\ page_dir[i] \in Frames
          /\ \A j \in Created \ {i} : page_dir[j] # page_dir[i]
    /\ pc # "idle" => pid[next_pid] = next_pid
    /\ pc = "check" /\ pd_phys # 0 => OwnFrame(pd_phys)
    /\ pc \in {"context", "registers", "publish"} => OwnFrame(page_dir[next_pid])

(* Nothing is given back, so page 0 is only free before the first call.    *)
FailuresOK ==
    /\ 0 \in Memory!FreePages => Memory!AllocatedPages = {}
    /\ pc = "alloc_dir" =>
          /\ 0 \notin Memory!FreePages
          /\ stack_phys # 0 \/ Memory!FreePages = {} \/ Memory!AllocatedPages = {0}
    /\ pc = "check" /\ ~Allocated =>
          Memory!FreePages = {} \/ Memory!AllocatedPages = {0, 1}

Inv == TypeOK /\ Pm!Inv /\ ContextsOK /\ DirsOK /\ FailuresOK
-----------------------------------------------------------------------------
(* What the two instances of Pmm define is the same. *)
LEMMA SameMemory ==
    /\ Memory!Pages = Pm!Pages /\ Memory!Addrs = Pm!Addrs
    /\ Memory!FreePages = Pm!FreePages
    /\ Memory!AllocatedPages = Pm!AllocatedPages
    /\ Memory!FreePages' = Pm!FreePages'
    /\ Memory!AllocatedPages' = Pm!AllocatedPages'
    /\ Memory!find_free_page = Pm!find_free_page
    /\ Memory!AllocResult = Pm!AllocResult
    /\ Memory!NO_PAGE = Pm!NO_PAGE /\ Memory!PAGE_SIZE = Pm!PAGE_SIZE
    /\ Memory!TypeOK <=> Pm!TypeOK
    /\ Memory!TypeOK' <=> Pm!TypeOK'
    /\ Memory!Init <=> Pm!Init
    /\ Memory!pmm_alloc("proc_create") <=> Pm!pmm_alloc("proc_create")
<1>1. /\ Memory!Pages = Pm!Pages /\ Memory!PAGE_SIZE = Pm!PAGE_SIZE
      /\ Memory!NO_PAGE = Pm!NO_PAGE /\ Memory!Bits = Pm!Bits
      /\ Memory!bitmap_size = Pm!bitmap_size
  BY DEF Memory!Pages, Pm!Pages, Memory!PAGE_SIZE, Pm!PAGE_SIZE, Memory!NO_PAGE,
     Pm!NO_PAGE, Memory!bitmap_size, Pm!bitmap_size, Memory!Bits, Pm!Bits
<1>2. /\ Memory!FreePages = Pm!FreePages /\ Memory!FreePages' = Pm!FreePages'
      /\ Memory!AllocatedPages = Pm!AllocatedPages
      /\ Memory!AllocatedPages' = Pm!AllocatedPages'
  BY <1>1 DEF Memory!FreePages, Pm!FreePages, Memory!AllocatedPages,
     Pm!AllocatedPages, Memory!bitmap_test_bit, Pm!bitmap_test_bit
<1>3. /\ Memory!find_free_page = Pm!find_free_page
      /\ Memory!AllocResult = Pm!AllocResult
  <2>1. Memory!Min(Memory!FreePages) = Pm!Min(Memory!FreePages)
    BY Zenon DEF Memory!Min, Pm!Min
  <2>2. Memory!find_free_page = Pm!find_free_page
    BY <1>1, <1>2, <2>1, Zenon DEF Memory!find_free_page, Pm!find_free_page
  <2>3. QED
    BY <1>1, <2>2, Zenon DEF Memory!AllocResult, Pm!AllocResult
<1>4. Memory!Addrs = Pm!Addrs
  BY <1>1, Zenon DEF Memory!Addrs, Pm!Addrs
<1>5. /\ Memory!TypeOK <=> Pm!TypeOK
      /\ Memory!TypeOK' <=> Pm!TypeOK'
  BY <1>1, <1>4, Zenon DEF Memory!TypeOK, Pm!TypeOK
<1>6. Memory!Init <=> Pm!Init
  BY <1>1, Zenon DEF Memory!Init, Pm!Init
<1>7. Memory!pmm_alloc("proc_create") <=> Pm!pmm_alloc("proc_create")
  BY <1>1, <1>3, Zenon DEF Memory!pmm_alloc, Pm!pmm_alloc, Memory!bitmap_set_bit,
     Pm!bitmap_set_bit, Memory!vars, Pm!vars
<1>8. QED
  BY <1>1, <1>2, <1>3, <1>4, <1>5, <1>6, <1>7, Zenon

(* The assumption of PmmProofs holds of its instance here. *)
LEMMA PmmHolds == Pm!PmmAssumption
BY ProcessAssumption DEF Pm!PmmAssumption

(* A frame that proc_create is given is new; it is page 0, or there is     *)
(* none left, when the address is 0.                                       *)
LEMMA Alloc ==
    ASSUME Pm!Inv, Memory!pmm_alloc("proc_create")
    PROVE  /\ Pm!Inv'
           /\ Memory!AllocResult \in Memory!Addrs
           /\ Frames \subseteq Frames'
           /\ Memory!AllocResult # 0 =>
                 Memory!AllocResult \in Frames' /\ Memory!AllocResult \notin Frames
           /\ Memory!FreePages = {} =>
                 /\ Memory!AllocResult = 0
                 /\ Memory!FreePages' = {}
                 /\ Memory!AllocatedPages' = Memory!AllocatedPages
           /\ Memory!FreePages # {} =>
                 \E p \in Memory!FreePages :
                    /\ \A q \in Memory!FreePages : p =< q
                    /\ Memory!AllocResult = 0 <=> p = 0
                    /\ Memory!FreePages' = Memory!FreePages \ {p}
                    /\ Memory!AllocatedPages' = Memory!AllocatedPages \cup {p}
<1>1. Pm!pmm_alloc("proc_create") /\ "proc_create" \in {"proc_create"}
  BY SameMemory, Zenon
<1>2. /\ Pm!Inv' /\ Pm!AllocResult \in Pm!Addrs
      /\ \A d \in {"proc_create"} : held[d] \subseteq held'[d]
      /\ Pm!AllocResult # 0 =>
            /\ Pm!AllocResult \in held'["proc_create"]
            /\ \A d \in {"proc_create"} : Pm!AllocResult \notin held[d]
      /\ Pm!FreePages = {} => /\ Pm!AllocResult = 0 /\ Pm!FreePages' = {}
                              /\ Pm!AllocatedPages' = Pm!AllocatedPages
      /\ Pm!FreePages # {} =>
            /\ Pm!find_free_page \in Pm!FreePages
            /\ \A q \in Pm!FreePages : Pm!find_free_page =< q
            /\ Pm!AllocResult = 0 <=> Pm!find_free_page = 0
            /\ Pm!FreePages' = Pm!FreePages \ {Pm!find_free_page}
            /\ Pm!AllocatedPages' = Pm!AllocatedPages \cup {Pm!find_free_page}
  BY <1>1, PmmHolds, Pm!AllocFacts, Zenon
<1>3. QED
  BY <1>2, SameMemory, Zenon DEF Frames
-----------------------------------------------------------------------------
(* "Find first ready process" finds a ready process, or takes the idle     *)
(* one.                                                                    *)
LEMMA NextProcessReady ==
    /\ NextProcess \in Slots
    /\ NextProcess # 0 => state[NextProcess] = READY
<1>1. 0 \in Slots /\ Slots \subseteq Nat
  BY ProcessAssumption DEF Slots
<1>2. CASE ReadySlots = {}
  BY <1>1, <1>2, Zenon DEF NextProcess
<1>3. CASE ReadySlots # {}
  <2>1. ReadySlots \in SUBSET Nat
    BY <1>1, Zenon DEF ReadySlots
  <2>2. Pm!Min(ReadySlots) \in ReadySlots
    BY <1>3, <2>1, PmmHolds, Pm!NatMinimum, Zenon
  <2>3. NextProcess = Pm!Min(ReadySlots)
    BY <1>3, Zenon DEF NextProcess, Pm!Min
  <2>4. QED
    BY <2>2, <2>3, Zenon DEF ReadySlots
<1>4. QED
  BY <1>2, <1>3

(* A step that does not touch the physical memory manager leaves what      *)
(* Inv says about it alone.                                                *)
LEMMA MemoryUnchanged ==
    ASSUME UNCHANGED pmm_vars
    PROVE  /\ Pm!Inv => Pm!Inv'
           /\ Frames' = Frames
           /\ Memory!FreePages' = Memory!FreePages
           /\ Memory!AllocatedPages' = Memory!AllocatedPages
<1>1. bitmap' = bitmap /\ held' = held /\ UNCHANGED Pm!vars
  BY Zenon DEF pmm_vars, Pm!vars
<1>2. Pm!Inv => Pm!Inv'
  BY <1>1, PmmHolds, Pm!NextInv, Zenon
<1>3. QED
  BY <1>1, <1>2, Zenon DEF Frames, Memory!FreePages, Memory!AllocatedPages,
     Memory!bitmap_test_bit

LEMMA InitInv == Init => Inv
<1>. SUFFICES ASSUME Init PROVE Inv
  OBVIOUS
<1>1. Pm!Inv /\ Memory!TypeOK
  BY PmmHolds, Pm!InitInv, SameMemory, Zenon DEF Init, Pm!Inv
<1>2. 0 \in Memory!Addrs
  BY ProcessAssumption DEF Memory!Addrs, Memory!Pages, Memory!PAGE_SIZE
<1>3. TypeOK
  <2>1. /\ pid \in [Slots -> Slots]
        /\ context \in [Slots -> INTERRUPT .. HeapContexts]
        /\ slice \in [Slots -> 0 .. SCHEDULER_TIME_SLICE]
        /\ next_pid \in 1 .. MAX_PROCESSES
        /\ contexts \in 0 .. HeapContexts /\ filled \subseteq 1 .. contexts
    BY ProcessAssumption DEF Init, Slots, NULL, INTERRUPT
  <2>2. /\ state \in [Slots -> {READY, RUNNING, BLOCKED, ZOMBIE}]
        /\ page_dir \in [Slots -> Memory!Addrs]
    BY <1>2 DEF Init
  <2>3. QED
    BY <1>1, <1>2, <2>1, <2>2, Zenon DEF Init, TypeOK
<1>4. ContextsOK /\ DirsOK
  BY ProcessAssumption DEF Init, ContextsOK, DirsOK, Created, Slots
<1>5. Memory!AllocatedPages = {}
  <2>1. \A p \in Memory!Pages : p \div 8 \in 0 .. Memory!bitmap_size - 1
    BY ProcessAssumption DEF Memory!Pages, Memory!bitmap_size
  <2>2. QED
    BY <2>1 DEF Init, Memory!Init, Memory!AllocatedPages, Memory!FreePages,
       Memory!bitmap_test_bit
<1>6. FailuresOK
  BY <1>5 DEF Init, FailuresOK
<1>7. QED
  BY <1>1, <1>3, <1>4, <1>6 DEF Inv
-----------------------------------------------------------------------------
(* Where the slots of the existing processes and the next one are. *)
LEMMA SlotFacts ==
    ASSUME TypeOK
    PROVE  /\ Created \subseteq Slots /\ 0 \notin Created /\ next_pid # 0
           /\ next_pid \notin Created
           /\ \A i \in Slots : i > next_pid => i # 0 /\ i # next_pid
           /\ pc # "idle" => next_pid \in Slots
           /\ \A i \in Slots : i = 0 \/ i \in Created \/ i = next_pid \/ i > next_pid
<1>1. /\ next_pid \in 1 .. MAX_PROCESSES
      /\ pc # "idle" => next_pid < MAX_PROCESSES
  BY Zenon DEF TypeOK
<1>2. pc # "idle" => next_pid \in Slots
  BY <1>1, ProcessAssumption DEF Slots
<1>3. QED
  BY <1>1, <1>2, ProcessAssumption DEF Created, Slots

(* What the table of states and slices says is no part of Inv but for its  *)
(* type: the steps that only change those preserve it.                     *)
LEMMA StatesOnly ==
    ASSUME Inv,
           UNCHANGED <<pid, context, page_dir, next_pid, local_vars, heap_vars,
                       pmm_vars>>,
           state' \in [Slots -> {READY, RUNNING, BLOCKED, ZOMBIE}],
           slice' \in [Slots -> 0 .. SCHEDULER_TIME_SLICE],
           halted' \in BOOLEAN
    PROVE  Inv'
<1>1. /\ pid' = pid /\ context' = context /\ page_dir' = page_dir
      /\ next_pid' = next_pid /\ pc' = pc /\ stack_phys' = stack_phys
      /\ pd_phys' = pd_phys /\ contexts' = contexts /\ filled' = filled
      /\ bitmap' = bitmap /\ held' = held /\ UNCHANGED pmm_vars
  BY Zenon DEF local_vars, heap_vars, pmm_vars
<1>2. Pm!Inv' /\ Memory!TypeOK'
  BY <1>1, MemoryUnchanged, SameMemory, Zenon DEF Inv, Pm!Inv
<1>3. TypeOK'
  BY <1>1, <1>2, Zenon DEF Inv, TypeOK
<1>4. ContextsOK' /\ DirsOK'
  <2>1. Created' = Created /\ Frames' = Frames
    BY <1>1, Zenon DEF Created, Frames
  <2>2. ContextsOK'
    BY <1>1, <2>1, Zenon DEF Inv, ContextsOK
  <2>3. DirsOK'
    BY <1>1, <2>1, Zenon DEF Inv, DirsOK, OwnFrame
  <2>4. QED
    BY <2>2, <2>3
<1>5. FailuresOK'
  BY <1>1, MemoryUnchanged, Zenon DEF Inv, FailuresOK, Allocated
<1>6. QED
  BY <1>2, <1>3, <1>4, <1>5, Zenon DEF Inv

(* The operations that a running kernel calls, proc_create's claim of a    *)
(* slot among them.                                                        *)
LEMMA CallInv == ASSUME Inv, call PROVE Inv'
<1>. DEFINE States == {READY, RUNNING, BLOCKED, ZOMBIE}
<1>1. TypeOK /\ state \in [Slots -> States]
  BY Zenon DEF Inv, TypeOK
<1>2. 0 \in Slots
  BY ProcessAssumption DEF Slots
<1>3. ASSUME NEW p, proc_exit(p) PROVE Inv'
  <2>1. state' \in [Slots -> States]
    BY <1>1, <1>3 DEF proc_exit
  <2>2. QED
    BY <1>1, <1>3, <2>1, StatesOnly, Zenon DEF proc_exit, TypeOK
<1>4. ASSUME NEW p, proc_unblock(p) PROVE Inv'
  <2>1. state' \in [Slots -> States]
    BY <1>1, <1>4 DEF proc_unblock
  <2>2. QED
    BY <1>1, <1>4, <2>1, StatesOnly, Zenon DEF proc_unblock, TypeOK
<1>5. CASE proc_block
  <2>1. state' \in [Slots -> States]
    BY <1>1, <1>2, <1>5 DEF proc_block, current_process
  <2>2. QED
    BY <1>1, <1>5, <2>1, StatesOnly, Zenon DEF proc_block, TypeOK
<1>6. CASE proc_halt_all
  <2>1. state' \in [Slots -> States]
    BY <1>6 DEF proc_halt_all
  <2>2. QED
    BY <1>1, <1>6, <2>1, StatesOnly, Zenon DEF proc_halt_all, TypeOK
<1>7. ASSUME create_claim, next_pid < MAX_PROCESSES PROVE Inv'
  <2>1. /\ pc = "idle" /\ pc' = "fill"
        /\ pid' = [pid EXCEPT ![next_pid] = next_pid]
        /\ state' = [state EXCEPT ![next_pid] = READY]
        /\ context' = context /\ page_dir' = page_dir /\ slice' = slice
        /\ next_pid' = next_pid /\ stack_phys' = stack_phys /\ pd_phys' = pd_phys
        /\ contexts' = contexts /\ filled' = filled /\ halted' = halted
        /\ UNCHANGED pmm_vars
    <3>1. ~(next_pid >= MAX_PROCESSES)
      BY <1>1, <1>7, ProcessAssumption DEF TypeOK
    <3>2. QED
      BY <1>7, <3>1, Zenon DEF create_claim, heap_vars
  <2>2. next_pid \in Slots /\ next_pid \notin Created
    BY <1>1, <1>7, ProcessAssumption DEF TypeOK, Slots, Created
  <2>3. Pm!Inv' /\ Memory!TypeOK'
    BY <2>1, MemoryUnchanged, SameMemory, Zenon DEF Inv, Pm!Inv
  <2>4. pid' \in [Slots -> Slots] /\ state' \in [Slots -> States]
    BY <1>1, <2>1, <2>2 DEF TypeOK
  <2>5. TypeOK'
    BY <1>1, <1>7, <2>1, <2>3, <2>4, Zenon DEF TypeOK
  <2>6. Created' = Created /\ Frames' = Frames
    BY <2>1, MemoryUnchanged, Zenon DEF Created
  <2>7. ContextsOK'
    BY <2>1, <2>6 DEF Inv, ContextsOK
  <2>8. DirsOK'
    <3>1. Created \subseteq Slots
      BY <1>1, ProcessAssumption DEF TypeOK, Created, Slots
    <3>2. pid'[next_pid] = next_pid /\ \A i \in Created : pid'[i] = pid[i]
      BY <1>1, <2>1, <2>2, <3>1 DEF TypeOK
    <3>3. QED
      BY <2>1, <2>6, <3>2 DEF Inv, DirsOK
  <2>9. FailuresOK'
    BY <2>1, MemoryUnchanged DEF Inv, FailuresOK
  <2>10. QED
    BY <2>3, <2>5, <2>7, <2>8, <2>9, Zenon DEF Inv
<1>8. ASSUME create_claim, ~(next_pid < MAX_PROCESSES) PROVE Inv'
  <2>1. UNCHANGED vars
    BY <1>8, Zenon DEF create_claim
  <2>2. QED
    BY <1>1, <2>1, StatesOnly, Zenon DEF vars, table_vars, TypeOK
<1>9. QED
  BY <1>3, <1>4, <1>5, <1>6, <1>7, <1>8, Zenon DEF call

(* A tick writes the registers of process 0 only. *)
LEMMA TickInv == ASSUME Inv, scheduler_tick PROVE Inv'
<1>1. TypeOK
  BY Zenon DEF Inv
<1>2. 0 \in Slots /\ NextProcess \in Slots
  BY NextProcessReady, ProcessAssumption DEF Slots
<1>3. Ticked \in [Slots -> 0 .. SCHEDULER_TIME_SLICE]
  BY <1>1, <1>2, ProcessAssumption
     DEF TypeOK, Ticked, Decrement, proc_get_current, current_process
<1>4. UNCHANGED <<pid, page_dir, next_pid, local_vars, heap_vars, halted, pmm_vars>>
  BY Zenon DEF scheduler_tick
<1>5. CASE ~NeedsSwitch
  BY <1>1, <1>3, <1>4, <1>5, StatesOnly, Zenon DEF scheduler_tick, TypeOK
<1>6. CASE NeedsSwitch
  <2>1. /\ state' = [state EXCEPT ![0] = READY, ![NextProcess] = RUNNING]
        /\ context' = [context EXCEPT ![0] = INTERRUPT]
        /\ slice' = [Ticked EXCEPT ![NextProcess] = SCHEDULER_TIME_SLICE]
    BY <1>6, Zenon
       DEF scheduler_tick, context_switch, proc_get_current, current_process
  <2>2. /\ pid' = pid /\ page_dir' = page_dir
        /\ next_pid' = next_pid /\ pc' = pc /\ stack_phys' = stack_phys
        /\ pd_phys' = pd_phys /\ contexts' = contexts /\ filled' = filled
        /\ halted' = halted /\ UNCHANGED pmm_vars
    BY <1>4, Zenon DEF local_vars, heap_vars
  <2>3. Pm!Inv' /\ Memory!TypeOK'
    BY <2>2, MemoryUnchanged, SameMemory, Zenon DEF Inv, Pm!Inv
  <2>4. /\ state' \in [Slots -> {READY, RUNNING, BLOCKED, ZOMBIE}]
        /\ slice' \in [Slots -> 0 .. SCHEDULER_TIME_SLICE]
        /\ context' \in [Slots -> INTERRUPT .. HeapContexts]
    BY <1>1, <1>2, <1>3, <2>1, ProcessAssumption DEF TypeOK, INTERRUPT
  <2>5. TypeOK'
    BY <1>1, <2>2, <2>3, <2>4, Zenon DEF TypeOK
  <2>6. Created' = Created /\ Frames' = Frames
    BY <2>2, MemoryUnchanged, Zenon DEF Created
  <2>7. \A i \in Slots : i # 0 => context'[i] = context[i]
    BY <1>1, <2>1 DEF TypeOK
  <2>8. ContextsOK'
    <3>1. /\ Created \subseteq Slots /\ 0 \notin Created /\ next_pid # 0
          /\ \A i \in Slots : i > next_pid => i # 0
          /\ pc # "idle" => next_pid \in Slots
      BY <1>1, SlotFacts, Zenon
    <3>2. /\ \A i \in Created : context'[i] = context[i]
          /\ \A i \in Slots : i > next_pid => context'[i] = context[i]
          /\ next_pid \in Slots => context'[next_pid] = context[next_pid]
      BY <2>7, <3>1, Zenon
    <3>3. QED
      BY <2>2, <2>6, <3>1, <3>2 DEF Inv, ContextsOK
  <2>9. DirsOK'
    BY <2>2, <2>6, Zenon DEF Inv, DirsOK, OwnFrame
  <2>10. FailuresOK'
    BY <2>2, MemoryUnchanged, Zenon DEF Inv, FailuresOK, Allocated
  <2>11. QED
    BY <2>3, <2>5, <2>8, <2>9, <2>10, Zenon DEF Inv
<1>7. QED
  BY <1>5, <1>6
-----------------------------------------------------------------------------
(* The steps of proc_create that allocate: the frame is new. *)
LEMMA AllocStackInv == ASSUME Inv, create_alloc_stack PROVE Inv'
<1>1. TypeOK /\ Pm!Inv /\ ContextsOK /\ DirsOK /\ FailuresOK
  BY Zenon DEF Inv
<1>2. /\ pc = "alloc_stack" /\ pc' = "alloc_dir"
      /\ stack_phys' = Memory!AllocResult
      /\ Memory!pmm_alloc("proc_create")
      /\ pid' = pid /\ state' = state /\ context' = context
      /\ page_dir' = page_dir /\ slice' = slice /\ next_pid' = next_pid
      /\ pd_phys' = pd_phys /\ contexts' = contexts /\ filled' = filled
      /\ halted' = halted
  BY Zenon DEF create_alloc_stack, table_vars, heap_vars
<1>3. Pm!Inv' /\ Memory!TypeOK'
  BY <1>1, <1>2, Alloc, SameMemory, Zenon DEF Pm!Inv
<1>4. Memory!AllocResult \in Memory!Addrs
  BY <1>1, <1>2, Alloc, Zenon
<1>5. TypeOK'
  BY <1>1, <1>2, <1>3, <1>4, Zenon DEF TypeOK
<1>6. Created' = Created /\ Frames \subseteq Frames'
  BY <1>1, <1>2, Alloc, Zenon DEF Created
<1>7. ContextsOK'
  BY <1>1, <1>2, <1>6 DEF ContextsOK
<1>8. DirsOK'
  BY <1>1, <1>2, <1>6 DEF DirsOK
<1>9. FailuresOK'
  <2>1. CASE Memory!FreePages = {}
    BY <1>1, <1>2, <2>1, Alloc DEF FailuresOK
  <2>2. CASE Memory!FreePages # {}
    <3>1. PICK p \in Memory!FreePages :
             /\ \A q \in Memory!FreePages : p =< q
             /\ Memory!AllocResult = 0 <=> p = 0
             /\ Memory!FreePages' = Memory!FreePages \ {p}
             /\ Memory!AllocatedPages' = Memory!AllocatedPages \cup {p}
      BY <1>1, <1>2, <2>2, Alloc, Zenon
    <3>2. 0 \in Memory!FreePages => p = 0
      <4>1. Memory!FreePages \subseteq Nat
        BY ProcessAssumption DEF Memory!FreePages, Memory!Pages
      <4>2. QED
        BY <3>1, <4>1
    <3>3. p = 0 => Memory!AllocatedPages = {}
      BY <1>1, <3>1 DEF FailuresOK
    <3>4. QED
      BY <1>2, <3>1, <3>2, <3>3 DEF FailuresOK
  <2>3. QED
    BY <2>1, <2>2
<1>10. QED
  BY <1>3, <1>5, <1>7, <1>8, <1>9, Zenon DEF Inv

LEMMA AllocDirInv == ASSUME Inv, create_alloc_dir PROVE Inv'
<1>1. TypeOK /\ Pm!Inv /\ ContextsOK /\ DirsOK /\ FailuresOK
  BY Zenon DEF Inv
<1>2. /\ pc = "alloc_dir" /\ pc' = "check"
      /\ pd_phys' = Memory!AllocResult
      /\ Memory!pmm_alloc("proc_create")
      /\ pid' = pid /\ state' = state /\ context' = context
      /\ page_dir' = page_dir /\ slice' = slice /\ next_pid' = next_pid
      /\ stack_phys' = stack_phys /\ contexts' = contexts /\ filled' = filled
      /\ halted' = halted
  BY Zenon DEF create_alloc_dir, table_vars, heap_vars
<1>3. Pm!Inv' /\ Memory!TypeOK'
  BY <1>1, <1>2, Alloc, SameMemory, Zenon DEF Pm!Inv
<1>4. Memory!AllocResult \in Memory!Addrs
  BY <1>1, <1>2, Alloc, Zenon
<1>5. TypeOK'
  BY <1>1, <1>2, <1>3, <1>4, Zenon DEF TypeOK
<1>6. /\ Created' = Created /\ Frames \subseteq Frames'
      /\ Memory!AllocResult # 0 =>
            Memory!AllocResult \in Frames' /\ Memory!AllocResult \notin Frames
  BY <1>1, <1>2, Alloc, Zenon DEF Created
<1>7. ContextsOK'
  BY <1>1, <1>2, <1>6 DEF ContextsOK
<1>8. DirsOK'
  BY <1>1, <1>2, <1>6 DEF DirsOK, OwnFrame
<1>9. FailuresOK'
  <2>1. CASE Memory!FreePages = {}
    BY <1>1, <1>2, <2>1, Alloc DEF FailuresOK
  <2>2. CASE Memory!FreePages # {}
    <3>1. PICK p \in Memory!FreePages :
             /\ \A q \in Memory!FreePages : p =< q
             /\ Memory!AllocResult = 0 <=> p = 0
             /\ Memory!FreePages' = Memory!FreePages \ {p}
             /\ Memory!AllocatedPages' = Memory!AllocatedPages \cup {p}
      BY <1>1, <1>2, <2>2, Alloc, Zenon
    <3>2. 0 \notin Memory!FreePages /\ p # 0
      BY <1>1, <1>2, <3>1 DEF FailuresOK
    <3>3. Memory!AllocatedPages = {0} => p = 1
      <4>1. /\ Memory!FreePages \subseteq 0 .. TotalPages - 1
            /\ Memory!AllocatedPages = (0 .. TotalPages - 1) \ Memory!FreePages
        BY DEF Memory!FreePages, Memory!AllocatedPages, Memory!Pages
      <4>2. QED
        BY <3>1, <3>2, <4>1, ProcessAssumption
    <3>4. QED
      BY <1>1, <1>2, <2>2, <3>1, <3>2, <3>3 DEF FailuresOK, Allocated
  <2>3. QED
    BY <2>1, <2>2
<1>10. QED
  BY <1>3, <1>5, <1>7, <1>8, <1>9, Zenon DEF Inv

(* The steps of proc_create that write the slot: what they write is of     *)
(* this process only.                                                      *)
LEMMA SlotStepInv ==
    ASSUME Inv, create_fill \/ create_check \/ create_context
                \/ create_registers \/ create_publish
    PROVE  Inv'
<1>1. TypeOK /\ Pm!Inv /\ ContextsOK /\ DirsOK /\ FailuresOK
  BY Zenon DEF Inv
<1>2. UNCHANGED pmm_vars
  BY Zenon DEF create_fill, create_check, create_context, create_registers,
     create_publish
<1>3. /\ Pm!Inv' /\ Memory!TypeOK' /\ Frames' = Frames
      /\ Memory!FreePages' = Memory!FreePages
      /\ Memory!AllocatedPages' = Memory!AllocatedPages
  BY <1>1, <1>2, MemoryUnchanged, SameMemory, Zenon DEF Pm!Inv
<1>4. /\ Created \subseteq Slots /\ 0 \notin Created /\ next_pid # 0
      /\ next_pid \notin Created
      /\ \A i \in Slots : i > next_pid => i # 0 /\ i # next_pid
      /\ pc # "idle" => next_pid \in Slots
  BY <1>1, SlotFacts, Zenon
<1>5. CASE create_fill
  <2>1. /\ pc = "fill" /\ pc' = "alloc_stack"
        /\ slice' = [slice EXCEPT ![next_pid] = SCHEDULER_TIME_SLICE]
        /\ pid' = pid /\ state' = state /\ context' = context
        /\ page_dir' = page_dir /\ next_pid' = next_pid
        /\ stack_phys' = stack_phys /\ pd_phys' = pd_phys
        /\ contexts' = contexts /\ filled' = filled /\ halted' = halted
    BY <1>5, Zenon DEF create_fill, heap_vars
  <2>2. slice' \in [Slots -> 0 .. SCHEDULER_TIME_SLICE]
    <3>1. slice \in [Slots -> 0 .. SCHEDULER_TIME_SLICE]
      BY <1>1, Zenon DEF TypeOK
    <3>2. SCHEDULER_TIME_SLICE \in 0 .. SCHEDULER_TIME_SLICE
      BY ProcessAssumption
    <3>3. QED
      BY <2>1, <3>1, <3>2, Zenon
  <2>3. TypeOK'
    BY <1>1, <1>3, <2>1, <2>2, Zenon DEF TypeOK
  <2>4. Created' = Created
    BY <2>1, Zenon DEF Created
  <2>5. ContextsOK' /\ DirsOK' /\ FailuresOK'
    BY <1>1, <1>3, <2>1, <2>4 DEF ContextsOK, DirsOK, FailuresOK
  <2>6. QED
    BY <1>3, <2>3, <2>5, Zenon DEF Inv
<1>6. CASE create_check
  <2>1. /\ pc = "check"
        /\ \/ ~Allocated /\ pc' = "idle" /\ page_dir' = page_dir
           \/ /\ Allocated /\ pc' = "context"
              /\ page_dir' = [page_dir EXCEPT ![next_pid] = pd_phys]
        /\ pid' = pid /\ state' = state /\ context' = context
        /\ slice' = slice /\ next_pid' = next_pid
        /\ stack_phys' = stack_phys /\ pd_phys' = pd_phys
        /\ contexts' = contexts /\ filled' = filled /\ halted' = halted
    BY <1>6, Zenon DEF create_check, heap_vars
  <2>2. page_dir' \in [Slots -> Memory!Addrs]
    BY <1>1, <2>1 DEF TypeOK
  <2>3. TypeOK'
    <3>1. pc' \in {"idle", "context"} /\ next_pid < MAX_PROCESSES
      BY <1>1, <2>1 DEF TypeOK
    <3>2. QED
      BY <1>1, <1>3, <2>1, <2>2, <3>1, Zenon DEF TypeOK
  <2>4. Created' = Created
    BY <2>1, Zenon DEF Created
  <2>5. ContextsOK' /\ FailuresOK'
    BY <1>1, <1>3, <2>1, <2>4 DEF ContextsOK, FailuresOK
  <2>6. DirsOK'
    <3>1. CASE ~Allocated
      BY <1>1, <1>3, <2>1, <2>4, <3>1 DEF DirsOK
    <3>2. CASE Allocated
      <4>1. /\ page_dir'[next_pid] = pd_phys
            /\ \A i \in Created : page_dir'[i] = page_dir[i]
        BY <1>1, <1>4, <2>1, <3>2 DEF TypeOK
      <4>2. OwnFrame(pd_phys)
        BY <1>1, <2>1, <3>2 DEF DirsOK, Allocated
      <4>3. OwnFrame(page_dir[next_pid])'
        BY <1>3, <2>4, <4>1, <4>2, <2>1, Zenon DEF OwnFrame
      <4>4. QED
        BY <1>1, <1>3, <2>1, <2>4, <3>2, <4>1, <4>3 DEF DirsOK
    <3>3. QED
      BY <3>1, <3>2
  <2>7. QED
    BY <1>3, <2>3, <2>5, <2>6, Zenon DEF Inv
<1>7. CASE create_context
  <2>1. /\ pc = "context"
        /\ \/ /\ contexts' = contexts /\ pc' = "idle"
              /\ context' = [context EXCEPT ![next_pid] = NULL]
           \/ /\ contexts < HeapContexts /\ contexts' = contexts + 1
              /\ context' = [context EXCEPT ![next_pid] = contexts']
              /\ pc' = "registers"
        /\ pid' = pid /\ state' = state /\ page_dir' = page_dir
        /\ slice' = slice /\ next_pid' = next_pid
        /\ stack_phys' = stack_phys /\ pd_phys' = pd_phys
        /\ filled' = filled /\ halted' = halted
    BY <1>7, Zenon DEF create_context
  <2>2. /\ contexts' \in 0 .. HeapContexts /\ filled \subseteq 1 .. contexts'
        /\ context' \in [Slots -> INTERRUPT .. HeapContexts]
    <3>1. /\ contexts \in 0 .. HeapContexts /\ filled \subseteq 1 .. contexts
          /\ context \in [Slots -> INTERRUPT .. HeapContexts]
      BY <1>1, Zenon DEF TypeOK
    <3>2. contexts' \in 0 .. HeapContexts /\ contexts' >= contexts
      BY <2>1, <3>1, ProcessAssumption
    <3>3. QED
      BY <2>1, <3>1, <3>2, ProcessAssumption DEF INTERRUPT, NULL
  <2>3. TypeOK'
    <3>1. pc' \in {"idle", "registers"} /\ next_pid < MAX_PROCESSES
      BY <1>1, <2>1 DEF TypeOK
    <3>2. QED
      BY <1>1, <1>3, <2>1, <2>2, <3>1, Zenon DEF TypeOK
  <2>4. Created' = Created
    BY <2>1, Zenon DEF Created
  <2>5. DirsOK' /\ FailuresOK'
    <3>1. DirsOK'
      BY <1>1, <1>3, <2>1, <2>4 DEF DirsOK, OwnFrame
    <3>2. FailuresOK'
      BY <1>1, <1>3, <2>1 DEF FailuresOK
    <3>3. QED
      BY <3>1, <3>2
  <2>6. ContextsOK'
    <3>1. /\ \A i \in Created : context'[i] = context[i]
          /\ \A i \in Slots : i > next_pid => context'[i] = context[i]
      BY <1>1, <1>4, <2>1 DEF TypeOK
    <3>2. pc' = "idle" => context'[next_pid] = NULL
      BY <1>1, <1>4, <2>1 DEF TypeOK
    <3>3. pc' = "registers" =>
             /\ context'[next_pid] = contexts + 1
             /\ context'[next_pid] \in 1 .. contexts'
             /\ \A j \in Created : context[j] # contexts + 1
      BY <1>1, <1>4, <2>1 DEF TypeOK, ContextsOK
    <3>4. pc' \in {"idle", "registers"}
      BY <2>1
    <3>5. QED
      BY <1>1, <2>1, <2>2, <2>4, <3>1, <3>2, <3>3, <3>4 DEF ContextsOK
  <2>7. QED
    BY <1>3, <2>3, <2>5, <2>6, Zenon DEF Inv
<1>8. CASE create_registers
  <2>1. /\ pc = "registers" /\ pc' = "publish"
        /\ filled' = filled \cup {context[next_pid]}
        /\ pid' = pid /\ state' = state /\ context' = context
        /\ page_dir' = page_dir /\ slice' = slice /\ next_pid' = next_pid
        /\ stack_phys' = stack_phys /\ pd_phys' = pd_phys
        /\ contexts' = contexts /\ halted' = halted
    BY <1>8, Zenon DEF create_registers, table_vars
  <2>2. filled' \subseteq 1 .. contexts
    BY <1>1, <2>1 DEF ContextsOK
  <2>3. TypeOK'
    BY <1>1, <1>3, <2>1, <2>2, Zenon DEF TypeOK
  <2>4. Created' = Created
    BY <2>1, Zenon DEF Created
  <2>5. ContextsOK'
    BY <1>1, <2>1, <2>2, <2>4 DEF ContextsOK
  <2>6. DirsOK'
    BY <1>1, <1>3, <2>1, <2>4 DEF DirsOK, OwnFrame
  <2>7. FailuresOK'
    BY <1>1, <1>3, <2>1 DEF FailuresOK
  <2>8. QED
    BY <1>3, <2>3, <2>5, <2>6, <2>7, Zenon DEF Inv
<1>9. CASE create_publish
  <2>1. /\ pc = "publish" /\ pc' = "idle" /\ next_pid' = next_pid + 1
        /\ filled' = filled /\ pid' = pid /\ state' = state
        /\ context' = context /\ page_dir' = page_dir /\ slice' = slice
        /\ stack_phys' = stack_phys /\ pd_phys' = pd_phys
        /\ contexts' = contexts /\ halted' = halted
    BY <1>9, Zenon DEF create_publish, table_vars, heap_vars
  <2>2. /\ next_pid \in 1 .. MAX_PROCESSES /\ next_pid < MAX_PROCESSES
        /\ next_pid' \in 1 .. MAX_PROCESSES
    BY <1>1, <2>1, ProcessAssumption DEF TypeOK
  <2>3. TypeOK'
    BY <1>1, <1>3, <2>1, <2>2, Zenon DEF TypeOK
  <2>4. Created' = Created \cup {next_pid}
    BY <2>1, <2>2, ProcessAssumption DEF Created
  <2>5. \A i \in Slots : i > next_pid' \/ i = next_pid' => i > next_pid
    BY <2>1, <2>2, ProcessAssumption DEF Slots
  <2>6. ContextsOK'
    BY <1>1, <1>4, <2>1, <2>4, <2>5 DEF ContextsOK
  <2>7. DirsOK'
    BY <1>1, <1>3, <1>4, <2>1, <2>4 DEF DirsOK, OwnFrame
  <2>8. FailuresOK'
    BY <1>1, <1>3, <2>1 DEF FailuresOK
  <2>9. QED
    BY <1>3, <2>3, <2>6, <2>7, <2>8, Zenon DEF Inv
<1>10. QED
  BY <1>5, <1>6, <1>7, <1>8, <1>9
-----------------------------------------------------------------------------
LEMMA NextInv == Inv /\ [Next]_vars => Inv'
<1>. SUFFICES ASSUME Inv, [Next]_vars PROVE Inv'
  OBVIOUS
<1>1. CASE UNCHANGED vars
  BY <1>1, StatesOnly, Zenon DEF vars, table_vars, Inv, TypeOK
<1>2. CASE call
  BY <1>2, CallInv
<1>3. CASE scheduler_tick
  BY <1>3, TickInv
<1>4. CASE proc_create
  BY <1>4, AllocStackInv, AllocDirInv, SlotStepInv, Zenon DEF proc_create
<1>5. QED
  BY <1>1, <1>2, <1>3, <1>4 DEF Next

(* Whatever ticks interrupt it and whatever creations fail, a process that *)
(* proc_create returned has its own pid, page directory and registers.     *)
THEOREM SchedulerIntact == Spec => []CreatedIntact
<1>1. Inv => CreatedIntact
  BY Zenon DEF Inv, CreatedIntact, ContextsOK, DirsOK
<1>2. QED
  BY <1>1, InitInv, NextInv, PTL DEF Spec

(* "Out of memory" is reported when no page is free and on the first call, *)
(* which is given page 0, and never otherwise.                             *)
THEOREM SchedulerFailures == Spec => []FailsOnlyFirstOrFull
<1>1. Inv => FailsOnlyFirstOrFull
  BY Zenon DEF Inv, FailuresOK, FailsOnlyFirstOrFull
<1>2. QED
  BY <1>1, InitInv, NextInv, PTL DEF Spec

(* No step of the table or of the scheduler brings a terminated process    *)
(* back: a tick only makes process 0 and a ready process run.              *)
THEOREM SchedulerZombies == Spec => ZombiesStay
<1>1. ASSUME Inv, [Next]_vars
      PROVE  [\A i \in Created : state[i] = ZOMBIE => state'[i] = ZOMBIE]_vars
  <2>. SUFFICES ASSUME Next, NEW i \in Created, state[i] = ZOMBIE
                PROVE  state'[i] = ZOMBIE
    BY <1>1
  <2>1. /\ state \in [Slots -> {READY, RUNNING, BLOCKED, ZOMBIE}]
        /\ i \in Slots /\ i # 0 /\ i # next_pid
    BY <1>1, SlotFacts, Zenon DEF Inv, TypeOK
  <2>2. CASE call
    BY <2>1, <2>2 DEF call, create_claim, proc_exit, proc_unblock, proc_block,
       proc_halt_all, vars, table_vars, current_process, BLOCKED, ZOMBIE
  <2>3. CASE scheduler_tick
    <3>1. NextProcess # i
      BY <2>1, NextProcessReady DEF READY, ZOMBIE
    <3>2. QED
      BY <2>1, <2>3, <3>1 DEF scheduler_tick, context_switch, proc_get_current,
         current_process
  <2>4. CASE proc_create
    <3>1. state' = state
      BY <2>4, Zenon DEF proc_create, create_fill, create_alloc_stack,
         create_alloc_dir, create_check, create_context, create_registers,
         create_publish, table_vars
    <3>2. QED
      BY <3>1
  <2>5. QED
    BY <2>2, <2>3, <2>4 DEF Next
<1>2. QED
  BY <1>1, InitInv, NextInv, PTL DEF Spec, ZombiesStay

(* The registers that context_switch chooses are set, but for those of the *)
(* process whose creation the tick interrupts right after kmalloc.         *)
THEOREM SchedulerUnset == Spec => UnsetOnlyInCreate
<1>1. ASSUME Inv, scheduler_tick, NeedsSwitch
      PROVE  \/ SwitchResult \in filled \cup {INTERRUPT}
             \/ pc = "registers" /\ NextProcess = next_pid
  <2>1. TypeOK /\ ContextsOK
    BY <1>1, Zenon DEF Inv
  <2>. DEFINE n == NextProcess
              saved == [context EXCEPT ![0] = INTERRUPT]
  <2>2. SwitchResult = IF saved[n] # NULL THEN saved[n] ELSE INTERRUPT
    BY DEF SwitchResult, proc_get_current, current_process
  <2>3. /\ n \in Slots /\ 0 \in Slots
        /\ n = 0 \/ n \in Created \/ n = next_pid \/ n > next_pid
    BY <2>1, NextProcessReady, SlotFacts, ProcessAssumption DEF Slots
  <2>4. saved[n] = IF n = 0 THEN INTERRUPT ELSE context[n]
    BY <2>1, <2>3 DEF TypeOK
  <2>. HIDE DEF n, saved
  <2>5. CASE n = 0 \/ n \in Created \/ n > next_pid
    BY <2>1, <2>2, <2>3, <2>4, <2>5 DEF ContextsOK
  <2>6. CASE n = next_pid
    BY <2>1, <2>2, <2>3, <2>4, <2>6 DEF ContextsOK, n
  <2>7. QED
    BY <2>3, <2>5, <2>6
<1>2. QED
  BY <1>1, InitInv, NextInv, PTL DEF Spec, UnsetOnlyInCreate

-----------------------------------------------------------------------------
(* How many ticks slot i can still be READY: the slots up to i that are to *)
(* be chosen first, each after a slice of process 0 and the tick that      *)
(* makes process 0 ready, and what is left of such a round.                *)
MaxWait(i) ==
    Cardinality(ReadySlots \cap 1 .. i) * (SCHEDULER_TIME_SLICE + 2)
      + IF state[0] = RUNNING THEN slice[0] ELSE SCHEDULER_TIME_SLICE + 1

(* Round robin with a bound: every tick brings a ready slot nearer to      *)
(* being chosen, though context_switch searches from slot 0 every time,    *)
(* and a creation that the ticks interrupt does not put it back.           *)
WaitShrinks ==
    [][\A i \in Slots : state[i] = READY =>
          /\ scheduler_tick => state'[i] # READY \/ MaxWait(i)' < MaxWait(i)
          /\ proc_create => MaxWait(i)' <= MaxWait(i)]_vars

(* "Find first ready process" finds the first one in the table. *)
LEMMA NextProcessFirst ==
    ASSUME NEW i \in ReadySlots
    PROVE  NextProcess \in ReadySlots /\ NextProcess <= i
<1>1. ReadySlots \in SUBSET Nat /\ ReadySlots # {}
  BY ProcessAssumption DEF ReadySlots, Slots
<1>2. Pm!Min(ReadySlots) \in ReadySlots /\ \A j \in ReadySlots : Pm!Min(ReadySlots) <= j
  BY <1>1, PmmHolds, Pm!NatMinimum, Zenon
<1>3. NextProcess = Pm!Min(ReadySlots)
  BY <1>1, Zenon DEF NextProcess, Pm!Min
<1>4. QED
  BY <1>2, <1>3

(* The ready slots that are to be chosen before slot i, and slot i. *)
Ahead(i) == ReadySlots \cap 1 .. i

LEMMA AheadFinite ==
    ASSUME NEW i \in Slots
    PROVE  IsFiniteSet(Ahead(i)) /\ Cardinality(Ahead(i)) \in Nat
<1>1. i \in Int /\ 1 \in Int
  BY ProcessAssumption DEF Slots
<1>2. IsFiniteSet(1 .. i)
  BY <1>1, FS_Interval, Zenon
<1>3. IsFiniteSet(Ahead(i))
  BY <1>2, FS_Subset, Zenon DEF Ahead
<1>4. QED
  BY <1>3, FS_CardinalityType

(* A tick at which slot i stays ready brings it nearer: it runs down the   *)
(* slice of process 0, gives it a new one, or chooses a slot before i.     *)
LEMMA TickNearer ==
    ASSUME TypeOK, scheduler_tick, NEW i \in Slots,
           state[i] = READY, state'[i] = READY
    PROVE  MaxWait(i)' < MaxWait(i)
<1>. DEFINE S == SCHEDULER_TIME_SLICE
            n == Cardinality(Ahead(i))
            m == Cardinality(Ahead(i)')
<1>1. /\ S \in Nat /\ i \in Nat /\ 0 \in Slots /\ Slots \subseteq Nat
      /\ slice \in [Slots -> 0 .. S] /\ slice[0] \in 0 .. S
      /\ state \in [Slots -> {READY, RUNNING, BLOCKED, ZOMBIE}]
  <2>1. /\ slice \in [Slots -> 0 .. S]
        /\ state \in [Slots -> {READY, RUNNING, BLOCKED, ZOMBIE}]
    BY Zenon DEF TypeOK
  <2>2. S \in Nat /\ i \in Nat /\ 0 \in Slots /\ Slots \subseteq Nat
    BY ProcessAssumption DEF Slots
  <2>3. QED
    BY <2>1, <2>2, Zenon
<1>2. /\ MaxWait(i) = n * (S + 2) + IF state[0] = RUNNING THEN slice[0] ELSE S + 1
      /\ MaxWait(i)' = m * (S + 2) + IF state'[0] = RUNNING THEN slice'[0] ELSE S + 1
  BY Zenon DEF MaxWait, Ahead
<1>3. n \in Nat
  BY AheadFinite
<1>4. Ticked = [slice EXCEPT ![0] = Decrement(slice[0])]
  BY DEF Ticked, proc_get_current, current_process
<1>5. CASE ~NeedsSwitch
  <2>1. state' = state /\ slice' = Ticked /\ Ticked[0] # 0 /\ state[0] = RUNNING
    BY <1>5, Zenon DEF scheduler_tick, NeedsSwitch, proc_get_current, current_process
  <2>2. m = n
    BY <2>1, Zenon DEF Ahead, ReadySlots
  <2>3. slice[0] > 0 /\ slice'[0] = slice[0] - 1
    BY <1>1, <1>4, <2>1 DEF Decrement
  <2>. HIDE DEF n, m, S
  <2>4. PICK k : k = n * (S + 2)
    OBVIOUS
  <2>5. k \in Nat
    BY <1>1, <1>3, <2>4
  <2>6. QED
    BY <1>1, <1>2, <2>1, <2>2, <2>3, <2>4, <2>5
<1>6. CASE NeedsSwitch
  <2>1. /\ state' = [state EXCEPT ![0] = READY, ![NextProcess] = RUNNING]
        /\ slice' = [Ticked EXCEPT ![NextProcess] = S]
    BY <1>6, Zenon DEF scheduler_tick, context_switch, proc_get_current, current_process
  <2>2. NextProcess \in ReadySlots /\ NextProcess <= i /\ NextProcess \in Slots
    BY NextProcessFirst, NextProcessReady DEF ReadySlots
  <2>3. CASE state[0] = READY
    <3>1. NextProcess = 0
      <4>1. 0 \in ReadySlots
        BY <1>1, <2>3 DEF ReadySlots
      <4>2. NextProcess <= 0 /\ NextProcess \in Nat
        BY <1>1, <2>2, <4>1, NextProcessFirst
      <4>3. QED
        BY <4>2
    <3>2. /\ state'[0] = RUNNING /\ slice'[0] = S
          /\ \A j \in Slots \ {0} : state'[j] = state[j]
      BY <1>1, <1>4, <2>1, <3>1
    <3>3. m = n
      <4>1. Ahead(i)' = Ahead(i)
        BY <3>2 DEF Ahead, ReadySlots
      <4>2. QED
        BY <4>1
    <3>. HIDE DEF n, m, S
    <3>4. PICK k : k = n * (S + 2)
      OBVIOUS
    <3>5. k \in Nat
      BY <1>1, <1>3, <3>4
    <3>6. state[0] # RUNNING
      BY <2>3 DEF READY, RUNNING
    <3>7. QED
      BY <1>1, <1>2, <3>2, <3>3, <3>4, <3>5, <3>6
  <2>4. CASE state[0] # READY
    <3>1. NextProcess \in Ahead(i)
      BY <1>1, <2>2, <2>4 DEF Ahead, ReadySlots
    <3>2. NextProcess # 0
      BY <3>1 DEF Ahead
    <3>3. /\ state'[0] = READY /\ state'[NextProcess] = RUNNING
          /\ \A j \in Slots \ {0, NextProcess} : state'[j] = state[j]
      BY <1>1, <2>1, <2>2, <3>2
    <3>4. Ahead(i)' = Ahead(i) \ {NextProcess}
      BY <3>3 DEF Ahead, ReadySlots, READY, RUNNING
    <3>5. m = n - 1
      BY <3>1, <3>4, AheadFinite, FS_RemoveElement, Zenon
    <3>. HIDE DEF n, m, S
    <3>6. PICK k : k = m * (S + 2)
      OBVIOUS
    <3>7. n > 0 /\ m \in Nat
      <4>1. n # 0
        BY <3>1, AheadFinite, FS_EmptySet, Zenon DEF n
      <4>2. QED
        BY <1>3, <3>5, <4>1
    <3>8. k \in Nat /\ n * (S + 2) = k + (S + 2)
      BY <1>1, <1>3, <3>5, <3>6, <3>7
    <3>9. state'[0] # RUNNING
      BY <3>3 DEF READY, RUNNING
    <3>10. QED
      BY <1>1, <1>2, <3>6, <3>8, <3>9
  <2>5. QED
    BY <2>3, <2>4
<1>7. QED
  BY <1>5, <1>6

(* Every tick brings a ready slot nearer to being chosen and no step of a  *)
(* creation puts it back: with n slots ready before it and a slice of s    *)
(* ticks, it waits for at most MaxWait ticks, which is linear in both.     *)
THEOREM SchedulerWait == Spec => WaitShrinks
<1>. DEFINE nearer == \A i \in Slots : state[i] = READY =>
                /\ scheduler_tick => state'[i] # READY \/ MaxWait(i)' < MaxWait(i)
                /\ proc_create => MaxWait(i)' <= MaxWait(i)
<1>1. ASSUME Inv, [Next]_vars PROVE nearer
  <2>. SUFFICES ASSUME NEW i \in Slots, state[i] = READY
                PROVE  /\ scheduler_tick =>
                              state'[i] # READY \/ MaxWait(i)' < MaxWait(i)
                       /\ proc_create => MaxWait(i)' <= MaxWait(i)
    OBVIOUS
  <2>1. TypeOK
    BY <1>1, Zenon DEF Inv
  <2>2. ASSUME proc_create PROVE MaxWait(i)' <= MaxWait(i)
    <3>1. state' = state
      BY <2>2, Zenon DEF proc_create, create_fill, create_alloc_stack,
         create_alloc_dir, create_check, create_context, create_registers,
         create_publish, table_vars
    <3>2. slice'[0] = slice[0]
      <4>1. slice' = slice \/ slice' = [slice EXCEPT ![next_pid] = SCHEDULER_TIME_SLICE]
        BY <2>2, Zenon DEF proc_create, create_fill, create_alloc_stack,
           create_alloc_dir, create_check, create_context, create_registers,
           create_publish, table_vars
      <4>2. slice \in [Slots -> 0 .. SCHEDULER_TIME_SLICE] /\ next_pid \in 1 .. MAX_PROCESSES
        BY <2>1, Zenon DEF TypeOK
      <4>3. 0 \in Slots /\ next_pid # 0
        BY <4>2, ProcessAssumption DEF Slots
      <4>4. QED
        BY <4>1, <4>2, <4>3
    <3>3. MaxWait(i)' = MaxWait(i)
      BY <3>1, <3>2, Zenon DEF MaxWait, ReadySlots
    <3>4. MaxWait(i) \in Int
      <4>. DEFINE n == Cardinality(Ahead(i))
      <4>1. n \in Nat
        BY AheadFinite
      <4>2. MaxWait(i) = n * (SCHEDULER_TIME_SLICE + 2)
              + IF state[0] = RUNNING THEN slice[0] ELSE SCHEDULER_TIME_SLICE + 1
        BY Zenon DEF MaxWait, Ahead
      <4>. HIDE DEF n
      <4>3. slice[0] \in Nat /\ SCHEDULER_TIME_SLICE \in Nat
        BY <2>1, ProcessAssumption DEF TypeOK, Slots
      <4>4. QED
        BY <4>1, <4>2, <4>3
    <3>5. QED
      BY <3>3, <3>4
  <2>3. QED
    BY <2>1, <2>2, TickNearer
<1>2. QED
  BY <1>1, InitInv, NextInv, PTL DEF Spec, WaitShrinks
=============================================================================
