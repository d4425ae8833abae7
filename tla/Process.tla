------------------------------ MODULE Process -------------------------------
(***************************************************************************)
(* Process management, src/kernel/proc/process.c: the process table and    *)
(* the operations on it, over the physical memory manager (the module Pmm, *)
(* its variables and its pmm_alloc).                                       *)
(*                                                                         *)
(* The operations run in the one thread that the kernel has, with          *)
(* interrupts enabled, so proc_create is split at the places where a timer *)
(* interrupt can see a difference.  A field of pcb_t that no code reads    *)
(* (parent_pid, priority, the stacks, total_runtime, blocked_on) is left   *)
(* out.  A context is a number: NULL, the registers an interrupt saved on  *)
(* the stack, or the n-th block that kmalloc returned; proc_create is the  *)
(* only caller of kmalloc and nothing calls kfree, so the heap is a        *)
(* counter with a limit here (the module Heap models it).                  *)
(***************************************************************************)
EXTENDS Integers, FiniteSets

CONSTANTS MAX_PROCESSES,          \* 256 in process.h
          SCHEDULER_TIME_SLICE,   \* 10 in process.h
          HeapContexts,           \* how many contexts fit in the heap
          TotalPages, CounterMod  \* the physical memory manager's

ASSUME ProcessAssumption ==
    /\ MAX_PROCESSES \in Nat \ {0}
    /\ SCHEDULER_TIME_SLICE \in Nat \ {0}
    /\ HeapContexts \in Nat
    /\ TotalPages \in Nat \ {0}
    /\ CounterMod \in Nat /\ TotalPages < CounterMod

VARIABLES pid, state, context, page_dir, slice,   \* process_table, by field
          next_pid,
          pc,                     \* where proc_create is, or "idle"
          stack_phys, pd_phys,    \* proc_create's locals
          contexts,               \* contexts kmalloc has returned
          filled,                 \* the contexts whose registers are set
          halted,                 \* proc_halt_all stopped the machine
          bitmap, allocated_pages, held

table_vars == <<pid, state, context, page_dir, slice>>
local_vars == <<pc, stack_phys, pd_phys>>
heap_vars  == <<contexts, filled>>
pmm_vars   == <<bitmap, allocated_pages, held>>
vars == <<table_vars, next_pid, local_vars, heap_vars, halted, pmm_vars>>

Memory == INSTANCE Pmm WITH Callers <- {"proc_create"}, StrayAddrs <- {}

Slots     == 0 .. MAX_PROCESSES - 1
READY     == "READY"
RUNNING   == "RUNNING"
BLOCKED   == "BLOCKED"
ZOMBIE    == "ZOMBIE"
NULL      == 0
INTERRUPT == -1                   \* registers saved by an interrupt

(* Nothing assigns current_process after proc_init, nor current_pid.       *)
current_process == 0
proc_get_current == current_process

(* kmain: pmm_init, then proc_init.  time_slice_remaining and the other    *)
(* fields proc_init leaves alone are zero, like every static variable.     *)
(* The heap may already hold some blocks, or be full.                      *)
Init ==
    /\ Memory!Init
    /\ pid = [i \in Slots |-> 0]
    /\ state = [i \in Slots |-> IF i = 0 THEN RUNNING ELSE READY]
    /\ context = [i \in Slots |-> NULL]
    /\ page_dir = [i \in Slots |-> 0]
    /\ slice = [i \in Slots |-> 0]
    /\ next_pid = 1
    /\ pc = "idle" /\ stack_phys = 0 /\ pd_phys = 0
    /\ contexts \in 0 .. HeapContexts /\ filled = {}
    /\ halted = FALSE
-----------------------------------------------------------------------------
(* proc_create *)

(* "No more PIDs", or claim the slot: pid and state. *)
create_claim ==
    /\ pc = "idle" /\ ~halted
    /\ \/ /\ next_pid >= MAX_PROCESSES
          /\ UNCHANGED vars
       \/ /\ next_pid < MAX_PROCESSES
          /\ pid' = [pid EXCEPT ![next_pid] = next_pid]
          /\ state' = [state EXCEPT ![next_pid] = READY]
          /\ pc' = "fill"
          /\ UNCHANGED <<context, page_dir, slice, next_pid, stack_phys, pd_phys,
                         heap_vars, halted, pmm_vars>>

create_fill ==
    /\ pc = "fill"
    /\ slice' = [slice EXCEPT ![next_pid] = SCHEDULER_TIME_SLICE]
    /\ pc' = "alloc_stack"
    /\ UNCHANGED <<pid, state, context, page_dir, next_pid, stack_phys, pd_phys,
                   heap_vars, halted, pmm_vars>>

create_alloc_stack ==
    /\ pc = "alloc_stack"
    /\ stack_phys' = Memory!AllocResult
    /\ Memory!pmm_alloc("proc_create")
    /\ pc' = "alloc_dir"
    /\ UNCHANGED <<table_vars, next_pid, pd_phys, heap_vars, halted>>

create_alloc_dir ==
    /\ pc = "alloc_dir"
    /\ pd_phys' = Memory!AllocResult
    /\ Memory!pmm_alloc("proc_create")
    /\ pc' = "check"
    /\ UNCHANGED <<table_vars, next_pid, stack_phys, heap_vars, halted>>

(* Mutant: the second test is inverted. *)
Allocated_inverted == stack_phys # 0 /\ pd_phys = 0

Allocated == stack_phys # 0 /\ pd_phys # 0

(* "Out of memory", with nothing given back; or record the page directory. *)
create_check ==
    /\ pc = "check"
    /\ \/ /\ ~Allocated
          /\ pc' = "idle" /\ UNCHANGED page_dir
       \/ /\ Allocated
          /\ page_dir' = [page_dir EXCEPT ![next_pid] = pd_phys]
          /\ pc' = "context"
    /\ UNCHANGED <<pid, state, context, slice, next_pid, stack_phys, pd_phys,
                   heap_vars, halted, pmm_vars>>

create_context ==
    /\ pc = "context"
    /\ \/ /\ contexts = HeapContexts
          /\ context' = [context EXCEPT ![next_pid] = NULL]
          /\ pc' = "idle" /\ UNCHANGED contexts
       \/ /\ contexts < HeapContexts
          /\ contexts' = contexts + 1
          /\ context' = [context EXCEPT ![next_pid] = contexts']
          /\ pc' = "registers"
    /\ UNCHANGED <<pid, state, page_dir, slice, next_pid, stack_phys, pd_phys,
                   filled, halted, pmm_vars>>

create_registers ==
    /\ pc = "registers"
    /\ filled' = filled \cup {context[next_pid]}
    /\ pc' = "publish"
    /\ UNCHANGED <<table_vars, next_pid, stack_phys, pd_phys, contexts, halted, pmm_vars>>

(* The process exists from here on. *)
create_publish ==
    /\ pc = "publish"
    /\ next_pid' = next_pid + 1
    /\ pc' = "idle"
    /\ UNCHANGED <<table_vars, stack_phys, pd_phys, heap_vars, halted, pmm_vars>>

proc_create ==
    \/ create_fill \/ create_alloc_stack \/ create_alloc_dir \/ create_check
    \/ create_context \/ create_registers \/ create_publish
-----------------------------------------------------------------------------
(* Only the state changes: neither the frames nor the context are freed.   *)
(* A pid outside the table is refused by proc_exit and proc_unblock.       *)
proc_exit(p) ==
    /\ pc = "idle" /\ ~halted
    /\ state' = IF p \in Slots THEN [state EXCEPT ![p] = ZOMBIE] ELSE state
    /\ UNCHANGED <<pid, context, page_dir, slice, next_pid, local_vars,
                   heap_vars, halted, pmm_vars>>

proc_block ==
    /\ pc = "idle" /\ ~halted
    /\ state' = [state EXCEPT ![current_process] = BLOCKED]
    /\ UNCHANGED <<pid, context, page_dir, slice, next_pid, local_vars,
                   heap_vars, halted, pmm_vars>>

(* Mutant: any process is made ready, blocked or not. *)
proc_unblock_any(p) ==
    /\ pc = "idle" /\ ~halted
    /\ state' = IF p \in Slots THEN [state EXCEPT ![p] = READY] ELSE state
    /\ UNCHANGED <<pid, context, page_dir, slice, next_pid, local_vars,
                   heap_vars, halted, pmm_vars>>

proc_unblock(p) ==
    /\ pc = "idle" /\ ~halted
    /\ state' = IF p \in Slots /\ state[p] = BLOCKED
                THEN [state EXCEPT ![p] = READY] ELSE state
    /\ UNCHANGED <<pid, context, page_dir, slice, next_pid, local_vars,
                   heap_vars, halted, pmm_vars>>

(* Interrupts are disabled first: nothing happens any more. *)
proc_halt_all ==
    /\ pc = "idle" /\ ~halted
    /\ halted' = TRUE
    /\ state' = [i \in Slots |-> ZOMBIE]
    /\ UNCHANGED <<pid, context, page_dir, slice, next_pid, local_vars,
                   heap_vars, pmm_vars>>

(* A call of the process interface; proc_create's call is create_claim.    *)
call ==
    \/ create_claim
    \/ \E p \in 0 .. MAX_PROCESSES : proc_exit(p) \/ proc_unblock(p)
    \/ proc_block
    \/ proc_halt_all
=============================================================================
