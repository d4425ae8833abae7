----------------------------- MODULE Scheduler ------------------------------
(***************************************************************************)
(* The scheduler, src/kernel/proc/scheduler.c: the timer interrupt and     *)
(* context_switch, over the process table of the module Process.           *)
(*                                                                         *)
(* The timer interrupt is one step (an interrupt gate) between any two     *)
(* steps of the thread.  scheduler_tick ignores what context_switch        *)
(* returns and the interrupt returns to where it came from, so the thread  *)
(* that runs is always the one that booted, process 0.                     *)
(***************************************************************************)
EXTENDS Process

ReadySlots == {i \in Slots : state[i] = READY}

(* Mutant: the search starts after the idle process. *)
NextProcess_skip ==
    LET ready == ReadySlots \ {0}
    IN  IF ready = {} THEN MAX_PROCESSES - 1
        ELSE CHOOSE i \in ready : \A j \in ready : i <= j

(* "Find first ready process", or the idle process if there is none. *)
NextProcess ==
    IF ReadySlots = {} THEN 0
    ELSE CHOOSE i \in ReadySlots : \A j \in ReadySlots : i <= j

(* Mutant: a context that was never allocated is not replaced. *)
SwitchResult_null ==
    LET saved == [context EXCEPT ![proc_get_current] = INTERRUPT]
    IN  saved[NextProcess]

(* What context_switch returns: the registers to go on with. *)
SwitchResult ==
    LET saved == [context EXCEPT ![proc_get_current] = INTERRUPT]
    IN  IF saved[NextProcess] # NULL THEN saved[NextProcess] ELSE INTERRUPT

(* Mutant: the registers are saved in the process that is chosen. *)
context_switch_saves_next(ticked) ==
    /\ state' = [state EXCEPT ![proc_get_current] = READY, ![NextProcess] = RUNNING]
    /\ context' = [context EXCEPT ![NextProcess] = INTERRUPT]
    /\ slice' = [ticked EXCEPT ![NextProcess] = SCHEDULER_TIME_SLICE]

(* "Switch states": the current process is made ready whatever its state.  *)
context_switch(ticked) ==
    /\ state' = [state EXCEPT ![proc_get_current] = READY, ![NextProcess] = RUNNING]
    /\ context' = [context EXCEPT ![proc_get_current] = INTERRUPT]
    /\ slice' = [ticked EXCEPT ![NextProcess] = SCHEDULER_TIME_SLICE]

Decrement(n) == IF n > 0 THEN n - 1 ELSE n

(* The time slice of the current process after this tick. *)
Ticked == [slice EXCEPT ![proc_get_current] = Decrement(@)]
NeedsSwitch == Ticked[proc_get_current] = 0 \/ state[proc_get_current] # RUNNING

scheduler_tick ==
    /\ ~halted
    /\ \/ /\ NeedsSwitch
          /\ context_switch(Ticked)
       \/ /\ ~NeedsSwitch
          /\ slice' = Ticked
          /\ UNCHANGED <<state, context>>
    /\ UNCHANGED <<pid, page_dir, next_pid, local_vars, heap_vars, halted, pmm_vars>>

Next == call \/ proc_create \/ scheduler_tick

(* The timer interrupts for ever and an interrupted proc_create goes on;   *)
(* nothing makes the kernel call the process interface.                    *)
Spec ==
    Init /\ [][Next]_vars /\ WF_vars(scheduler_tick) /\ WF_vars(proc_create)
-----------------------------------------------------------------------------
TypeOK ==
    /\ Memory!TypeOK
    /\ pid \in [Slots -> Slots]
    /\ state \in [Slots -> {READY, RUNNING, BLOCKED, ZOMBIE}]
    /\ context \in [Slots -> INTERRUPT .. HeapContexts]
    /\ page_dir \in [Slots -> Memory!Addrs]
    /\ slice \in [Slots -> 0 .. SCHEDULER_TIME_SLICE]
    /\ next_pid \in 1 .. MAX_PROCESSES
    /\ pc \in {"idle", "fill", "alloc_stack", "alloc_dir", "check",
               "context", "registers", "publish"}
    /\ pc # "idle" => next_pid < MAX_PROCESSES
    /\ stack_phys \in Memory!Addrs /\ pd_phys \in Memory!Addrs
    /\ contexts \in 0 .. HeapContexts /\ filled \subseteq 1 .. contexts
    /\ halted \in BOOLEAN

Created == 1 .. next_pid - 1             \* the processes there are
Frames  == held["proc_create"]           \* the frames proc_create took

(* A process that proc_create returned is complete, whatever timer ticks   *)
(* came in between and whatever creations failed before and after it: its  *)
(* slot is its pid, its page directory is a frame that is allocated and is *)
(* nobody else's, and its registers are set up and are its own.            *)
CreatedIntact ==
    /\ TypeOK
    /\ \A i \in Created :
        /\ pid[i] = i
        /\ page_dir[i] # 0 /\ page_dir[i] \in Frames
        /\ context[i] \in filled
        /\ \A j \in Created \ {i} :
              page_dir[j] # page_dir[i] /\ context[j] # context[i]

(* A terminated process stays terminated: neither a tick nor proc_unblock  *)
(* nor a creation in another slot brings it back (process 0, which the     *)
(* scheduler always takes for the current one, is the exception).          *)
ZombiesStay ==
    [][\A i \in Created : state[i] = ZOMBIE => state'[i] = ZOMBIE]_vars

(* A tick never chooses registers that are not set, with one exception:    *)
(* those of the process whose creation it interrupts, between the call of  *)
(* kmalloc and the assignments.  A creation that failed earlier leaves     *)
(* nothing behind that is chosen later.                                    *)
UnsetOnlyInCreate ==
    [][scheduler_tick /\ NeedsSwitch =>
          \/ SwitchResult \in filled \cup {INTERRUPT}
          \/ pc = "registers" /\ NextProcess = next_pid]_vars

(* proc_create reports "Out of memory" when no page is free, and once      *)
(* more: on its first call, which is given page 0.                         *)
FailsOnlyFirstOrFull ==
    pc = "check" /\ ~Allocated =>
        Memory!FreePages = {} \/ Memory!AllocatedPages = {0, 1}

(* Searching from slot 0 every time starves nobody, once the process       *)
(* interface is left alone: every ready slot is chosen after some ticks.   *)
ReadyGetsChosen ==
    <>[][~call]_vars =>
        \A i \in Slots : state[i] = READY ~> state[i] # READY
=============================================================================
