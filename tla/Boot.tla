-------------------------------- MODULE Boot --------------------------------
(***************************************************************************)
(* From _start of src/boot/boot.asm through kmain of src/kernel/kernel.c   *)
(* to the running shell, with the interrupts of the timer and the other    *)
(* devices: the initialization routines in kmain's order, and what they do *)
(* to the state that components share (segments, gates and handlers, the   *)
(* controllers' masks, address translation, the memory below 16 MB).       *)
(*                                                                         *)
(* Addresses are page numbers.  What the handlers do inside the scheduler  *)
(* and the keyboard driver is in the modules Scheduler and Keyboard.       *)
(*                                                                         *)
(* As the code stands it never gets far: the image's load address is not   *)
(* memory (linker.ld:13), and gdt_flush_asm faults on the descriptors that *)
(* gdt_set_entry wrote.  Two constants say which of these two documented   *)
(* promises is taken to be kept, so that what comes after can be checked   *)
(* under that condition; FALSE is the code as it is.                       *)
(***************************************************************************)
EXTENDS Interrupts, Gdt, Sequences

CONSTANTS Lines,         \* the lines devices raise
          DriverLines,   \* the lines a driver enables and disables
          FirmwareBases, \* the vectors the firmware left in the controllers
          LoadedAsLinked,    \* the loader puts the image at 1 MB, as linker.ld:2 says
          GdtAsDocumented    \* the segments are what gdt.h:69 says

ASSUME BootAssumption ==
    /\ 0 \in Lines /\ Lines \subseteq (0 .. 7) \ {CASCADE}
    /\ DriverLines \subseteq (1 .. 15) \ {CASCADE}
    /\ FirmwareBases \subseteq {v \in Vectors : v % 8 = 0} \X {v \in Vectors : v % 8 = 0}
    /\ LoadedAsLinked \in BOOLEAN /\ GdtAsDocumented \in BOOLEAN

VARIABLES pc,               \* which of Calls is next, HALTED or REBOOTED
          gdt,
          page_directory,   \* directory index -> kernel page table; empty: no paging
          dirty,            \* the frames that do not hold zeros
          current_process,  \* proc_init has set it
          enabled           \* the lines whose last call was irq_enable

boot_vars == <<pc, gdt, page_directory, dirty, current_process, enabled>>
vars == <<intr_vars, boot_vars>>

(* Mutant: the scheduler is started, with interrupts, before proc_init. *)
Calls_early ==
    << "vga_init", "gdt_init", "idt_init", "pmm_init", "vmm_init", "heap_init",
       "interrupts_enable", "scheduler_init", "proc_init", "kbd_init", "serial_init",
       "shell_init", "shell_run" >>

(* kmain. *)
Calls ==
    << "vga_init", "gdt_init", "idt_init", "pmm_init", "vmm_init", "heap_init",
       "proc_init", "scheduler_init", "kbd_init", "serial_init", "shell_init",
       "interrupts_enable", "shell_run" >>

HALTED   == 0
REBOOTED == Len(Calls) + 1
-----------------------------------------------------------------------------
(* Memory: 128 MB, the kernel's image (up to 256 KB) linked at 1 MB.  The  *)
(* page number of KERNEL_VIRT_BASE is 0xC0000 = 786432.                    *)
KERNEL_VIRT_BASE == 786432
RAM          == 0 .. 32767
Image        == 256 .. 319
VgaPage      == 184
HeapPages    == {KERNEL_VIRT_BASE + 256 + i : i \in 0 .. 2047}
StackPages   == {KERNEL_VIRT_BASE + 768 + pid : pid \in 1 .. 255}

(* One bit for each of the 32768 pages: the bitmap is one page. *)
BitmapPage == KERNEL_VIRT_BASE + 512

(* AT(ADDR(.text) - 0xC0000000), in 32 bits: 0x40100000 for 0x100000.  The *)
(* frames that hold the image are those that the loader finds memory at.   *)
load_address(p) == (p - KERNEL_VIRT_BASE) % 1048576
Loaded == RAM \cap IF LoadedAsLinked THEN Image ELSE {load_address(p) : p \in Image}

Paging    == page_directory # <<>>
Mapped(p) == ~Paging \/ p \div 1024 \in DOMAIN page_directory
Frame(p)  == IF Paging THEN (page_directory[p \div 1024] * 1024) + (p % 1024) ELSE p
-----------------------------------------------------------------------------
(* _start: interrupts off; the firmware's controllers and memory.  Where   *)
(* the image is not, there is nothing to run.                              *)
Init ==
    /\ idt = {} /\ interrupt_handlers = [v \in Vectors |-> "none"]
    /\ \E base \in FirmwareBases :
         pic = [master |-> Chip(base[1]), slave |-> Chip(base[2])]
    /\ interrupts = FALSE /\ cpu = IF Image \subseteq Loaded THEN "thread" ELSE "reset"
    /\ pc = 1
    /\ gdt = EmptyGdt /\ page_directory = <<>>
    /\ dirty \in {Loaded, Loaded \cup {512}}
    /\ current_process = FALSE /\ enabled = {}

(* Mutant: a routine returns 0 on success, as the headers document. *)
init_result_zero(call) == IF call = "scheduler_init" THEN 0 ELSE 1

(* Every routine returns 1; kmain halts on 0. *)
init_result(call) == 1

At(call) == cpu = "thread" /\ pc \in DOMAIN Calls /\ Calls[pc] = call
Done(call) == At(call) /\ pc' = IF init_result(call) # 0 THEN pc + 1 ELSE HALTED

(* gdt_flush_asm jumps to selector 0x08 and loads 0x10 into the others.  A *)
(* fault there finds no gate: the machine resets and kmain never goes on.  *)
call_gdt_init ==
    /\ Done("gdt_init")
    /\ gdt' = IF GdtAsDocumented THEN Documented(gdt_init_table) ELSE gdt_init_table
    /\ cpu' = IF IsSegment(gdt'[1]) /\ IsSegment(gdt'[2]) THEN cpu ELSE "reset"
    /\ UNCHANGED <<idt, interrupt_handlers, pic, interrupts, page_directory, dirty,
                   current_process, enabled>>

call_idt_init ==
    /\ Done("idt_init") /\ idt_init
    /\ UNCHANGED <<interrupts, cpu, gdt, page_directory, dirty, current_process, enabled>>

(* The bitmap's address is not translated yet: its frame is not RAM, and   *)
(* the zeros written there are lost.                                       *)
call_pmm_init ==
    /\ Done("pmm_init") /\ dirty' = dirty \ {Frame(BitmapPage)}
    /\ UNCHANGED <<intr_vars, gdt, page_directory, current_process, enabled>>

(* Mutant: the upper half starts one directory entry too late. *)
vmm_directory_late == [d \in (0 .. 3) \cup (769 .. 772) |-> IF d < 4 THEN d ELSE d - 769]

(* The four kernel page tables map the first 16 MB, twice. *)
vmm_directory == [d \in (0 .. 3) \cup (768 .. 771) |-> IF d < 4 THEN d ELSE d - 768]

call_vmm_init ==
    /\ Done("vmm_init") /\ page_directory' = vmm_directory
    /\ UNCHANGED <<intr_vars, gdt, dirty, current_process, enabled>>

call_proc_init ==
    /\ Done("proc_init") /\ current_process' = TRUE
    /\ UNCHANGED <<intr_vars, gdt, page_directory, dirty, enabled>>

enable(irq) == irq_enable(irq) /\ enabled' = enabled \cup {irq}

(* The timer is programmed to run at 100 Hz. *)
call_scheduler_init ==
    /\ Done("scheduler_init")
    /\ idt_register_handler(32, "scheduler_tick") /\ enable(0)
    /\ UNCHANGED <<idt, interrupts, cpu, gdt, page_directory, dirty, current_process>>

call_kbd_init ==
    /\ Done("kbd_init")
    /\ idt_register_handler(33, "kbd_interrupt_handler") /\ enable(1)
    /\ UNCHANGED <<idt, interrupts, cpu, gdt, page_directory, dirty, current_process>>

call_interrupts_enable ==
    /\ Done("interrupts_enable") /\ interrupts_enable
    /\ UNCHANGED <<idt, interrupt_handlers, pic, cpu, gdt, page_directory, dirty,
                   current_process, enabled>>

(* Routines whose state is in a module of its own. *)
call_other ==
    /\ \E call \in {"vga_init", "heap_init", "serial_init", "shell_init"} : Done(call)
    /\ UNCHANGED <<intr_vars, gdt, page_directory, dirty, current_process, enabled>>

kmain ==
    \/ call_gdt_init \/ call_idt_init \/ call_pmm_init \/ call_vmm_init
    \/ call_proc_init \/ call_scheduler_init \/ call_kbd_init
    \/ call_interrupts_enable \/ call_other

(* The shell runs: a driver sets the masks, or cmd_reboot stops all. *)
driver_enable(irq) ==
    /\ At("shell_run") /\ enable(irq)
    /\ UNCHANGED <<idt, interrupt_handlers, interrupts, cpu, pc, gdt, page_directory,
                   dirty, current_process>>

driver_disable(irq) ==
    /\ At("shell_run") /\ irq_disable(irq) /\ enabled' = enabled \ {irq}
    /\ UNCHANGED <<idt, interrupt_handlers, interrupts, cpu, pc, gdt, page_directory,
                   dirty, current_process>>

cmd_reboot ==
    /\ At("shell_run") /\ interrupts_disable /\ pc' = REBOOTED
    /\ UNCHANGED <<idt, interrupt_handlers, pic, cpu, gdt, page_directory, dirty,
                   current_process, enabled>>
-----------------------------------------------------------------------------
(* scheduler_tick: without a current process it returns before the EOI. *)
scheduler_tick        == iret("scheduler_tick", current_process)
kbd_interrupt_handler == iret("kbd_interrupt_handler", TRUE)
handlers == (scheduler_tick \/ kbd_interrupt_handler) /\ UNCHANGED boot_vars

raise(n) == request(n) /\ UNCHANGED boot_vars
take     == accept /\ UNCHANGED boot_vars

Next ==
    \/ kmain
    \/ \E irq \in DriverLines : driver_enable(irq) \/ driver_disable(irq)
    \/ cmd_reboot
    \/ handlers
    \/ \E n \in Lines : raise(n)
    \/ take

(* The processor goes on, the timer keeps ticking, and an interrupt that   *)
(* stays offered is taken.                                                 *)
Spec ==
    /\ Init /\ [][Next]_vars
    /\ WF_vars(kmain) /\ WF_vars(handlers) /\ WF_vars(raise(0)) /\ WF_vars(take)
-----------------------------------------------------------------------------
(* Whenever the thread runs, every interrupt has been ended: a line left   *)
(* in service would block itself and all lines below it for ever.  The     *)
(* early return of scheduler_tick (scheduler.c:57) would leave one, were   *)
(* interrupts enabled before proc_init.                                    *)
NothingLeftInService ==
    /\ cpu \in {"thread", "scheduler_tick", "kbd_interrupt_handler"} \cup Spinning
    /\ cpu = "thread" => pic.master.isr = {}

(* From idt_init on a line is unmasked exactly when the last call about it *)
(* was irq_enable, whatever was done to the lines of both controllers.     *)
MaskMatchesRequests ==
    idt # {} =>
        \A irq \in 0 .. 15 :
            LET chip == IF irq < 8 THEN pic.master ELSE pic.slave
            IN  irq \in enabled <=> irq % 8 \notin chip.imr

AtShell == pc \in DOMAIN Calls /\ Calls[pc] = "shell_run"

(* When the shell runs, every page that the kernel goes on to use, the     *)
(* heap, the bitmap, the process stacks, its own image and the screen, is  *)
(* mapped to memory, the image and the screen to themselves, although they *)
(* are placed by constants of four files (kernel.c:108, pmm.c:32,          *)
(* process.c:68, linker.ld:11) and mapped by a fifth (vmm.c:28-59); and    *)
(* the image is there, not cleared by pmm_init.  It does not say that the  *)
(* areas are apart, or that the bitmap is clear: in this code they overlap *)
(* and it need not be.                                                     *)
MemoryReady ==
    AtShell =>
        /\ \A p \in HeapPages \cup StackPages \cup {BitmapPage} :
              Mapped(p) /\ Frame(p) \in RAM
        /\ \A p \in Image \cup {VgaPage} : Mapped(p) /\ Frame(p) = p
        /\ Image \subseteq dirty

(* If the image is loaded where it is linked, the segments are what gdt.h  *)
(* documents and the firmware left the timer at vector 32, the scheduler   *)
(* ticks for ever, through every order of interrupts, key strokes and      *)
(* changes of masks, until the machine is rebooted.  Each condition is one *)
(* that the code does not bring about itself: linker.ld:13 gives another   *)
(* address, gdt.c:29 writes other segments (FlatSegments), and idt.c:88    *)
(* leaves the vectors as they are (IrqsReachHandlers).                     *)
TicksGoOn ==
    LoadedAsLinked /\ GdtAsDocumented /\ pic.master.base = 32
        => []<>(cpu = "scheduler_tick" \/ pc = REBOOTED)

(* The comment at idt.c:91, "Remap IRQ to vectors 32-47": an interrupt of  *)
(* a device reaches the handler registered for its line and is never taken *)
(* for an exception.                                                       *)
IrqsReachHandlers == cpu \notin Spinning

(* gdt.h:69, "All segments use flat 32-bit memory model starting at        *)
(* address 0": from gdt_init on the four segments are 32-bit segments of   *)
(* code or data from 0 to 4 GB.  They are not, and the jump at gdt.c:94    *)
(* that follows resets the machine.                                        *)
FlatSegments ==
    gdt # EmptyGdt =>
        \A i \in 1 .. 4 : /\ AtZero(gdt[i]) /\ Full(gdt[i])
                          /\ IsSegment(gdt[i]) /\ Pages(gdt[i]) /\ Is32Bit(gdt[i])
=============================================================================
