----------------------------- MODULE BootProofs -----------------------------
(***************************************************************************)
(* Proofs about kmain and the interrupts that come while it runs, for any  *)
(* lines that devices raise, any lines that drivers mask and unmask, and   *)
(* any vectors that the firmware left in the controllers.                  *)
(***************************************************************************)
EXTENDS Boot, TLAPS

ChipType == [base : Vectors, icw : {0}, imr : SUBSET (0 .. 7), irr : SUBSET (0 .. 7),
             isr : SUBSET (0 .. 7)]

(* No handler runs: the thread does, or the machine has been reset. *)
Idle == {"thread", "reset"}

Handlers == {"scheduler_tick", "kbd_interrupt_handler"} \cup Spinning

(* What kmain has done when it is about to make its next call: interrupts  *)
(* are enabled last, after the gates are set and a process exists.         *)
Progress ==
    /\ pc \in 1 .. 14
    /\ idt = IF pc > 3 THEN Gates ELSE {}
    /\ page_directory = IF pc > 5 THEN vmm_directory ELSE <<>>
    /\ pc > 7 => current_process = TRUE
    /\ ~(pc > 12) => interrupts = FALSE /\ cpu \in Idle
    /\ pc > 3 => interrupt_handlers \in [Vectors -> Handlers]
    /\ dirty \in {Loaded, Loaded \cup {512}}

(* The controllers are never initialized again, one line at most is in     *)
(* service, and it is while a handler runs.                                *)
Controllers ==
    /\ pic \in [master : ChipType, slave : ChipType]
    /\ \E b \in FirmwareBases : pic.master.base = b[1]
    /\ cpu = "thread" => pic.master.isr = {}
    /\ cpu \notin Idle => \E n \in 0 .. 7 : pic.master.isr = {n}

(* MaskMatchesRequests, for each controller. *)
Masks ==
    /\ enabled \subseteq 0 .. 15
    /\ pc > 3 => /\ \A n \in 0 .. 7 : n \in enabled <=> n \notin pic.master.imr
                 /\ \A n \in 0 .. 7 : n + 8 \in enabled <=> n \notin pic.slave.imr
    /\ ~(pc > 3) => enabled = {}

Inv == Progress /\ Controllers /\ Masks
-----------------------------------------------------------------------------
(* Which call is which in kmain. *)
LEMMA CallsAt ==
    /\ DOMAIN Calls = 1 .. 13 /\ Len(Calls) = 13
    /\ Calls[1] = "vga_init" /\ Calls[2] = "gdt_init" /\ Calls[3] = "idt_init"
    /\ Calls[4] = "pmm_init" /\ Calls[5] = "vmm_init" /\ Calls[6] = "heap_init"
    /\ Calls[7] = "proc_init" /\ Calls[8] = "scheduler_init" /\ Calls[9] = "kbd_init"
    /\ Calls[10] = "serial_init" /\ Calls[11] = "shell_init"
    /\ Calls[12] = "interrupts_enable" /\ Calls[13] = "shell_run"
BY DEF Calls

LEMMA PositionOf ==
    ASSUME NEW call, At(call)
    PROVE  /\ cpu = "thread" /\ pc \in 1 .. 13
           /\ call = "gdt_init" => pc = 2
           /\ call = "idt_init" => pc = 3
           /\ call = "pmm_init" => pc = 4
           /\ call = "vmm_init" => pc = 5
           /\ call = "proc_init" => pc = 7
           /\ call = "scheduler_init" => pc = 8
           /\ call = "kbd_init" => pc = 9
           /\ call = "interrupts_enable" => pc = 12
           /\ call = "shell_run" => pc = 13
           /\ call \in {"vga_init", "heap_init", "serial_init", "shell_init"}
                => pc \in {1, 6, 10, 11}
<1>1. cpu = "thread" /\ pc \in 1 .. 13 /\ Calls[pc] = call
  BY CallsAt DEF At
<1>2. \/ pc = 1 \/ pc = 2 \/ pc = 3 \/ pc = 4 \/ pc = 5 \/ pc = 6 \/ pc = 7
      \/ pc = 8 \/ pc = 9 \/ pc = 10 \/ pc = 11 \/ pc = 12 \/ pc = 13
  BY <1>1
<1>3. QED
  BY <1>1, <1>2, CallsAt

(* The bytes that pic_init and the handlers send. *)
LEMMA SentBytes ==
    /\ 4 \notin Bits(32) /\ Bits(255) = 0 .. 7
    /\ \A byte : Bits(byte) \in SUBSET (0 .. 7)
<1>1. /\ Weights[1] = 1 /\ Weights[2] = 2 /\ Weights[3] = 4 /\ Weights[4] = 8
      /\ Weights[5] = 16 /\ Weights[6] = 32 /\ Weights[7] = 64 /\ Weights[8] = 128
  BY DEF Weights
<1>2. 4 \notin Bits(32)
  BY <1>1 DEF Bits
<1>3. ASSUME NEW n \in 0 .. 7 PROVE (255 \div Weights[n + 1]) % 2 = 1
  <2>1. n = 0 \/ n = 1 \/ n = 2 \/ n = 3 \/ n = 4 \/ n = 5 \/ n = 6 \/ n = 7
    OBVIOUS
  <2>2. QED
    BY <1>1, <2>1
<1>4. Bits(255) = 0 .. 7
  BY <1>3, Zenon DEF Bits
<1>5. \A byte : Bits(byte) \in SUBSET (0 .. 7)
  BY Zenon DEF Bits
<1>6. QED
  BY <1>2, <1>4, <1>5

(* A controller that is not being initialized takes an EOI and masks. *)
LEMMA ChipCommand ==
    ASSUME NEW c \in ChipType
    PROVE  command(c, 32) = [c EXCEPT !.isr = @ \ First(@)] /\ command(c, 32) \in ChipType
<1>1. command(c, 32) = [c EXCEPT !.isr = @ \ First(@)]
  BY SentBytes, Zenon DEF command, EOI
<1>2. QED
  BY <1>1 DEF ChipType

LEMMA ChipData ==
    ASSUME NEW c \in ChipType, NEW byte
    PROVE  data(c, byte) = [c EXCEPT !.imr = Bits(byte)] /\ data(c, byte) \in ChipType
<1>1. c.icw = 0
  BY DEF ChipType
<1>2. data(c, byte) = [c EXCEPT !.imr = Bits(byte)]
  BY <1>1 DEF data
<1>3. QED
  BY <1>2, SentBytes DEF ChipType

PicType == [master : ChipType, slave : ChipType]

LEMMA OutCommand ==
    ASSUME NEW p \in PicType
    PROVE  /\ out(p, 32, 32) = [master |-> command(p.master, 32), slave |-> p.slave]
           /\ out(p, 160, 32) = [master |-> p.master, slave |-> command(p.slave, 32)]
           /\ out(p, 32, 32) \in PicType /\ out(p, 160, 32) \in PicType
<1>1. PICK m \in ChipType, s \in ChipType : p = [master |-> m, slave |-> s]
  BY DEF PicType
<1>2. out(p, 32, 32) = [master |-> command(m, 32), slave |-> s]
  <2>1. out(p, 32, 32) = [p EXCEPT !.master = command(p.master, 32)]
    BY DEF out
  <2>2. QED
    BY <1>1, <2>1
<1>3. out(p, 160, 32) = [master |-> m, slave |-> command(s, 32)]
  <2>1. out(p, 160, 32) = [p EXCEPT !.slave = command(p.slave, 32)]
    BY DEF out
  <2>2. QED
    BY <1>1, <2>1
<1>4. command(m, 32) \in ChipType /\ command(s, 32) \in ChipType
  BY ChipCommand
<1>5. p.master = m /\ p.slave = s
  BY <1>1
<1>6. QED
  BY <1>1, <1>2, <1>3, <1>4, <1>5 DEF PicType

LEMMA OutData ==
    ASSUME NEW p \in PicType, NEW byte
    PROVE  /\ out(p, 33, byte) = [master |-> data(p.master, byte), slave |-> p.slave]
           /\ out(p, 161, byte) = [master |-> p.master, slave |-> data(p.slave, byte)]
           /\ out(p, 33, byte) \in PicType /\ out(p, 161, byte) \in PicType
<1>1. PICK m \in ChipType, s \in ChipType : p = [master |-> m, slave |-> s]
  BY DEF PicType
<1>2. out(p, 33, byte) = [master |-> data(m, byte), slave |-> s]
  <2>1. out(p, 33, byte) = [p EXCEPT !.master = data(p.master, byte)]
    BY DEF out
  <2>2. QED
    BY <1>1, <2>1
<1>3. out(p, 161, byte) = [master |-> m, slave |-> data(s, byte)]
  <2>1. out(p, 161, byte) = [p EXCEPT !.slave = data(p.slave, byte)]
    BY DEF out
  <2>2. QED
    BY <1>1, <2>1
<1>4. data(m, byte) \in ChipType /\ data(s, byte) \in ChipType
  BY ChipData
<1>5. p.master = m /\ p.slave = s
  BY <1>1
<1>6. QED
  BY <1>1, <1>2, <1>3, <1>4, <1>5 DEF PicType

(* Two data bytes leave everything but the masks alone. *)
LEMMA OutBoth ==
    ASSUME NEW p \in PicType, NEW b, NEW c
    PROVE  LET q == out(out(p, 33, b), 161, c)
           IN  /\ q \in PicType
               /\ q.master.base = p.master.base /\ q.master.isr = p.master.isr
               /\ q.master.irr = p.master.irr
               /\ q.master.imr = Bits(b) /\ q.slave.imr = Bits(c)
<1>. DEFINE m == out(p, 33, b)
            q == out(m, 161, c)
<1>1. m \in PicType /\ m.master = data(p.master, b) /\ m.slave = p.slave
  BY OutData
<1>2. q \in PicType /\ q.master = m.master /\ q.slave = data(m.slave, c)
  <2>. HIDE DEF m
  <2>. QED
    BY <1>1, OutData
<1>. HIDE DEF m, q
<1>3. p.master \in ChipType /\ p.slave \in ChipType
  BY DEF PicType
<1>4. /\ data(p.master, b).base = p.master.base /\ data(p.master, b).isr = p.master.isr
      /\ data(p.master, b).irr = p.master.irr /\ data(p.master, b).imr = Bits(b)
      /\ data(p.slave, c).imr = Bits(c)
  BY <1>3, ChipData DEF ChipType
<1>5. QED
  BY <1>1, <1>2, <1>4 DEF m, q

(* pic_init masks every line and leaves the vectors where they were. *)
LEMMA PicInit ==
    ASSUME NEW p \in PicType
    PROVE  /\ pic_init(p) \in PicType
           /\ pic_init(p).master.base = p.master.base
           /\ p.master.isr = {} => pic_init(p).master.isr = {}
           /\ pic_init(p).master.imr = 0 .. 7 /\ pic_init(p).slave.imr = 0 .. 7
<1>. DEFINE p0 == out(p, 32, 32)
            p1 == pic_icw1(p)
            p2 == pic_icw2(p1)
            p3 == pic_icw3(p2)
            p4 == pic_icw4(p3)
            p5 == pic_ocw1(p4)
<1>1. pic_init(p) = p5
  BY Zenon DEF pic_init
<1>2. /\ p0 \in PicType /\ p0.master.base = p.master.base
      /\ p.master.isr = {} => p0.master.isr = {}
  BY OutCommand, ChipCommand DEF PicType, ChipType
<1>3. p1 = out(p0, 160, 32)
  BY DEF pic_icw1
<1>. HIDE DEF p0, p1
<1>4. p1 \in PicType /\ p1.master = p0.master
  <2>1. out(p0, 160, 32) = [master |-> p0.master, slave |-> command(p0.slave, 32)]
        /\ out(p0, 160, 32) \in PicType
    BY <1>2, OutCommand
  <2>2. QED
    BY <1>3, <2>1
<1>5. p2 \in PicType /\ p2.master.base = p1.master.base /\ p2.master.isr = p1.master.isr
  BY <1>4, OutBoth DEF pic_icw2
<1>. HIDE DEF p2
<1>6. p3 \in PicType /\ p3.master.base = p2.master.base /\ p3.master.isr = p2.master.isr
  BY <1>5, OutBoth DEF pic_icw3
<1>. HIDE DEF p3
<1>7. p4 \in PicType /\ p4.master.base = p3.master.base /\ p4.master.isr = p3.master.isr
  BY <1>6, OutBoth DEF pic_icw4
<1>. HIDE DEF p4
<1>8. /\ p5 \in PicType /\ p5.master.base = p4.master.base /\ p5.master.isr = p4.master.isr
      /\ p5.master.imr = Bits(255) /\ p5.slave.imr = Bits(255)
  BY <1>7, OutBoth DEF pic_ocw1
<1>. HIDE DEF p5
<1>9. QED
  BY <1>1, <1>2, <1>4, <1>5, <1>6, <1>7, <1>8, SentBytes
-----------------------------------------------------------------------------
LEMMA InitInv == Init => Inv
<1>. SUFFICES ASSUME Init PROVE Inv
  OBVIOUS
<1>1. Progress
  BY DEF Init, Progress, Idle
<1>2. PICK b \in FirmwareBases : pic = [master |-> Chip(b[1]), slave |-> Chip(b[2])]
  BY DEF Init
<1>3. b[1] \in Vectors /\ b[2] \in Vectors
  BY BootAssumption
<1>4. Chip(b[1]) \in ChipType /\ Chip(b[2]) \in ChipType
  BY <1>3 DEF Chip, ChipType
<1>5. pic.master.base = b[1] /\ pic.master.isr = {}
  BY <1>2 DEF Chip
<1>6. Controllers
  BY <1>2, <1>4, <1>5 DEF Controllers, Init, Idle
<1>7. Masks
  BY DEF Masks, Init
<1>8. QED
  BY <1>1, <1>6, <1>7 DEF Inv

(* A call that leaves the controllers and what kmain shares alone, but for *)
(* what Progress says about it.                                            *)
LEMMA QuietInv ==
    ASSUME Inv, Progress', UNCHANGED <<pic, cpu, enabled>>, pc > 3 <=> pc' > 3
    PROVE  Inv'
BY DEF Inv, Controllers, Masks

(* The next call of kmain, and that no routine fails. *)
LEMMA DoneAt ==
    ASSUME NEW call, Done(call)
    PROVE  At(call) /\ pc' = pc + 1
BY DEF Done, init_result

LEMMA PlainCallInv ==
    ASSUME Inv, call_other \/ call_interrupts_enable \/ call_proc_init
    PROVE  Inv'
<1>1. CASE call_other
  <2>1. UNCHANGED <<intr_vars, page_directory, dirty, current_process, enabled>>
    BY <1>1 DEF call_other
  <2>2. pc \in {1, 6, 10, 11} /\ pc' = pc + 1
    BY <1>1, DoneAt, PositionOf DEF call_other
  <2>3. Progress'
    BY <2>1, <2>2 DEF Inv, Progress, intr_vars
  <2>4. QED
    BY <2>1, <2>2, <2>3, QuietInv DEF intr_vars
<1>2. CASE call_interrupts_enable
  <2>1. UNCHANGED <<idt, interrupt_handlers, pic, cpu, page_directory, dirty, current_process,
                    enabled>>
    BY <1>2 DEF call_interrupts_enable
  <2>2. pc = 12 /\ pc' = 13
    BY <1>2, DoneAt, PositionOf DEF call_interrupts_enable
  <2>3. Progress'
    BY <2>1, <2>2 DEF Inv, Progress
  <2>4. QED
    BY <2>1, <2>2, <2>3, QuietInv
<1>3. CASE call_proc_init
  <2>1. current_process' = TRUE /\ UNCHANGED <<intr_vars, page_directory, dirty, enabled>>
    BY <1>3 DEF call_proc_init
  <2>2. pc = 7 /\ pc' = 8
    BY <1>3, DoneAt, PositionOf DEF call_proc_init
  <2>3. Progress'
    BY <2>1, <2>2 DEF Inv, Progress, intr_vars
  <2>4. QED
    BY <2>1, <2>2, <2>3, QuietInv DEF intr_vars
<1>4. QED
  BY <1>1, <1>2, <1>3

(* gdt_init returns or resets the machine, before anything is in service. *)
LEMMA GdtInitInv ==
    ASSUME Inv, call_gdt_init
    PROVE  Inv'
<1>1. /\ cpu' \in {cpu, "reset"}
      /\ UNCHANGED <<idt, interrupt_handlers, pic, interrupts, page_directory, dirty,
                     current_process, enabled>>
  BY DEF call_gdt_init
<1>2. pc = 2 /\ pc' = 3 /\ cpu = "thread"
  BY DoneAt, PositionOf DEF call_gdt_init
<1>3. cpu' \in Idle
  BY <1>1, <1>2 DEF Idle
<1>4. Progress'
  BY <1>1, <1>2, <1>3 DEF Inv, Progress
<1>5. Controllers'
  BY <1>1, <1>2, <1>3 DEF Inv, Controllers
<1>6. Masks'
  BY <1>1, <1>2 DEF Inv, Masks
<1>7. QED
  BY <1>4, <1>5, <1>6 DEF Inv

(* The zeros that pmm_init writes go to a frame that is not memory. *)
LEMMA MemoryCallInv ==
    ASSUME Inv, call_pmm_init \/ call_vmm_init
    PROVE  Inv'
<1>1. CASE call_pmm_init
  <2>1. /\ dirty' = dirty \ {Frame(BitmapPage)}
        /\ UNCHANGED <<intr_vars, page_directory, current_process, enabled>>
    BY <1>1 DEF call_pmm_init
  <2>2. pc = 4 /\ pc' = 5
    BY <1>1, DoneAt, PositionOf DEF call_pmm_init
  <2>3. Frame(BitmapPage) = BitmapPage
    BY <2>2 DEF Inv, Progress, Frame, Paging
  <2>4. BitmapPage \notin Loaded \cup {512}
    <3>1. BitmapPage \notin RAM /\ BitmapPage # 512
      BY DEF BitmapPage, KERNEL_VIRT_BASE, RAM
    <3>2. QED
      BY <3>1, Zenon DEF Loaded
  <2>5. dirty' = dirty
    BY <2>1, <2>3, <2>4 DEF Inv, Progress
  <2>6. Progress'
    BY <2>1, <2>2, <2>5 DEF Inv, Progress, intr_vars
  <2>7. QED
    BY <2>1, <2>2, <2>6, QuietInv DEF intr_vars
<1>2. CASE call_vmm_init
  <2>1. page_directory' = vmm_directory /\ UNCHANGED <<intr_vars, dirty, current_process, enabled>>
    BY <1>2 DEF call_vmm_init
  <2>2. pc = 5 /\ pc' = 6
    BY <1>2, DoneAt, PositionOf DEF call_vmm_init
  <2>3. Progress'
    BY <2>1, <2>2 DEF Inv, Progress, intr_vars
  <2>4. QED
    BY <2>1, <2>2, <2>3, QuietInv DEF intr_vars
<1>3. QED
  BY <1>1, <1>2

(* From idt_init on every line is masked and every vector has a handler. *)
LEMMA IdtInitInv ==
    ASSUME Inv, call_idt_init
    PROVE  Inv'
<1>1. /\ idt' = Gates /\ pic' = pic_init(pic)
      /\ interrupt_handlers' = [v \in Vectors |->
            IF v = INT_PAGE_FAULT THEN "isr_page_fault_handler" ELSE "isr_default_handler"]
      /\ UNCHANGED <<interrupts, cpu, page_directory, dirty, current_process, enabled>>
  BY DEF call_idt_init, idt_init
<1>2. pc = 3 /\ pc' = 4 /\ cpu = "thread"
  BY DoneAt, PositionOf DEF call_idt_init
<1>3. interrupt_handlers' \in [Vectors -> Handlers]
  BY <1>1 DEF Handlers, Spinning
<1>4. Progress'
  BY <1>1, <1>2, <1>3 DEF Inv, Progress
<1>5. pic \in PicType /\ pic.master.isr = {}
  BY <1>2 DEF Inv, Controllers, PicType
<1>6. /\ pic' \in PicType /\ pic'.master.base = pic.master.base /\ pic'.master.isr = {}
      /\ pic'.master.imr = 0 .. 7 /\ pic'.slave.imr = 0 .. 7
  BY <1>1, <1>5, PicInit
<1>7. Controllers'
  BY <1>1, <1>2, <1>6 DEF Inv, Controllers, PicType, Idle
<1>8. Masks'
  BY <1>1, <1>2, <1>6 DEF Inv, Masks
<1>9. QED
  BY <1>4, <1>7, <1>8 DEF Inv
-----------------------------------------------------------------------------
(* The masks after irq_enable and irq_disable. *)
LEMMA EnableMask ==
    ASSUME pic \in PicType, NEW irq \in 0 .. 15, irq_enable(irq)
    PROVE  /\ pic' \in PicType /\ pic'.master.base = pic.master.base
           /\ pic'.master.isr = pic.master.isr
           /\ irq < 8 => /\ pic'.slave = pic.slave
                         /\ pic'.master.imr = pic.master.imr \ {irq}
           /\ irq >= 8 => /\ pic'.master = pic.master
                          /\ pic'.slave.imr = pic.slave.imr \ {irq - 8}
<1>1. pic.master.imr \in SUBSET (0 .. 7) /\ pic.slave.imr \in SUBSET (0 .. 7)
  BY DEF PicType, ChipType
<1>2. CASE irq < 8
  <2>. DEFINE m == pic.master.imr \ {irq}
  <2>1. PortOf(irq).chip = "master" /\ PortOf(irq).bit = irq /\ {irq} \cap (0 .. 7) = {irq}
    <3>1. ~(irq >= 8) /\ irq \in 0 .. 7
      BY <1>2
    <3>2. PortOf(irq) = [chip |-> "master", bit |-> irq]
      BY <3>1 DEF PortOf
    <3>3. PortOf(irq).chip = "master" /\ PortOf(irq).bit = irq
      BY <3>2
    <3>4. {irq} \cap (0 .. 7) = {irq}
      BY <3>1, Zenon
    <3>5. QED
      BY <3>3, <3>4
  <2>2. pic' = [pic EXCEPT !.master.imr = m]
    BY <2>1, Zenon DEF irq_enable
  <2>3. m \in SUBSET (0 .. 7)
    BY <1>1, <1>2
  <2>. HIDE DEF m
  <2>4. /\ pic' \in PicType /\ pic'.master.base = pic.master.base
        /\ pic'.master.isr = pic.master.isr /\ pic'.master.imr = m /\ pic'.slave = pic.slave
    BY <2>2, <2>3 DEF PicType, ChipType
  <2>5. QED
    BY <1>2, <2>4 DEF m
<1>3. CASE irq >= 8
  <2>. DEFINE m == pic.slave.imr \ {irq - 8}
  <2>1. PortOf(irq).chip = "slave" /\ PortOf(irq).bit = irq - 8
        /\ {irq - 8} \cap (0 .. 7) = {irq - 8}
    <3>1. irq - 8 \in 0 .. 7
      BY <1>3
    <3>2. PortOf(irq) = [chip |-> "slave", bit |-> irq - 8]
      BY <1>3 DEF PortOf
    <3>3. PortOf(irq).chip = "slave" /\ PortOf(irq).bit = irq - 8
      BY <3>2
    <3>4. {irq - 8} \cap (0 .. 7) = {irq - 8}
      BY <3>1, Zenon
    <3>5. QED
      BY <3>3, <3>4
  <2>2. pic' = [pic EXCEPT !.slave.imr = m]
    BY <2>1, Zenon DEF irq_enable
  <2>3. m \in SUBSET (0 .. 7)
    BY <1>1, <1>3
  <2>. HIDE DEF m
  <2>4. pic' \in PicType /\ pic'.master = pic.master /\ pic'.slave.imr = m
    BY <2>2, <2>3 DEF PicType, ChipType
  <2>5. QED
    BY <1>3, <2>4 DEF m
<1>4. QED
  BY <1>2, <1>3

LEMMA DisableMask ==
    ASSUME pic \in PicType, NEW irq \in 0 .. 15, irq_disable(irq)
    PROVE  /\ pic' \in PicType /\ pic'.master.base = pic.master.base
           /\ pic'.master.isr = pic.master.isr
           /\ irq < 8 => /\ pic'.slave = pic.slave
                         /\ pic'.master.imr = pic.master.imr \cup {irq}
           /\ irq >= 8 => /\ pic'.master = pic.master
                          /\ pic'.slave.imr = pic.slave.imr \cup {irq - 8}
<1>1. pic.master.imr \in SUBSET (0 .. 7) /\ pic.slave.imr \in SUBSET (0 .. 7)
  BY DEF PicType, ChipType
<1>2. CASE irq < 8
  <2>. DEFINE m == pic.master.imr \cup {irq}
  <2>1. PortOf(irq).chip = "master" /\ PortOf(irq).bit = irq /\ {irq} \cap (0 .. 7) = {irq}
    <3>1. ~(irq >= 8) /\ irq \in 0 .. 7
      BY <1>2
    <3>2. PortOf(irq) = [chip |-> "master", bit |-> irq]
      BY <3>1 DEF PortOf
    <3>3. PortOf(irq).chip = "master" /\ PortOf(irq).bit = irq
      BY <3>2
    <3>4. {irq} \cap (0 .. 7) = {irq}
      BY <3>1, Zenon
    <3>5. QED
      BY <3>3, <3>4
  <2>2. pic' = [pic EXCEPT !.master.imr = m]
    BY <2>1, Zenon DEF irq_disable
  <2>3. m \in SUBSET (0 .. 7)
    BY <1>1, <1>2
  <2>. HIDE DEF m
  <2>4. /\ pic' \in PicType /\ pic'.master.base = pic.master.base
        /\ pic'.master.isr = pic.master.isr /\ pic'.master.imr = m /\ pic'.slave = pic.slave
    BY <2>2, <2>3 DEF PicType, ChipType
  <2>5. QED
    BY <1>2, <2>4 DEF m
<1>3. CASE irq >= 8
  <2>. DEFINE m == pic.slave.imr \cup {irq - 8}
  <2>1. PortOf(irq).chip = "slave" /\ PortOf(irq).bit = irq - 8
        /\ {irq - 8} \cap (0 .. 7) = {irq - 8}
    <3>1. irq - 8 \in 0 .. 7
      BY <1>3
    <3>2. PortOf(irq) = [chip |-> "slave", bit |-> irq - 8]
      BY <1>3 DEF PortOf
    <3>3. PortOf(irq).chip = "slave" /\ PortOf(irq).bit = irq - 8
      BY <3>2
    <3>4. {irq - 8} \cap (0 .. 7) = {irq - 8}
      BY <3>1, Zenon
    <3>5. QED
      BY <3>3, <3>4
  <2>2. pic' = [pic EXCEPT !.slave.imr = m]
    BY <2>1, Zenon DEF irq_disable
  <2>3. m \in SUBSET (0 .. 7)
    BY <1>1, <1>3
  <2>. HIDE DEF m
  <2>4. pic' \in PicType /\ pic'.master = pic.master /\ pic'.slave.imr = m
    BY <2>2, <2>3 DEF PicType, ChipType
  <2>5. QED
    BY <1>3, <2>4 DEF m
<1>4. QED
  BY <1>2, <1>3

(* A line that is enabled or disabled changes its own bit and no other, in *)
(* the right controller.                                                   *)
LEMMA LineInv ==
    ASSUME Inv, Progress', pc > 3, pc' > 3, cpu' = cpu, NEW irq \in 0 .. 15,
           \/ irq_enable(irq) /\ enabled' = enabled \cup {irq}
           \/ irq_disable(irq) /\ enabled' = enabled \ {irq}
    PROVE  Inv'
<1>1. pic \in PicType
  BY DEF Inv, Controllers, PicType
<1>. DEFINE on == enabled' = enabled \cup {irq}
            off == enabled' = enabled \ {irq}
<1>2. /\ pic' \in PicType /\ pic'.master.base = pic.master.base
      /\ pic'.master.isr = pic.master.isr
      /\ irq < 8 => /\ pic'.slave = pic.slave
                    /\ \/ on /\ pic'.master.imr = pic.master.imr \ {irq}
                       \/ off /\ pic'.master.imr = pic.master.imr \cup {irq}
      /\ irq >= 8 => /\ pic'.master = pic.master
                     /\ \/ on /\ pic'.slave.imr = pic.slave.imr \ {irq - 8}
                        \/ off /\ pic'.slave.imr = pic.slave.imr \cup {irq - 8}
  <2>1. CASE irq_enable(irq) /\ on
    BY <1>1, <2>1, EnableMask
  <2>2. CASE irq_disable(irq) /\ off
    BY <1>1, <2>2, DisableMask
  <2>3. QED
    BY <2>1, <2>2
<1>3. Controllers'
  BY <1>2 DEF Inv, Controllers, PicType
<1>4. Masks'
  <2>. HIDE DEF on, off
  <2>1. /\ enabled \subseteq 0 .. 15
        /\ \A n \in 0 .. 7 : n \in enabled <=> n \notin pic.master.imr
        /\ \A n \in 0 .. 7 : n + 8 \in enabled <=> n \notin pic.slave.imr
    BY DEF Inv, Masks
  <2>2. CASE irq < 8
    <3>1. \A n \in 0 .. 7 : n + 8 \in enabled' <=> n \notin pic'.slave.imr
      BY <1>2, <2>1, <2>2 DEF on, off
    <3>2. \A n \in 0 .. 7 : n \in enabled' <=> n \notin pic'.master.imr
      BY <1>2, <2>1, <2>2 DEF on, off
    <3>3. enabled' \subseteq 0 .. 15
      BY <1>2, <2>1, <2>2 DEF on, off
    <3>4. QED
      BY <3>1, <3>2, <3>3 DEF Masks
  <2>3. CASE irq >= 8
    <3>1. \A n \in 0 .. 7 : n + 8 \in enabled' <=> n \notin pic'.slave.imr
      BY <1>2, <2>1, <2>3 DEF on, off
    <3>2. \A n \in 0 .. 7 : n \in enabled' <=> n \notin pic'.master.imr
      BY <1>2, <2>1, <2>3 DEF on, off
    <3>3. enabled' \subseteq 0 .. 15
      BY <1>2, <2>1, <2>3 DEF on, off
    <3>4. QED
      BY <3>1, <3>2, <3>3 DEF Masks
  <2>4. QED
    BY <2>2, <2>3
<1>5. QED
  BY <1>3, <1>4 DEF Inv

LEMMA DriverCallInv ==
    ASSUME Inv, call_scheduler_init \/ call_kbd_init
    PROVE  Inv'
<1>1. /\ pc \in {8, 9} /\ pc' = pc + 1
      /\ UNCHANGED <<idt, interrupts, cpu, page_directory, dirty, current_process>>
  BY DoneAt, PositionOf DEF call_scheduler_init, call_kbd_init
<1>2. interrupt_handlers \in [Vectors -> Handlers]
  BY <1>1 DEF Inv, Progress
<1>3. interrupt_handlers' \in [Vectors -> Handlers]
  BY <1>2 DEF call_scheduler_init, call_kbd_init, idt_register_handler, Handlers
<1>4. Progress'
  BY <1>1, <1>3 DEF Inv, Progress
<1>5. \E irq \in {0, 1} : irq_enable(irq) /\ enabled' = enabled \cup {irq}
  BY DEF call_scheduler_init, call_kbd_init, enable
<1>6. \E irq \in 0 .. 15 : irq_enable(irq) /\ enabled' = enabled \cup {irq}
  BY <1>5
<1>7. pc > 3 /\ pc' > 3 /\ cpu' = cpu
  BY <1>1
<1>8. QED
  BY <1>4, <1>6, <1>7, LineInv

LEMMA DriverInv ==
    ASSUME Inv, NEW irq \in DriverLines, driver_enable(irq) \/ driver_disable(irq)
    PROVE  Inv'
<1>1. /\ pc = 13 /\ pc' = 13 /\ irq \in 0 .. 15
      /\ UNCHANGED <<idt, interrupt_handlers, interrupts, cpu, page_directory, dirty,
                     current_process>>
  BY PositionOf, BootAssumption DEF driver_enable, driver_disable
<1>2. Progress'
  BY <1>1 DEF Inv, Progress
<1>3. \/ irq_enable(irq) /\ enabled' = enabled \cup {irq}
      \/ irq_disable(irq) /\ enabled' = enabled \ {irq}
  BY DEF driver_enable, driver_disable, enable
<1>4. pc > 3 /\ pc' > 3
  BY <1>1
<1>5. QED
  BY <1>1, <1>2, <1>3, <1>4, LineInv

LEMMA RebootInv ==
    ASSUME Inv, cmd_reboot
    PROVE  Inv'
<1>1. /\ pc = 13 /\ pc' = 14
      /\ UNCHANGED <<idt, interrupt_handlers, pic, cpu, page_directory, dirty, current_process,
                     enabled>>
  BY PositionOf, CallsAt DEF cmd_reboot, REBOOTED
<1>2. Progress'
  BY <1>1 DEF Inv, Progress
<1>3. QED
  BY <1>1, <1>2, QuietInv
-----------------------------------------------------------------------------
(* An interrupt is taken only while nothing is in service, so that the EOI *)
(* of its handler ends it and nothing else.                                *)
LEMMA TakeInv ==
    ASSUME Inv, take
    PROVE  Inv'
<1>1. PICK n \in Offered(pic.master) :
        /\ cpu' = IF pic.master.base + n \in idt
                  THEN interrupt_handlers[pic.master.base + n] ELSE "reset"
        /\ pic' = [pic EXCEPT !.master.irr = @ \ {n}, !.master.isr = @ \cup {n}]
  BY DEF take, accept
<1>2. /\ cpu = "thread" /\ interrupts' = FALSE
      /\ UNCHANGED <<idt, interrupt_handlers, pc, page_directory, dirty, current_process, enabled>>
  BY DEF take, accept, boot_vars
<1>3. interrupts # FALSE
  BY Zenon DEF take, accept
<1>4. pc > 12
  BY <1>3 DEF Inv, Progress
<1>5. pic \in PicType /\ pic.master.isr = {}
  BY <1>2 DEF Inv, Controllers, PicType
<1>6. n \in 0 .. 7
  BY <1>5 DEF Offered, First, PicType, ChipType
<1>7. /\ pic' \in PicType /\ pic'.master.isr = {n} /\ pic'.master.base = pic.master.base
      /\ pic'.master.imr = pic.master.imr /\ pic'.slave = pic.slave
  BY <1>1, <1>5, <1>6 DEF PicType, ChipType
<1>8. pc \in 1 .. 14 /\ idt = Gates /\ interrupt_handlers \in [Vectors -> Handlers]
  BY <1>4 DEF Inv, Progress
<1>9. cpu' # "thread"
  <2>1. ASSUME pic.master.base + n \in idt PROVE interrupt_handlers[pic.master.base + n] \in Handlers
    BY <1>8, <2>1 DEF Gates, Vectors
  <2>2. "thread" \notin Handlers
    BY DEF Handlers, Spinning
  <2>3. QED
    BY <1>1, <2>1, <2>2
<1>10. Progress'
  BY <1>2, <1>4 DEF Inv, Progress
<1>11. Controllers'
  BY <1>6, <1>7, <1>9 DEF Inv, Controllers, PicType
<1>12. Masks'
  BY <1>2, <1>7 DEF Inv, Masks
<1>13. QED
  BY <1>10, <1>11, <1>12 DEF Inv

LEMMA HandlerInv ==
    ASSUME Inv, handlers
    PROVE  Inv'
<1>1. PICK handler \in {"scheduler_tick", "kbd_interrupt_handler"}, ack \in {TRUE, current_process} :
        iret(handler, ack)
  BY Zenon DEF handlers, scheduler_tick, kbd_interrupt_handler
<1>2. cpu \notin Idle
  BY <1>1 DEF iret, Idle
<1>3. pc > 12 /\ current_process = TRUE
  BY <1>2 DEF Inv, Progress
<1>4. pic' = out(pic, 32, 32) /\ cpu' = "thread"
  BY <1>1, <1>3, Zenon DEF iret, EOI
<1>5. UNCHANGED <<idt, interrupt_handlers, pc, page_directory, dirty, current_process, enabled>>
  BY <1>1 DEF iret, handlers, boot_vars
<1>6. PICK n \in 0 .. 7 : pic.master.isr = {n}
  BY <1>2 DEF Inv, Controllers
<1>7. First({n}) = {n}
  BY DEF First
<1>8. pic \in PicType /\ pic.master \in ChipType
  BY DEF Inv, Controllers, PicType
<1>9. /\ pic' \in PicType /\ pic'.master = command(pic.master, 32) /\ pic'.slave = pic.slave
  <2>1. /\ out(pic, 32, 32) = [master |-> command(pic.master, 32), slave |-> pic.slave]
        /\ out(pic, 32, 32) \in PicType
    BY <1>8, OutCommand
  <2>2. QED
    BY <1>4, <2>1
<1>10. command(pic.master, 32) = [pic.master EXCEPT !.isr = {n} \ First({n})]
  BY <1>6, <1>8, ChipCommand
<1>11. /\ pic'.master.isr = {} /\ pic'.master.base = pic.master.base
       /\ pic'.master.imr = pic.master.imr
  BY <1>7, <1>8, <1>9, <1>10 DEF ChipType
<1>12. Progress'
  BY <1>3, <1>5 DEF Inv, Progress
<1>13. Controllers'
  BY <1>4, <1>9, <1>11 DEF Inv, Controllers, PicType, Idle
<1>14. Masks'
  BY <1>5, <1>9, <1>11 DEF Inv, Masks
<1>15. QED
  BY <1>12, <1>13, <1>14 DEF Inv

LEMMA RaiseInv ==
    ASSUME Inv, NEW n \in Lines, raise(n)
    PROVE  Inv'
<1>1. /\ pic' = [pic EXCEPT !.master.irr = @ \cup {n}]
      /\ UNCHANGED <<idt, interrupt_handlers, interrupts, cpu, boot_vars>>
  BY DEF raise, request
<1>2. n \in 0 .. 7 /\ pic \in PicType
  BY BootAssumption DEF Inv, Controllers, PicType
<1>3. /\ pic' \in PicType /\ pic'.master.isr = pic.master.isr /\ pic'.slave = pic.slave
      /\ pic'.master.base = pic.master.base /\ pic'.master.imr = pic.master.imr
  BY <1>1, <1>2 DEF PicType, ChipType
<1>4. Progress'
  BY <1>1 DEF Inv, Progress, boot_vars
<1>5. Controllers'
  BY <1>1, <1>3 DEF Inv, Controllers, PicType
<1>6. Masks'
  BY <1>1, <1>3 DEF Inv, Masks, boot_vars
<1>7. QED
  BY <1>4, <1>5, <1>6 DEF Inv

LEMMA NextInv == Inv /\ [Next]_vars => Inv'
<1>. SUFFICES ASSUME Inv, [Next]_vars PROVE Inv'
  OBVIOUS
<1>1. CASE UNCHANGED vars
  <2>1. Progress'
    BY <1>1 DEF vars, intr_vars, boot_vars, Inv, Progress
  <2>2. QED
    BY <1>1, <2>1, QuietInv DEF vars, intr_vars, boot_vars
<1>2. CASE kmain
  BY <1>2, GdtInitInv, PlainCallInv, MemoryCallInv, IdtInitInv, DriverCallInv DEF kmain
<1>3. CASE \E irq \in DriverLines : driver_enable(irq) \/ driver_disable(irq)
  BY <1>3, DriverInv
<1>4. CASE cmd_reboot
  BY <1>4, RebootInv
<1>5. CASE handlers
  BY <1>5, HandlerInv
<1>6. CASE \E n \in Lines : raise(n)
  BY <1>6, RaiseInv
<1>7. CASE take
  BY <1>7, TakeInv
<1>8. QED
  BY <1>1, <1>2, <1>3, <1>4, <1>5, <1>6, <1>7 DEF Next

LEMMA AlwaysInv == Spec => []Inv
BY InitInv, NextInv, PTL DEF Spec
-----------------------------------------------------------------------------
(* From idt_init on the masks of both controllers are what the drivers     *)
(* asked for, in every order of their calls and of interrupts.             *)
THEOREM BootMasks == Spec => []MaskMatchesRequests
<1>1. ASSUME Inv PROVE MaskMatchesRequests
  <2>. SUFFICES ASSUME idt # {}, NEW irq \in 0 .. 15
                PROVE  irq \in enabled
                         <=> irq % 8 \notin (IF irq < 8 THEN pic.master ELSE pic.slave).imr
    BY DEF MaskMatchesRequests
  <2>1. pc > 3
    BY <1>1 DEF Inv, Progress
  <2>2. CASE irq < 8
    <3>1. irq \in 0 .. 7 /\ irq % 8 = irq
      BY <2>2
    <3>2. QED
      BY <1>1, <2>1, <2>2, <3>1 DEF Inv, Masks
  <2>3. CASE ~(irq < 8)
    <3>1. irq - 8 \in 0 .. 7 /\ irq % 8 = irq - 8 /\ (irq - 8) + 8 = irq
      BY <2>3
    <3>2. irq \in enabled <=> irq - 8 \notin pic.slave.imr
      BY <1>1, <2>1, <3>1 DEF Inv, Masks
    <3>3. QED
      BY <2>3, <3>1, <3>2
  <2>4. QED
    BY <2>2, <2>3
<1>2. QED
  BY <1>1, AlwaysInv, PTL

(* The pages of the first 16 MB, which are memory. *)
Low == 0 .. 4095

LEMMA LowPages ==
    /\ \A p \in Low : p \in RAM
    /\ 512 \in Low /\ \A p \in Image \cup {VgaPage} : p \in Low
    /\ \A i \in 0 .. 2047 : 256 + i \in Low
    /\ \A i \in 1 .. 255 : 768 + i \in Low
<1>1. \A p \in Low : p \in RAM
  BY DEF RAM, Low
<1>2. 512 \in Low /\ \A p \in Image \cup {VgaPage} : p \in Low
  BY DEF Image, VgaPage, Low
<1>3. \A i \in 0 .. 2047 : 256 + i \in Low
  BY DEF Low
<1>4. \A i \in 1 .. 255 : 768 + i \in Low
  BY DEF Low
<1>5. QED
  BY <1>1, <1>2, <1>3, <1>4

(* kmain runs only where the image is. *)
InPlace == Image \subseteq Loaded \/ (pc = 1 /\ cpu = "reset")

LEMMA AlwaysInPlace == Spec => []InPlace
<1>1. Init => InPlace
  BY DEF Init, InPlace
<1>2. ASSUME InPlace, [Next]_vars PROVE InPlace'
  <2>1. CASE Image \subseteq Loaded
    BY <2>1 DEF InPlace, Image, Loaded
  <2>2. CASE pc = 1 /\ cpu = "reset"
    <3>1. ~kmain
      BY <2>2 DEF kmain, call_gdt_init, call_idt_init, call_pmm_init, call_vmm_init,
                  call_proc_init, call_scheduler_init, call_kbd_init,
                  call_interrupts_enable, call_other, Done, At
    <3>2. ~cmd_reboot /\ \A irq \in DriverLines : ~driver_enable(irq) /\ ~driver_disable(irq)
      BY <2>2 DEF cmd_reboot, driver_enable, driver_disable, At
    <3>3. ~handlers /\ ~take
      BY <2>2 DEF handlers, scheduler_tick, kbd_interrupt_handler, iret, take, accept
    <3>4. pc' = pc /\ cpu' = cpu
      <4>1. CASE \E n \in Lines : raise(n)
        BY <4>1 DEF raise, request, boot_vars
      <4>2. CASE UNCHANGED vars
        BY <4>2 DEF vars, boot_vars, intr_vars
      <4>3. QED
        BY <1>2, <3>1, <3>2, <3>3, <4>1, <4>2 DEF Next
    <3>5. QED
      BY <2>2, <3>4 DEF InPlace
  <2>3. QED
    BY <1>2, <2>1, <2>2 DEF InPlace
<1>3. QED
  BY <1>1, <1>2, PTL DEF Spec

(* When the shell runs, the heap, the bitmap, the stacks, the image and    *)
(* the screen are mapped to memory, and nothing cleared the image.         *)
THEOREM BootMemory == Spec => []MemoryReady
<1>1. ASSUME Inv, InPlace PROVE MemoryReady
  <2>. SUFFICES ASSUME pc \in DOMAIN Calls, Calls[pc] = "shell_run"
       PROVE  /\ \A p \in HeapPages \cup StackPages \cup {BitmapPage} :
                    Mapped(p) /\ Frame(p) \in RAM
              /\ \A p \in Image \cup {VgaPage} : Mapped(p) /\ Frame(p) = p
              /\ Image \subseteq dirty
    BY DEF MemoryReady, AtShell
  <2>1. pc = 13
    <3>1. \/ pc = 1 \/ pc = 2 \/ pc = 3 \/ pc = 4 \/ pc = 5 \/ pc = 6 \/ pc = 7
          \/ pc = 8 \/ pc = 9 \/ pc = 10 \/ pc = 11 \/ pc = 12 \/ pc = 13
      BY CallsAt
    <3>2. QED
      BY <3>1, CallsAt
  <2>2. page_directory = vmm_directory /\ 0 \in DOMAIN vmm_directory
    BY <1>1, <2>1 DEF Inv, Progress, vmm_directory
  <2>3. Paging
    BY <2>2 DEF Paging
  <2>4. ASSUME NEW p \in Low PROVE Mapped(p) /\ Frame(p) = p
    <3>1. p \div 1024 \in 0 .. 3 /\ (p \div 1024) * 1024 + (p % 1024) = p
      BY <2>4 DEF Low
    <3>2. p \div 1024 \in DOMAIN vmm_directory /\ vmm_directory[p \div 1024] = p \div 1024
      BY <3>1 DEF vmm_directory
    <3>3. QED
      BY <2>2, <2>3, <3>1, <3>2 DEF Mapped, Frame
  <2>5. ASSUME NEW p \in Low
        PROVE  Mapped(KERNEL_VIRT_BASE + p) /\ Frame(KERNEL_VIRT_BASE + p) = p
    <3>. DEFINE q == KERNEL_VIRT_BASE + p
    <3>1. q \div 1024 \in 768 .. 771 /\ ((q \div 1024) - 768) * 1024 + (q % 1024) = p
      BY <2>5 DEF KERNEL_VIRT_BASE, Low
    <3>. HIDE DEF q
    <3>2. q \div 1024 \in DOMAIN vmm_directory /\ vmm_directory[q \div 1024] = (q \div 1024) - 768
      BY <3>1 DEF vmm_directory
    <3>3. Mapped(q) /\ Frame(q) = p
      BY <2>2, <2>3, <3>1, <3>2 DEF Mapped, Frame
    <3>4. QED
      BY <3>3 DEF q
  <2>6. ASSUME NEW p \in HeapPages \cup StackPages \cup {BitmapPage}
        PROVE  Mapped(p) /\ Frame(p) \in RAM
    <3>1. PICK i \in Low : p = KERNEL_VIRT_BASE + i
      <4>1. CASE p \in HeapPages
        <5>1. PICK i \in 0 .. 2047 : p = KERNEL_VIRT_BASE + 256 + i
          BY <4>1 DEF HeapPages
        <5>2. 256 + i \in Low /\ p = KERNEL_VIRT_BASE + (256 + i)
          BY <5>1, LowPages DEF KERNEL_VIRT_BASE
        <5>3. QED
          BY <5>2
      <4>2. CASE p \in StackPages
        <5>1. PICK i \in 1 .. 255 : p = KERNEL_VIRT_BASE + 768 + i
          BY <4>2 DEF StackPages
        <5>2. 768 + i \in Low /\ p = KERNEL_VIRT_BASE + (768 + i)
          BY <5>1, LowPages DEF KERNEL_VIRT_BASE
        <5>3. QED
          BY <5>2
      <4>3. CASE p = BitmapPage
        BY <4>3, LowPages DEF BitmapPage
      <4>4. QED
        BY <4>1, <4>2, <4>3
    <3>2. QED
      BY <2>5, <3>1, LowPages
  <2>7. ASSUME NEW p \in Image \cup {VgaPage} PROVE Mapped(p) /\ Frame(p) = p
    <3>1. p \in Low
      BY LowPages
    <3>2. QED
      BY <2>4, <3>1
  <2>8. Image \subseteq dirty
    <3>1. Image \subseteq Loaded
      BY <1>1, <2>1 DEF InPlace
    <3>2. Loaded \subseteq dirty
      BY <1>1 DEF Inv, Progress
    <3>3. QED
      BY <3>1, <3>2
  <2>9. QED
    BY <2>6, <2>7, <2>8
<1>2. QED
  BY <1>1, AlwaysInv, AlwaysInPlace, PTL

(* The firmware left the first controller at vectors that have gates, as a *)
(* PC's does: at 8, or at 32.                                              *)
BasesHaveGates == \A base \in FirmwareBases, n \in 0 .. 7 : base[1] + n \in Gates

(* The image is where it is linked and the segments are as documented. *)
Starts == LoadedAsLinked /\ GdtAsDocumented

(* The documented segments pass the reload of the segment registers. *)
LEMMA DocumentedSegments ==
    IsSegment(Documented(gdt_init_table)[1]) /\ IsSegment(Documented(gdt_init_table)[2])
<1>. DEFINE g == gdt_init_table
<1>1. g[1].access = 138 /\ g[2].access = 130
  BY DEF gdt_init_table, gdt_set_entry, EmptyGdt, Descriptor, ZERO, ALL, SEG_ACCESS_PRESENT,
         SEG_ACCESS_PRIVILEGE_3, SEG_ACCESS_CODE, SEG_ACCESS_READABLE, SEG_ACCESS_WRITABLE,
         SEG_FLAG_GRANULARITY, SEG_FLAG_32BIT
<1>2. "access" \in DOMAIN g[1] /\ "access" \in DOMAIN g[2]
  BY DEF gdt_init_table, gdt_set_entry, EmptyGdt, Descriptor
<1>. HIDE DEF g
<1>3. Documented(g)[1].access = 154 /\ Documented(g)[2].access = 146
  <2>. DEFINE flags == 16 * (SEG_FLAG_GRANULARITY + SEG_FLAG_32BIT)
              d(i) == [g[i] EXCEPT !.access = @ + 16, !.limit_high = @ + flags]
  <2>1. Documented(g)[1] = d(1) /\ Documented(g)[2] = d(2)
    BY DEF Documented
  <2>2. ASSUME NEW i \in {1, 2} PROVE d(i).access = g[i].access + 16
    BY <1>2
  <2>. HIDE DEF d
  <2>3. QED
    BY <1>1, <2>1, <2>2
<1>4. QED
  BY <1>3 DEF IsSegment, g

CpuRuns == cpu \in {"thread"} \cup Handlers

LEMMA CpuStep ==
    ASSUME BasesHaveGates, Starts, Inv, CpuRuns, [Next]_vars
    PROVE  CpuRuns'
<1>1. CASE take
  <2>1. PICK n \in Offered(pic.master) :
          cpu' = IF pic.master.base + n \in idt
                 THEN interrupt_handlers[pic.master.base + n] ELSE "reset"
    BY <1>1 DEF take, accept
  <2>2. interrupts # FALSE
    BY <1>1, Zenon DEF take, accept
  <2>3. idt = Gates /\ interrupt_handlers \in [Vectors -> Handlers]
    <3>1. pc > 12
      BY <2>2 DEF Inv, Progress
    <3>2. QED
      BY <3>1 DEF Inv, Progress
  <2>4. n \in 0 .. 7
    BY DEF Inv, Controllers, Offered, First, ChipType
  <2>5. pic.master.base + n \in Gates
    BY <2>4 DEF BasesHaveGates, Inv, Controllers
  <2>6. pic.master.base + n \in Vectors
    BY <2>5 DEF Gates, Vectors
  <2>7. QED
    BY <2>1, <2>3, <2>5, <2>6 DEF CpuRuns
<1>2. CASE handlers
  BY <1>2 DEF handlers, scheduler_tick, kbd_interrupt_handler, iret, CpuRuns
<1>3. CASE kmain
  <2>1. CASE call_gdt_init
    <3>1. gdt' = Documented(gdt_init_table)
      BY <2>1 DEF call_gdt_init, Starts
    <3>2. cpu' = cpu
      BY <2>1, <3>1, DocumentedSegments DEF call_gdt_init
    <3>3. QED
      BY <3>2 DEF CpuRuns
  <2>2. CASE ~call_gdt_init
    BY <1>3, <2>2 DEF CpuRuns, kmain, call_idt_init, call_pmm_init,
              call_vmm_init, call_proc_init, call_scheduler_init, call_kbd_init,
              call_interrupts_enable, call_other, intr_vars
  <2>3. QED
    BY <2>1, <2>2
<1>4. CASE \E irq \in DriverLines : driver_enable(irq) \/ driver_disable(irq)
  BY <1>4 DEF CpuRuns, driver_enable, driver_disable
<1>5. CASE cmd_reboot
  BY <1>5 DEF CpuRuns, cmd_reboot
<1>6. CASE \E n \in Lines : raise(n)
  BY <1>6 DEF CpuRuns, raise, request
<1>7. CASE UNCHANGED vars
  BY <1>7 DEF CpuRuns, vars, intr_vars
<1>8. QED
  BY <1>1, <1>2, <1>3, <1>4, <1>5, <1>6, <1>7 DEF Next

(* If the image is where it is linked, the segments are as documented and  *)
(* the firmware's vectors have gates, nothing resets the machine, and      *)
(* whenever the thread runs every interrupt before has been ended: each    *)
(* handler sends its EOI or never returns.                                 *)
THEOREM BootService == BasesHaveGates /\ Starts => (Spec => []NothingLeftInService)
<1>. SUFFICES ASSUME BasesHaveGates, Starts PROVE Spec => []NothingLeftInService
  OBVIOUS
<1>1. Init => CpuRuns
  <2>1. Image \subseteq Loaded
    BY DEF Starts, Loaded, Image, RAM
  <2>2. QED
    BY <2>1 DEF Init, CpuRuns
<1>2. Inv /\ CpuRuns /\ [Next]_vars => CpuRuns'
  BY CpuStep
<1>3. Inv /\ CpuRuns => NothingLeftInService
  BY DEF Inv, CpuRuns, Controllers, Handlers, NothingLeftInService, Idle
<1>4. QED
  BY <1>1, <1>2, <1>3, AlwaysInv, PTL DEF Spec
=============================================================================
