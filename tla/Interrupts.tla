----------------------------- MODULE Interrupts -----------------------------
(***************************************************************************)
(* Interrupt delivery: the descriptor and handler tables of                *)
(* src/kernel/arch/x86/idt.c, the two 8259 controllers it programs, and    *)
(* the processor that takes an interrupt between two steps of the thread.  *)
(*                                                                         *)
(* The lines of the second controller come through line 2 of the first,    *)
(* which no code unmasks: only the mask of the second matters here.        *)
(***************************************************************************)
EXTENDS Integers

VARIABLES idt,                 \* the vectors that have a gate
          interrupt_handlers,  \* the handler of each vector
          pic,                 \* the two controllers
          interrupts,          \* the processor's interrupt flag
          cpu                  \* "thread", or the handler that runs

intr_vars == <<idt, interrupt_handlers, pic, interrupts, cpu>>

Vectors        == 0 .. 255
INT_PAGE_FAULT == 14
CASCADE        == 2
Spinning       == {"isr_default_handler", "isr_page_fault_handler"}
-----------------------------------------------------------------------------
(* An 8259: the vector of its line 0, the initialization word it waits for *)
(* (0 when it is initialized), and the lines that are masked, requested    *)
(* and in service.                                                         *)
Chip(vector) == [base |-> vector, icw |-> 0, imr |-> {}, irr |-> {}, isr |-> {}]

Weights     == <<1, 2, 4, 8, 16, 32, 64, 128>>
Bits(byte)  == {n \in 0 .. 7 : (byte \div Weights[n + 1]) % 2 = 1}
First(bits) == {n \in bits : \A m \in bits : n <= m}
EOI         == 32

(* A byte for the command port: ICW1 starts an initialization, EOI ends    *)
(* the service of the most urgent line.                                    *)
command(c, byte) ==
    IF 4 \in Bits(byte) THEN [c EXCEPT !.icw = 2, !.imr = {}, !.irr = {}, !.isr = {}]
    ELSE IF byte = EOI THEN [c EXCEPT !.isr = @ \ First(@)]
    ELSE c

(* A byte for the data port: the next initialization word, or the mask. *)
data(c, byte) ==
    CASE c.icw = 0 -> [c EXCEPT !.imr = Bits(byte)]
      [] c.icw = 2 -> [c EXCEPT !.icw = 3, !.base = (byte \div 8) * 8]
      [] c.icw = 3 -> [c EXCEPT !.icw = 4]
      [] c.icw = 4 -> [c EXCEPT !.icw = 0]

out(p, port, byte) ==
    CASE port = 32  -> [p EXCEPT !.master = command(@, byte)]
      [] port = 33  -> [p EXCEPT !.master = data(@, byte)]
      [] port = 160 -> [p EXCEPT !.slave = command(@, byte)]
      [] port = 161 -> [p EXCEPT !.slave = data(@, byte)]

(* The line a controller offers: requested, not masked, and more urgent    *)
(* than every line in service.                                             *)
Offered(c) ==
    {n \in First(c.irr \ c.imr) : \A m \in c.isr : n < m}
-----------------------------------------------------------------------------
(* pic_init writes to both controllers in turn.  The bytes meant as ICW1   *)
(* are 0x20, an EOI: no initialization starts, and the bytes meant as      *)
(* ICW2, ICW3 and ICW4 are masks that the last two writes replace.         *)
pic_icw1(p) == out(out(p, 32, 32), 160, 32)
pic_icw2(p) == out(out(p, 33, 8), 161, 112)
pic_icw3(p) == out(out(p, 33, 4), 161, 2)
pic_icw4(p) == out(out(p, 33, 1), 161, 1)
pic_ocw1(p) == out(out(p, 33, 255), 161, 255)
pic_init(p) == pic_ocw1(pic_icw4(pic_icw3(pic_icw2(pic_icw1(p)))))

(* Gates for the exceptions and the lines of the two controllers. *)
Gates == (0 .. 19) \cup (32 .. 47)

idt_init ==
    /\ idt' = Gates
    /\ interrupt_handlers' = [v \in Vectors |->
           IF v = INT_PAGE_FAULT THEN "isr_page_fault_handler" ELSE "isr_default_handler"]
    /\ pic' = pic_init(pic)

idt_register_handler(vector, handler) ==
    interrupt_handlers' = [interrupt_handlers EXCEPT ![vector] = handler]

(* Mutant: off by one, line 8 is looked for in the first controller. *)
PortOf_late(irq) == IF irq > 8 THEN [chip |-> "slave", bit |-> irq - 8]
                    ELSE [chip |-> "master", bit |-> irq]

(* The controller and the bit of a line. *)
PortOf(irq) == IF irq >= 8 THEN [chip |-> "slave", bit |-> irq - 8]
               ELSE [chip |-> "master", bit |-> irq]

(* mask &= ~(1 << irq), mask |= 1 << irq, both in a byte *)
irq_enable(irq)  == pic' = [pic EXCEPT ![PortOf(irq).chip].imr = @ \ {PortOf(irq).bit}]
irq_disable(irq) ==
    pic' = [pic EXCEPT ![PortOf(irq).chip].imr = @ \cup ({PortOf(irq).bit} \cap (0 .. 7))]

interrupts_enable  == interrupts' = TRUE
interrupts_disable == interrupts' = FALSE
-----------------------------------------------------------------------------
(* A device raises line n of the first controller. *)
request(n) ==
    /\ n \notin pic.master.irr
    /\ pic' = [pic EXCEPT !.master.irr = @ \cup {n}]
    /\ UNCHANGED <<idt, interrupt_handlers, interrupts, cpu>>

(* The processor takes the line that is offered.  A gate clears the        *)
(* interrupt flag; without a gate the machine resets.                      *)
accept ==
    /\ interrupts /\ cpu = "thread"
    /\ \E n \in Offered(pic.master) :
         LET vector == pic.master.base + n
         IN  /\ cpu' = IF vector \in idt THEN interrupt_handlers[vector] ELSE "reset"
             /\ pic' = [pic EXCEPT !.master.irr = @ \ {n}, !.master.isr = @ \cup {n}]
    /\ interrupts' = FALSE
    /\ UNCHANGED <<idt, interrupt_handlers>>

(* A handler returns; acknowledged: it sent an EOI to the first controller. *)
iret(handler, acknowledged) ==
    /\ cpu = handler
    /\ pic' = IF acknowledged THEN out(pic, 32, EOI) ELSE pic
    /\ cpu' = "thread"
    /\ interrupts' = TRUE
    /\ UNCHANGED <<idt, interrupt_handlers>>
=============================================================================
