# A verification of the NIMBU OS kernel

TLA+ modules that model the kernel from `_start` to the shell: its memory
managers, process table and scheduler, descriptor tables and interrupt
controllers, and the keyboard, VGA and serial drivers; TLC configurations that check them on
small instances; TLAPS proofs of all of their safety properties, for every value of
the constants. Paths below are those of the repository
(`src/kernel/...`, `include/...`).

    tlc -config MCPmm.cfg MCPmm        # any run: the cfg and its module
    tlapm PmmProofs.tla                # the proofs

## The system

The kernel is a single thread: `kmain` initializes everything, enables
interrupts and calls `shell_run`, which polls the keyboard for ever. Timer
(100 Hz) and keyboard interrupts come between any two instructions of that
thread. Handlers run behind interrupt gates, so a handler is atomic and is never
interrupted; nothing in the thread disables interrupts around its data except
`cmd_reboot` and `proc_halt_all`, which never return. The result of
`context_switch` is ignored by `scheduler_tick`, so no other thread ever runs.
`process_table` is `static` in `process.c` and used in `scheduler.c`: the models
take it for the one table that both files mean. There are no tests.

| Component | State | Operations | Talks to | Module |
|---|---|---|---|---|
| Physical memory manager, `mm/pmm.c` | bitmap, page counters | `pmm_init`, `pmm_alloc`, `pmm_free`, `pmm_get_*` | called by `proc_create`, `vmm_map` | `Pmm` |
| Virtual memory manager, `mm/vmm.c` | page directory, four kernel tables, tables from `pmm_alloc`; the TLB | `vmm_init`, `vmm_map`, `vmm_unmap`, `vmm_get_phys` | calls `pmm_alloc`; reaches tables through its own mapping | `Vmm` |
| Kernel heap, `mm/heap.c` | headers in the heap, `used` | `heap_init`, `kmalloc`, `kfree`, `heap_get_stats` | called by `proc_create` | `Heap` |
| Processes, `proc/process.c` | process table, `next_pid` | `proc_create`, `proc_exit`, `proc_block`, `proc_unblock`, `proc_halt_all`, statistics | `pmm_alloc`, `kmalloc`; shares the table with the scheduler | `Process` |
| Scheduler, `proc/scheduler.c` | time slices and states in the table, tick count | `scheduler_init`, `scheduler_tick`, `context_switch` | the timer interrupt | `Scheduler` |
| Keyboard, `drivers/kbd.c` | ring buffer, modifiers | interrupt handler, `kbd_getchar` | filled by interrupts, emptied by the shell | `Keyboard` |
| Shell, `shell/shell.c` | command line | `shell_run`, `shell_read_line`, `shell_parse_args`, `shell_execute`, handlers | `kbd_getchar`, all statistics | `Shell`, `ShellParse` |
| IDT and PIC, `arch/x86/idt.c` | gates, handlers, masks | `idt_init`, `idt_register_handler`, `irq_enable`, `irq_disable`, default handlers | all handlers; the two 8259 controllers | `Interrupts`, `Boot` |
| GDT, `arch/x86/gdt.c` | six descriptors | `gdt_init`, `gdt_set_entry` | the processor | `Gdt`, `Boot` |
| VGA, `drivers/vga.c` | cursor, screen, hardware cursor | put, scroll, clear, move | everything prints, handlers that stop the machine too | `Vga` |
| Serial, `drivers/serial.c` | the UART's | polled send with a limit, polled receive | a 16550 | `Serial` |
| Boot, `boot.asm`, `kernel.c` | order of initialization, memory layout | `_start`, `kmain` | everything | `Boot` |

What is hard here: interrupts between the steps of code that takes no lock
(`kbd_getchar`, `proc_create`); first-fit search over headers that lie in the
memory being given out; sizes and indices at their limits in unsigned
arithmetic; an address that means both "page 0" and "failure"; page tables
reached through the mapping they define; a TLB that outlives the tables; an
interrupt controller that stays silent when one interrupt is not ended; panics
that print through a driver they interrupted; a polled line that may hang. The
list, line by line, is under `hazards` in `PROJECT.json`.

What makes each component correct:

- physical memory: counters that agree with the bitmap, no page with two owners,
  no page lost;
- virtual memory: a page translates to what its caller was told, the kernel stays
  mapped and its frames are nobody else's, tables are reachable and have one owner,
  the TLB agrees;
- heap: headers that tile the heap, disjoint blocks, a search that ends and that
  misses nothing;
- processes and scheduler: a created process is complete and stays what it is,
  the dead stay dead, nobody ready is starved;
- keyboard and shell: a character that was typed with room in the ring is read
  once and in order; no modifier stays stuck; the command line that is executed is
  the one that was typed; argv is the words of the line; the handler is the one named;
- interrupts and boot: every interrupt reaches its handler and is ended, masks are
  what drivers asked for, nothing is used before it is set up, and every area the
  kernel uses is mapped to memory;
- segments: flat, 32-bit, as the header says;
- VGA: the screen shows the end of what was printed, and a panic can be read;
- serial: results agree with the wire, and a send ends.

## The modules

`Pmm` — the bitmap as a function from byte index to the set of bits that are 1,
so that shifts and masks are set operations; `allocated_pages` with its wrap;
`held`, the addresses that each caller believes it has. A caller takes 0 for a
failure, as both callers in the kernel do, and frees what it holds or anything
that nobody else holds, including addresses never given out. `FrameAllocator` is
the abstract allocator.

`Vmm` — pages and frames instead of addresses. `tables` maps each frame that is
in use as a page table to its entries; a new table holds anything. `Walk` is the
processor's translation and `Reached` what an access may hit, the TLB included;
`SetEntry` goes through it, because the code writes to a table at its physical
address with paging on. The four kernel tables appear in the directory twice
(`KernelEntry` says at which entries, `KernelIndex` which table is there), which
makes pages aliases of each other. `told` records what
callers were told, for `MappingsKept`. `pmm_alloc` gives away the frames of the
kernel like any other, and the model goes on: the other caller, `proc_create`, only
keeps the address. `vmm_map` does write to the frame it is given; when that would
write over the kernel the mode becomes `"overwritten"` and the model stops, because
what follows depends on the code that was hit. An access to a table that leads
nowhere is the mode `"fault"`. Callers may map any page but those the kernel runs in;
the rest of the first 16 MB, through which tables are reached, is not protected.
`InReach` says that every table is in the identity map and that nobody has changed
it (page 0, whose frame is never a table, apart): the code ensures neither, so the
properties that need it say so, and `FaultsOnlyOutOfReach` says that it is exactly
what stands between `vmm_map` and a page fault.

`Heap` — offsets from the start of the heap; `heads`, `hsize` and `hused` are the
headers, `live` what callers hold. `kmalloc` is a step for the call and one for
each turn of its loop. `Regions` is the abstract allocator of disjoint regions.

`Process`, `Scheduler` — the process table by field. `proc_create` is split
wherever a tick could see a difference, and a tick is one action between any two
steps. Physical memory is the module `Pmm` itself (`Memory == INSTANCE Pmm`); the
heap is a counter of contexts, since `proc_create` is the only caller of
`kmalloc` and nothing frees. Fields nobody reads, the tick count and the
programming of the timer chip are left out.

`Keyboard` — the whole scan code table, the handler as one action, `kbd_getchar`
as test, fetch and advance; `enqueued` is the handler's test of the ring with its
two outcomes. The keyboard (external) is modelled as far as the handler can tell:
`down` is the set of modifier keys held, so that it sends break codes only for keys
that are down. It has two Ctrl keys, the right one with the prefix E0; other prefixed
keys come alone or with the shift codes that a keyboard makes up around them
(`fake_shift`, and `pending`, the code that is due), and Pause sends a Ctrl of its own. The
handler takes a prefix for the release of a key that does nothing, and what follows
for an ordinary code, so a prefix has no step of its own. `KbdQueue` is the abstract bounded
queue of characters.

`ShellParse` — `shell_parse_args` and `shell_execute` as functions of a line, as
recursive functions over the position in the line; `ShellLines` types every line
and states what must hold of how it is taken apart, with its words for the reference.
`Shell` — `shell_run` and `shell_read_line` over an instance of `Keyboard`; `typed` is a
history variable, the characters read since the last line was executed less those taken
back, which no step depends on. What command handlers print is left out, except that
`cmd_reboot` does not return.

`Interrupts` — gates and handlers by vector, and two 8259 controllers (external:
the repository has the writes to their ports). A controller is the vector of its
line 0, the initialization word it expects, and its mask, request and in-service
bits; `command` and `data` are what a byte written to its two ports does, and
`pic_init` is the five pairs of writes in the code (`pic_icw1` to `pic_ocw1`). `accept` is the processor
taking the offered line between two steps of the thread, `iret` the end of a
handler. `Gdt` — `gdt_set_entry` packs a descriptor into bytes as the code does;
`IsSegment`, `Pages`, `Is32Bit` are how the processor reads it. 32-bit numbers are
pairs of halves, because TLC's integers have 32 bits and a sign.

`Boot` extends both: `pc` is the index in `Calls` of the call that `kmain` makes next
(or `HALTED`, or `REBOOTED`), and each call is an action with its effect on the state that components share: descriptors,
gates, masks, the page directory, `current_process`, and `dirty`, the frames that
do not hold zeros. Addresses are page numbers, translated by `Frame`: without
paging a page is its own frame, which is how the zeros of `pmm_init` go astray.

As it stands the kernel does not get to its shell. The linker script gives the image
the load address 0x40100000 (`load_address`), where there is no memory; and
`gdt_flush_asm` jumps through a descriptor that is not a segment before any gate is set,
which resets the machine (`call_gdt_init`). Both contradict what the repository
documents, and two constants say whether the document or the code is followed:
`LoadedAsLinked` (linker.ld:2) and `GdtAsDocumented` (gdt.h:69, `Documented` in `Gdt`).
The run `boot_gdt` sets the second to FALSE, the code as it is; with the first FALSE no
step of the kernel is possible at all. The other runs of `Boot` set both to TRUE: they are about the rest of `kmain`, on a machine where
those two mistakes are mended, and show nothing of the machine as it is. The
handlers appear with their end of interrupt; what else they do is in `Scheduler`
and `Keyboard`. In the running shell a driver may enable and disable its lines,
and `cmd_reboot` stops everything. The second controller's lines are masked and
unmasked but never delivered, since no code unmasks the cascade line.

`Vga` — the driver's state as a record and each assignment of `vga_putchar` as an
operator on it, used twice: one at a time by the thread, and as whole calls of
`vga_putchar` by the handler, which strikes between two of them (`exception`), prints
its message a character at a time (`vga_putstr`) and stops. The buffer has a row more than the screen, which is still video memory.
`Paper` is the reference: the text on a roll of paper as wide as the screen.

`Serial` — a step for each port access of the polling loops, and a 16550
(external) with two FIFOs, the divisor latch and a line that takes and brings
bytes, or hangs, between any two of them. `calls` records what callers were told,
`wire` what left the transmitter; callers send again whenever they like.

Definitions named with a suffix and commented "Mutant" are deliberate errors that
the properties are tested against; nothing uses them.

## The runs

| Run | Checks | Instance |
|---|---|---|
| `pmm` | counters, exclusiveness, leaks, refinement of `FrameAllocator` | 9 pages, 2 callers, stray frees |
| `vmm` | mappings, kernel mapped, staleness of the TLB, when a table cannot be reached, ownership of tables | 6 directory entries, tables of 3, 7 frames, the kernel in 2 to 4 |
| `heap` | chain of headers, used and live blocks, complete search, refinement of `Regions`, termination | 128 bytes, real header and minimum |
| `keyboard` | ring against `KbdQueue`, staleness of the test, modifiers, drops, liveness | ring of 3, four keys, three prefixed ones |
| `shell_parse` | argc, argv, bounds, dispatch against the words | all lines up to 7 characters of 5 |
| `shell` | the line handed over against what was typed, liveness of Enter | ring of 3, line of 4, four keys |
| `scheduler` | processes complete and kept, zombies, which registers a tick may choose, when creation fails, starvation | 4 slots, slice 2, 3 contexts, 8 pages |
| `boot` | interrupts ended, masks, areas mapped, endless ticks | 3 device lines, 2 driver lines, vectors 8 or 32, memory clear or not |
| `vga` | screen against the roll of paper, cursor, panics readable | screen of 2 by 3, texts of 5, 2 messages |
| `serial` | results against the wire, sends end, announced bytes are read | limit of 3 polls, FIFOs of 2, 3 calls |

The two runs below that are expected to fail use the instance of `boot`.

What the passing runs show beyond their names:

- `NothingLeftInService` rests on the order of `kmain`: `scheduler_tick` returns
  before its end of interrupt when there is no current process, and only
  `proc_init` coming before `interrupts_enable` keeps that return from silencing
  the controller (the mutant swaps them).
- `MemoryReady`: the pages of the heap, the bitmap, the stacks and the image are
  mapped to RAM when the shell starts, and the image has not been cleared. That they
  are mapped to separate RAM, and that the bitmap is clear, is documented and not so
  (below).
- `TicksGoOn` states its three conditions: the image is where it is linked, the
  segments are as documented, and the timer is at vector 32, where the handler is
  registered. The code brings about none of them (`load_address`, `boot_gdt`,
  `boot_vectors`); what the run shows is that nothing else is missing.
- `FaultsOnlyOutOfReach`: a table beyond the identity map and a changed identity map are
  the only ways to a page fault on a table. The run reaches both.
- `TablesOwned`: the tables that `vmm_map` made are its own even when `proc_create` has
  been given the kernel's, which the run reaches as well.
- `ModifiersNotStuck` has no converse: one flag stands for two keys, and a shift that
  the keyboard takes back around an arrow key clears the flag of one that is held.
- `ArgvStartsAtWords` is about where the arguments start and how many there are, of
  lines with fewer or more than `SHELL_MAX_ARGS` words. Nothing is claimed of where they
  end, nor of exactly that many words (below).
- `PanicShown` names the two windows in which a panic cannot be read: between the
  step that takes the cursor past the last column or row and the one that takes it
  back. In them the message starts in the row behind the screen.
- `ResultsMatchWire`: a string that timed out has left some first bytes behind, and
  never its last one, so a caller who repeats it repeats those bytes.

Two runs are expected to fail. Each states a sentence of the repository that the
code does not keep (quoted under `findings` in `PROJECT.json`):

- `boot_gdt`: the segments are not flat 32-bit segments. The flags are shifted out
  of their byte and the access bytes lack the bit of a code or data segment; the jump
  through one of them resets the machine.
- `boot_vectors`: the vectors are not remapped. The byte meant as ICW1 is 0x20, an
  end of interrupt, so the controllers never start their initialization and keep
  the firmware's vectors; with the timer at vector 8 the first tick is taken for a
  double fault and `isr_default_handler` never returns.

Other places where code and documentation differ are visible in the definitions
and have no run of their own. The passing properties are worded so that they do not
claim the documented behaviour there:

- `Boot`, the image: its load address wraps to 0x40100000 (linker.ld:13), against "loaded
  at physical 0x100000" in linker.ld:2 (`load_address`).
- `Boot`, the bitmap: `pmm_init` runs without paging and writes its zeros to an address
  without memory (pmm.c:34, "Initialize bitmap to 0"); the frame at 2 MB keeps what it
  held (`call_pmm_init`). `Pmm` starts from a clear bitmap.
- `Boot`, the areas: the heap covers the frames of the kernel's image and of the bitmap
  (kernel.c:108); VISUAL_REFERENCE.md:129-148 draws them apart (`HeapPages`, `Image`).
- `Pmm`, `Vmm`: no frame is reserved (pmm.c:36), so `pmm_alloc` gives out the kernel's
  own; SOURCE_CODE_GUIDE.md:471 says "Mark reserved pages" (`OtherAlloc`).
- `Vmm`: `vmm_map` neither succeeds nor fails (mem.h:75) but stops in a page fault when the
  frame of a new table is beyond the identity map (`FaultsOnlyOutOfReach`); and a new table
  is not cleared, so pages nobody mapped have a translation, against "0 if not mapped" of
  mem.h:89 (`map_new_table`).
- `Heap`: `kfree` does not merge neighbouring free blocks (API_REFERENCE.md:343).
- `ShellParse`: arguments are not cut at the blank that ends them, so `argv[0]` of "echo
  hi" is the whole line (shell.h:67, VISUAL_REFERENCE.md:661; `ArgString`); and a line of
  `SHELL_MAX_ARGS` words is refused (shell.h:19 and 68).
- `Scheduler`: the tick after `proc_block` of process 0 makes it ready (process.h:141), and
  several processes are RUNNING (VISUAL_REFERENCE.md:274), because the chosen one does not
  become the current one and is never set back (`context_switch`).
- `Pmm`: the first page handed out has the address 0, documented as a failure; it
  is never used and never freed (`OnlyPageZeroLeaks`), and makes the first
  `proc_create` fail (`FailsOnlyFirstOrFull`).
- `Vmm`: changing a page of the identity map leaves the TLB entry of its alias in
  the higher half (`StaleOnlyThroughAlias` says that nothing else does).
- `Heap`: `kmalloc` does not align its pointers and does not split blocks, and
  `heap_get_stats` reports the end of the last block.
- `Process`, `Scheduler`: a tick revives process 0 when it has exited (`ZombiesStay` is
  about the others); `proc_exit` reclaims nothing, unused slots are READY, and a tick
  inside `proc_create` may pick registers that are not set (`UnsetOnlyInCreate`, which
  also says that nothing else does).
- `Keyboard`: releasing one of two shift or Ctrl keys clears the flag while the other
  is held (`ModifiersNotStuck` states what remains true).
- `ShellParse`, `Shell`: only the first letter decides the command (`Matches`); a full
  line is executed without Enter (`read_char`).
- `Vga`: a backspace is printed like any other character, and bytes from 128 on
  set every bit of the colour (`Cell`).
- `Serial`: the divisor is 257 and not the commented 1, because both of its bytes
  are set to 1 (`serial_init`).
- `Boot`: initialization routines return 1 where their headers document 0, and
  `kmain` relies on it (`init_result`).

### Bounds, and why they are enough

- Nine pages are one full byte of the bitmap and one page of the next, so both
  sides of the byte boundary and the padding occur; every page can run out.
- The heap has the code's header (12) and minimum (32) and room for four smallest
  blocks: requests lie on both sides of each limit (20 and 21 around the minimum,
  128 and 129 around the heap, the largest `size_t`), and free blocks are reused
  for smaller ones with neighbours on both sides.
- `CounterMod` and `SizeMod` are 65536 instead of 2^32: far above every value
  that the small instance computes without an error, as 2^32 is in the kernel.
- A ring of three slots holds two characters; full, empty and wrapped occur
  with every position of the reader. The keys are one of each kind the handler or the
  keyboard distinguishes: a letter, either shift, Ctrl; with a prefix right Ctrl, Delete
  (shift codes around it, and a character of its own) and Pause.
- Lines of seven characters hold up to four words, one more than `SHELL_MAX_ARGS`
  in the instance, with single and double blanks and both kinds of blank.
- Four process slots are the idle process, a process that may be complete, one
  that is being created and one that is free; contexts (the heap may start with
  some taken) and pages run out before, with and after the slots.
- `boot` has the timer, the keyboard and a line whose vector no driver registers (it
  stays masked); the driver lines are one of each controller, line 8 being the
  first of the second. Both vectors that a loader may leave are initial states.
- A screen of two columns and three rows wraps and scrolls within five characters,
  and moves rows that are neither first nor last; the bytes are a letter, one above
  127 and the newline. Messages fit in a row, as the kernel's do on 80 columns.
- A limit of three polls has a first, a middle and a last one; a transmitter FIFO of
  two is empty, half full and full; three calls are a failure, its repetition and a
  call after it.
- In `vmm` the frames in their order are page 0, one that can be a
  table, three of the kernel, one that can be a table again (after others took the
  kernel's), and one beyond the identity map; two pages share one table, a third needs
  another, two are aliases, and one is in the identity map. The kernel spans both kernel tables. One cached
  translation is enough because cached translations do not influence each other.

Deadlock is checked except where the system really stops: `cmd_reboot`,
`proc_halt_all`, in `vmm` after a page fault or a write over the kernel, in `boot` and `vga` after an exception handler has stopped the machine, and in `serial` when
its callers and the line have done all that the bounds allow.

### Fairness

`WF(kmalloc)`: the thread that called it goes on after every interrupt.
`WF(kbd_getchar \/ poll)` and `WF(shell_run)`: the shell's loop never blocks and no
handler keeps the processor. `WF(scheduler_tick)`: the timer interrupts for ever;
`WF(proc_create)`: an interrupted call goes on. In `Boot`, `WF(kmain)` and `WF(handlers)`: the processor goes on;
`WF(raise(0))`: the timer runs at 100 Hz for ever; `WF(take)`: an interrupt that
stays offered while interrupts are enabled is taken. In `Serial` only the thread
is fair: the line promises nothing. No fairness is assumed of keys, other devices, of
callers or of calls that need not be made; `ReadyGetsChosen` speaks of the time
after the last call of the process interface.

## What is proved

Eight modules hold proofs. Each theorem is about the specification that the runs
check, for every value of the constants that its module's named assumption allows;
each inductive invariant was first checked by TLC on the run's instance. Every
invariant and every action property of the passing runs is the subject of a theorem.

Five of them are about recursive functions of data of any length (a line, a text, the
strings sent so far). The library states induction and recursive
definition for an operator parameter, which the provers cannot instantiate; `Least`,
`Induction` and `Recursion` in `ConsoleProofs` and `ShellProofs` restate them for a set in
the place of the predicate and a function in the place of the operator.

**`PmmProofs`**, from `PmmAssumption` (at least one page; fewer pages than the
counter's modulus; stray addresses are natural numbers):

- `PmmCounters`: `TypeOK` and `CountersExact`: no wrap of the counter, and both
  getters are exact;
- `PmmExclusive`: a held frame is marked and has one holder;
- `PmmNoLeak`: only page 0 can be lost, and padding bits stay clear;
- `PmmRefinement`: `Pmm` implements `FrameAllocator`.

The inductive invariant is the conjunction of the five properties. None of them is
inductive alone: that a decrement does not wrap needs the counter to be the number
of set bits, that `pmm_free` of a held address is accepted (and so that forgetting
it loses nothing) needs the exclusiveness, and the count needs the bitmap's type.
`AllocFacts` says what one `pmm_alloc` does, for the modules that call it.

**`HeapProofs`**, from `HeapAssumption` (a header smaller than the smallest block; twice
the heap and a block do not wrap, as with 8 MB and 2^32): `HeapChain`, `HeapUsed`,
`HeapSearch`, and `HeapRefinement`, that `Heap` implements `Regions`. The invariant is
the three properties and `Asked` (the request of a search was acceptable). They need
each other: only because the headers tile the heap does a step of the search land on
a header, and only because the search has passed every block before it does growing
the heap not lose one.

**`KeyboardProofs`**, from `KeyboardAssumption` (a ring of two slots or more, scan codes of
seven bits): `KeyboardNotStale`, `KeyboardModifiers`, `KeyboardDrops`, and
`KeyboardRefinement`, that the ring with its interruptible reader implements `KbdQueue`.
The invariant is `TestNotStale` and `ModifiersNotStuck`; it is inductive because the handler
moves `tail` only, never onto `head`. The rest is arithmetic on the ring: the queue is
the slots from `head` on, and one of them is always left empty.

**`ShellProofs`**, from `ShellAssumption` (the driver's): `ShellLine`, that the line executed
is the line typed, from the driver's invariant, the types and `ReadInv` (while a line is
read, what stands before `len` is `typed`, and there is room for a character and its NUL). Then, from
`ShellParseAssumption` (room for a character and its NUL, and for an argument) and
`LinesAssumption` (lines of natural numbers that fit in `cmdline`), what `ShellLines` states:
`LinesBounds`, `LinesWords` and `LinesNames`; and `ShellParses`, the same of every line that
`shell_execute` gets in the running shell. `ExecutedLine` says that this line is a string of
at most `SHELL_MAX_CMD_LEN - 1` characters, none of them NUL, which needs the scan code
table (`CharCodes`). The loop's invariant is `Scanned`: after i turns the arguments begun are
the words that start in the first i characters, each `argv` is where its word starts, and
`buf_idx` is how far the scan is in the word it is in, until the arguments run out and the
loop stands still. `LinesNames` also needs that no two commands begin with the same
letter, which is seen from the table.

**`SchedulerProofs`**, from `ProcessAssumption`: `SchedulerIntact`, `SchedulerFailures`, and
the action properties `SchedulerZombies`, `SchedulerUnset` and `SchedulerWait`. The last,
stated in the proof module (`WaitShrinks`), is the reason for `ReadyGetsChosen` as a safety
property: process 0, which becomes ready at every switch, is chosen at the next tick, and
when its slice ends the search takes the first ready slot behind it; so a tick lowers
`MaxWait`, a bound in ticks, of every slot that stays ready. The invariant has a part for
each thing that `proc_create` collects over its steps: `ContextsOK` (which registers are
set, and whose), `DirsOK` (a page directory is a frame of its own), `FailuresOK` (page 0
is only free before the first call), on top of the invariant of `PmmProofs`, which is
instantiated.

**`VmmProofs`**, from `VmmAssumption` (the geometry of directory, tables and identity map;
the kernel inside the identity map; callers map no page that the kernel runs in):
`VmmMappings`, `VmmKernel`, `VmmFaults`, `VmmTables`, `VmmStale`. The invariant has two
parts. Without any condition, a directory entry that is not the kernel's is a frame that
`vmm_map` holds and that no other entry has (`DirectoryOK`), on top of the invariant of
`PmmProofs`. While the kernel runs and `InReach` holds, its directory entries and the identity map are as
`vmm_init` left them, and what callers were told is what the tables hold. Hence an access
to a table ends at the table (`IdentityReached`), a write changes the translation of a page
and its alias and no other (`StoredWalk`), and a new table disturbs nothing, whatever it
holds (`NewTableOK`). `InReach` once lost is lost for good, as directory entries are never
taken back and `told` only grows; so it need not be re-established.

**`BootProofs`**, from `BootAssumption` (which lines there are, and that vector bases are
multiples of 8): `BootMasks` and `BootMemory`, for either value of `LoadedAsLinked` and
`GdtAsDocumented`, and `BootService` for firmware whose vectors have gates
(`BasesHaveGates`; the bases 8 and 32 of the run do, and without a gate the first interrupt
resets the machine) and for both of those constants TRUE (`Starts`; otherwise the machine
resets, see `DocumentedSegments`). The invariant says what `kmain` has done at
each call (`Progress`), that one line at most is in service, and only while a handler
runs (`Controllers`), and what each mask holds (`Masks`). `BootMemory` also uses
`InPlace`: `kmain` makes a call only where the image is.

**`ConsoleProofs`**, about the two devices the kernel writes to. Of `Vga`, from
`VgaAssumption` (three rows or more; messages that fit in a row, with a newline only at
the end): `VgaCursor`, `VgaPanic` and `VgaTail`. The invariant says where the cursor is at
each assignment of `vga_putchar`: past the last column or below the last row, but never
both (`Near`), which keeps the handler that strikes there inside video memory; and that
the part of the message printed so far ends at the cursor (`Printed`), through any
scrolling. `VgaTail` is `ShowsTail`, for a text of any length: `TextInv` names the row of the
paper that is at the top of the screen and says, at each assignment, that the screen is
the paper from there on and how far the cursor is behind the end of the text; a character
moves the end of the paper as `vga_putchar` moves the cursor, and scrolling turns the row at
the top into the next one.

Of `Serial`, from `SerialAssumption` (a limit of two polls or more, a FIFO, bytes that are
not NUL): `SerialTruth`, that is `ResultsMatchWire` for any number of calls. `SerialInv` says that what
has left or is in the FIFO is what the calls recorded so far must have sent: every string that was
reported sent, whole, and a beginning of every other one (`Told`), and during a call also
what that call has sent of its string (`Sending`). It is inductive because a byte is only
written after the transmitter was seen empty, so the FIFO never drops one.

### Only model-checked

Liveness, which is out of the prover's reach: `KmallocReturns`, `EveryCharRead`,
`EnterArrives`, `ReadyGetsChosen` (but for the bound that `SchedulerWait` proves), `TicksGoOn`,
`SendReturns`, `AvailableMeansRead`; and the runs that end in a counterexample.

## What is not modelled

- The wording of banners and commands, and the functions that only report figures
  (`scheduler_get_stats`, `scheduler_get_ticks`) with the commands that print them;
  the contents of allocated memory, except headers and page tables.
- Page flags other than PRESENT; addresses inside a page.
- The bytes that program the timer chip, the tick count, and fields that nobody
  reads.
- Of the reload of segment registers in `gdt_flush_asm`, everything but whether the
  descriptors are segments. The `isr` and `irq` stubs, which are not in the
  repository, are taken to call the registered handler and return. The GDT in `boot.asm` is never loaded by code and is left out.
- Callers that free what another one holds (`Pmm`), or free again what has been given out
  since (`Heap`, where it counts as the new holder's own).
- The execution of a kernel whose code or data `vmm_map` has overwritten.
- The cascade of the controllers and spurious interrupts: the cascade line stays
  masked.
- `Pmm`, `Vmm`, `Heap`, `Keyboard` and `Scheduler` each start in the state that their
  `_init` function means to leave; `Boot` says what it leaves in this order of calls.
  The overlap of heap, bitmap and image, and a bitmap that is not clear, are not carried into
  `Heap` and `Pmm`, whose properties hold for memory that nobody else writes.

## Plan

Done, in this order: `Pmm` with its abstract specification and proofs, `Keyboard`
and `KbdQueue`, `ShellParse` and `Shell` over `Keyboard`, `Heap` and `Regions`,
`Process` and `Scheduler` over `Pmm`, `Vmm` over `Pmm`, `Vga`, `Serial`, and `Boot` over
`Interrupts` and `Gdt`.

Then the proofs: `KeyboardProofs`, `HeapProofs`, `BootProofs`, `SchedulerProofs`,
`ShellProofs`, `VmmProofs` and `ConsoleProofs`; last the properties of recursive functions,
with induction restated for them, and the bound on a ready process's wait.

Left open: liveness, for a prover with temporal rules; the measures that TLC's liveness
checks rest on could be stated as action properties elsewhere as `MaxWait` is for the
scheduler (polls left in `Serial`, headers left in `Heap`).
