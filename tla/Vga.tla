-------------------------------- MODULE Vga ---------------------------------
(***************************************************************************)
(* The VGA text driver, src/kernel/drivers/vga.c: a cursor and a screen of *)
(* VGA_WIDTH by VGA_HEIGHT cells that scrolls.                             *)
(*                                                                         *)
(* The kernel's thread prints with interrupts enabled, so vga_putchar is a *)
(* step for each of its assignments.  An exception, or an interrupt that   *)
(* nobody registered a handler for, comes between any two of them: its     *)
(* handler prints a message, using the driver, and never returns           *)
(* (isr_default_handler, isr_page_fault_handler in idt.c).  vga_clear and  *)
(* vga_move_cursor keep the cursor on the screen in all their steps and    *)
(* are one step each, and so is the loop of vga_scroll_up.                 *)
(*                                                                         *)
(* A cell is a colour and a character.  The buffer has one row more than   *)
(* the screen: that is video memory too, but is not shown.                 *)
(***************************************************************************)
EXTENDS Integers, Sequences

CONSTANTS VGA_WIDTH, VGA_HEIGHT,   \* 80 and 25
          Chars,                   \* the bytes that are printed
          Messages,                \* what the handlers that stop print
          MaxText                  \* bound: characters between two vga_clear

NEWLINE == 10

ASSUME VgaAssumption ==
    /\ VGA_WIDTH \in Nat \ {0} /\ VGA_HEIGHT \in Nat /\ VGA_HEIGHT >= 3
    /\ Chars \subseteq 1 .. 255 /\ MaxText \in Nat
    /\ \A m \in Messages : m \in Seq(1 .. 127) /\ Len(m) <= VGA_WIDTH
    /\ \A m \in Messages : \A i \in 1 .. Len(m) : m[i] = NEWLINE => i = Len(m)

VARIABLES vga_state,   \* buffer, cursor_x, cursor_y, and the hardware's cursor
          pc,          \* where vga_putchar is, "idle", "panic" or "stopped"
          text,        \* what was printed since the last vga_clear
          placed,      \* vga_move_cursor was called since
          struck       \* the cursor that a handler found, its message and
                       \* what is left of it to print

vars == <<vga_state, pc, text, placed, struck>>

WHITE   == 15
RED     == 4
BLANK   == <<WHITE, 32>>
Screen  == 0 .. VGA_WIDTH * VGA_HEIGHT - 1
Memory  == 0 .. VGA_WIDTH * (VGA_HEIGHT + 1) - 1
LastRow == VGA_WIDTH * (VGA_HEIGHT - 1)    \* where it starts
None    == [x |-> 0, y |-> 0, message |-> <<>>, left |-> <<>>]

(* color << 8 | ch: a char is signed, so the bytes from 128 on set all the *)
(* bits of the colour.                                                     *)
Cell(c, color) == <<IF c < 128 THEN color ELSE 255, c>>
-----------------------------------------------------------------------------
(* The assignments of vga_putchar, on a state s of the driver. *)
Position(s) == s.cursor_y * VGA_WIDTH + s.cursor_x
store(s, c, color) == [s EXCEPT !.buffer[Position(s)] = Cell(c, color)]
right(s)  == [s EXCEPT !.cursor_x = @ + 1]
home(s)   == [s EXCEPT !.cursor_x = 0]
down(s)   == [s EXCEPT !.cursor_y = @ + 1]
bottom(s) == [s EXCEPT !.cursor_y = VGA_HEIGHT - 1]
update_hardware_cursor(s) == [s EXCEPT !.hw_cursor = Position(s)]

(* Mutant: the cursor may leave the last column. *)
PastRight_late(s) == s.cursor_x > VGA_WIDTH

PastRight(s) == s.cursor_x >= VGA_WIDTH

(* Mutant: off by one, the screen scrolls a row too late. *)
PastBottom_late(s) == s.cursor_y > VGA_HEIGHT

PastBottom(s) == s.cursor_y >= VGA_HEIGHT

(* Mutant: the last line is not cleared. *)
vga_scroll_up_dirty(s) ==
    [s EXCEPT !.buffer = [i \in Memory |->
        IF i < LastRow THEN s.buffer[i + VGA_WIDTH]
        ELSE s.buffer[i]]]

vga_scroll_up(s) ==
    [s EXCEPT !.buffer = [i \in Memory |->
        IF i < LastRow THEN s.buffer[i + VGA_WIDTH]
        ELSE IF i \in Screen THEN BLANK
        ELSE s.buffer[i]]]

Scrolled(s) == IF PastBottom(s) THEN bottom(vga_scroll_up(s)) ELSE s
Wrapped(s)  == IF PastRight(s) THEN Scrolled(down(home(s))) ELSE s

(* The whole of vga_putchar. *)
vga_putchar(s, c, color) ==
    update_hardware_cursor(
        IF c = NEWLINE THEN Scrolled(home(down(s))) ELSE Wrapped(right(store(s, c, color))))

vga_clear(s) ==
    [s EXCEPT !.buffer = [i \in Memory |-> IF i \in Screen THEN BLANK ELSE @[i]],
              !.cursor_x = 0, !.cursor_y = 0, !.hw_cursor = 0]

Clamp(n, size) == IF n >= size THEN size - 1 ELSE n

vga_move_cursor(s, x, y) ==
    update_hardware_cursor([s EXCEPT !.cursor_x = Clamp(x, VGA_WIDTH),
                                     !.cursor_y = Clamp(y, VGA_HEIGHT)])

vga_get_cursor == <<vga_state.cursor_x, vga_state.cursor_y>>
-----------------------------------------------------------------------------
(* vga_init, on whatever video memory held. *)
Init ==
    /\ vga_state = vga_clear([buffer |-> [i \in Memory |-> <<0, 0>>],
                              cursor_x |-> 0, cursor_y |-> 0, hw_cursor |-> 0])
    /\ pc = "idle" /\ text = <<>> /\ placed = FALSE /\ struck = None

(* The thread calls vga_putchar, which starts with one of two assignments. *)
put_newline ==
    /\ vga_state' = down(vga_state)
    /\ pc' = "home"

put_glyph(c) ==
    /\ vga_state' = store(vga_state, c, WHITE)
    /\ pc' = "right"

put(c) ==
    /\ pc = "idle" /\ Len(text) < MaxText
    /\ \/ c = NEWLINE /\ put_newline
       \/ c # NEWLINE /\ put_glyph(c)
    /\ text' = Append(text, c)
    /\ UNCHANGED <<placed, struck>>

(* One more assignment, and where the tests after it lead. *)
step(at, op(_), next(_)) ==
    /\ pc = at
    /\ vga_state' = op(vga_state)
    /\ pc' = next(vga_state')
    /\ UNCHANGED <<text, placed, struck>>

AfterRow(s) == IF PastBottom(s) THEN "scroll" ELSE "update"

continue ==
    \/ step("home", home, AfterRow)
    \/ step("right", right, LAMBDA s : IF PastRight(s) THEN "wrap" ELSE "update")
    \/ step("wrap", home, LAMBDA s : "down")
    \/ step("down", down, AfterRow)
    \/ step("scroll", vga_scroll_up, LAMBDA s : "bottom")
    \/ step("bottom", bottom, LAMBDA s : "update")
    \/ step("update", update_hardware_cursor, LAMBDA s : "idle")

clear ==
    /\ pc = "idle"
    /\ vga_state' = vga_clear(vga_state)
    /\ text' = <<>> /\ placed' = FALSE
    /\ UNCHANGED <<pc, struck>>

move(x, y) ==
    /\ pc = "idle"
    /\ vga_state' = vga_move_cursor(vga_state, x, y)
    /\ placed' = TRUE
    /\ UNCHANGED <<pc, text, struck>>

(* A handler that never returns takes over; nothing interrupts it. *)
exception(message) ==
    /\ pc \notin {"panic", "stopped"}
    /\ pc' = "panic"
    /\ struck' = [x |-> vga_state.cursor_x, y |-> vga_state.cursor_y,
                  message |-> message, left |-> message]
    /\ UNCHANGED <<vga_state, text, placed>>

(* It prints with vga_putstr, a character at a time, and stops. *)
vga_putstr ==
    /\ pc = "panic"
    /\ \/ /\ struck.left # <<>>
          /\ vga_state' = vga_putchar(vga_state, Head(struck.left), RED)
          /\ struck' = [struck EXCEPT !.left = Tail(@)]
          /\ UNCHANGED pc
       \/ /\ struck.left = <<>>
          /\ pc' = "stopped"
          /\ UNCHANGED <<vga_state, struck>>
    /\ UNCHANGED <<text, placed>>

Next ==
    \/ \E c \in Chars : put(c)
    \/ continue
    \/ clear
    \/ \E x \in 0 .. VGA_WIDTH, y \in 0 .. VGA_HEIGHT : move(x, y)
    \/ \E message \in Messages : exception(message)
    \/ vga_putstr

Spec == Init /\ [][Next]_vars
-----------------------------------------------------------------------------
(* Reference: where the n-th character of the text would stand on a roll   *)
(* of paper VGA_WIDTH wide, and what a cell of the paper shows.            *)
Paper ==
    LET at[n \in 0 .. Len(text)] ==
          IF n = 0 THEN 0
          ELSE IF text[n] = NEWLINE
               THEN (at[n - 1] \div VGA_WIDTH + 1) * VGA_WIDTH
               ELSE at[n - 1] + 1
    IN  at

Shown(i) ==
    LET here == {n \in 1 .. Len(text) : Paper[n - 1] = i /\ text[n] # NEWLINE}
    IN  IF here = {} THEN BLANK ELSE Cell(text[CHOOSE n \in here : TRUE], WHITE)

(* After any sequence of characters, line wraps and scrolls, the screen    *)
(* shows the last rows of the text as on a roll of paper, and the cursor   *)
(* stands where the text ends.                                             *)
ShowsTail ==
    pc = "idle" /\ ~placed =>
        LET end == Paper[Len(text)]
            top == IF end \div VGA_WIDTH < VGA_HEIGHT THEN 0
                   ELSE end \div VGA_WIDTH - (VGA_HEIGHT - 1)
        IN  /\ \A i \in Screen : vga_state.buffer[i] = Shown(top * VGA_WIDTH + i)
            /\ vga_get_cursor = <<end % VGA_WIDTH, end \div VGA_WIDTH - top>>

(* Between calls the cursor is on the screen and the hardware's cursor     *)
(* with it, and at no time, inside a call or after a handler has printed   *)
(* from there, is the next cell more than one row behind the screen.       *)
CursorOnScreen ==
    /\ vga_state.buffer \in [Memory -> (0 .. 255) \X (0 .. 255)]
    /\ Position(vga_state) \in Memory
    /\ pc = "idle" =>
         /\ vga_state.cursor_x < VGA_WIDTH /\ vga_state.cursor_y < VGA_HEIGHT
         /\ vga_state.hw_cursor = Position(vga_state)

(* The characters of a message stand on the screen, in red. *)
Visible(message) ==
    \E p \in Screen : \A i \in 1 .. Len(message) :
        message[i] # NEWLINE =>
            p + i - 1 \in Screen /\ vga_state.buffer[p + i - 1] = <<RED, message[i]>>

(* When the machine has stopped its message can be read, unless the        *)
(* handler struck inside vga_putchar while the cursor was past the last    *)
(* column or below the last row: then it prints where nobody sees it.      *)
PanicShown ==
    pc = "stopped" =>
        \/ Visible(struck.message)
        \/ struck.x >= VGA_WIDTH \/ struck.y >= VGA_HEIGHT
=============================================================================
