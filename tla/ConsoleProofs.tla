--------------------------- MODULE ConsoleProofs ----------------------------
(***************************************************************************)
(* Proofs about the two devices the kernel writes to.                      *)
(*                                                                         *)
(* The VGA text driver, for a screen of any size from three rows on and    *)
(* with a handler that strikes between any two assignments of vga_putchar: *)
(* where the cursor can be, where the handler's message is found when the  *)
(* machine has stopped, and that the screen shows the end of the text.     *)
(*                                                                         *)
(* The serial driver, for any time limit, any FIFO and any strings: what   *)
(* callers are told of a string is what the wire carries of it.            *)
(*                                                                         *)
(* Both are about recursive functions over data of any length.  No prover  *)
(* here can instantiate an induction theorem about a predicate, so         *)
(* induction is restated for a set, and recursion for a function of step   *)
(* functions, as lemmas of first-order logic.                              *)
(***************************************************************************)
EXTENDS Vga, Serial, SequenceTheorems, NaturalsInduction, WellFoundedInduction, TLAPS

-----------------------------------------------------------------------------
(* Every non-empty set of natural numbers has a smallest element. *)
LEMMA Least ==
    ASSUME NEW S \in SUBSET Nat, S # {}
    PROVE  \E m \in S : \A y \in S : m =< y
<1>1. \A x, y \in Nat : x < y => <<x, y>> \in OpToRel(<, Nat)
  BY Zenon DEF OpToRel
<1>2. PICK R : IsWellFoundedOn(R, Nat) /\ \A x, y \in Nat : x < y => <<x, y>> \in R
  BY <1>1, NatLessThanWellFounded, Zenon
<1>3. PICK x \in S : \A y \in S : ~(<<y, x>> \in R)
  <2>1. S \subseteq Nat /\ S # {}
    OBVIOUS
  <2>2. \A Q, T : IsWellFoundedOn(Q, Nat) /\ T \subseteq Nat /\ T # {}
                    => \E x \in T : \A y \in T : ~(<<y, x>> \in Q)
    BY WFMin, Zenon
  <2>3. QED
    BY <1>2, <2>1, <2>2, Zenon
<1>4. ASSUME NEW y \in S PROVE x =< y
  <2>1. x \in Nat /\ y \in Nat
    OBVIOUS
  <2>2. ~(y < x)
    BY <1>2, <1>3, <2>1, Zenon
  <2>3. QED
    BY <2>1, <2>2, SMT
<1>5. QED
  BY <1>4

(* Induction up to N, for a set in the place of a predicate. *)
LEMMA Induction ==
    ASSUME NEW N \in Nat, NEW S, 0 \in S,
           \A n \in 0 .. N - 1 : n \in S => n + 1 \in S
    PROVE  0 .. N \subseteq S
<1>. DEFINE Bad == {n \in 0 .. N : n \notin S}
<1>1. SUFFICES ASSUME Bad # {} PROVE FALSE
  OBVIOUS
<1>2. Bad \in SUBSET Nat
  OBVIOUS
<1>3. PICK m \in Bad : \A y \in Bad : m =< y
  BY <1>1, <1>2, Least
<1>4. m \in 1 .. N /\ m - 1 \in 0 .. N - 1 /\ (m - 1) + 1 = m
  OBVIOUS
<1>5. m - 1 \in S
  BY <1>3, <1>4
<1>6. QED
  BY <1>4, <1>5

(* The functions that a step function defines by primitive recursion. *)
Steps(S, N) == [1 .. N -> [S -> S]]
Iterates(S, e, N, g) ==
    {f \in [0 .. N -> S] : f[0] = e /\ \A i \in 1 .. N : f[i] = g[i][f[i - 1]]}

LEMMA Recursion ==
    ASSUME NEW S, NEW e \in S, NEW N \in Nat, NEW g \in Steps(S, N)
    PROVE  Iterates(S, e, N, g) # {}
<1>. DEFINE Good == {n \in 0 .. N : Iterates(S, e, n, g) # {}}
<1>. USE DEF Iterates, Steps
<1>1. 0 \in Good
  <2>1. [i \in 0 .. 0 |-> e] \in Iterates(S, e, 0, g)
    OBVIOUS
  <2>2. QED
    BY <2>1
<1>2. ASSUME NEW n \in 0 .. N - 1, n \in Good PROVE n + 1 \in Good
  <2>1. PICK f \in Iterates(S, e, n, g) : TRUE
    BY <1>2
  <2>. DEFINE h == [i \in 0 .. n + 1 |-> IF i = n + 1 THEN g[n + 1][f[n]] ELSE f[i]]
  <2>2. n + 1 \in 1 .. N /\ f[n] \in S /\ g[n + 1][f[n]] \in S
    OBVIOUS
  <2>3. h \in [0 .. n + 1 -> S] /\ h[0] = e
    BY <2>2
  <2>4. ASSUME NEW i \in 1 .. n + 1 PROVE h[i] = g[i][h[i - 1]]
    <3>1. CASE i = n + 1
      <4>1. h[n + 1] = g[n + 1][f[n]] /\ h[n] = f[n] /\ i - 1 = n
        BY <3>1
      <4>2. QED
        BY <3>1, <4>1, Zenon
    <3>2. CASE i # n + 1
      <4>1. i \in 1 .. n /\ h[i] = f[i] /\ h[i - 1] = f[i - 1]
        BY <3>2
      <4>2. f[i] = g[i][f[i - 1]]
        BY <4>1
      <4>3. QED
        BY <4>1, <4>2, Zenon
    <3>3. QED
      BY <3>1, <3>2
  <2>. HIDE DEF h
  <2>5. h \in Iterates(S, e, n + 1, g)
    BY <2>3, <2>4
  <2>6. QED
    BY <2>5
<1>. HIDE DEF Good
<1>3. 0 .. N \subseteq Good
  BY <1>1, <1>2, Induction
<1>4. QED
  BY <1>3 DEF Good
-----------------------------------------------------------------------------
W == VGA_WIDTH
H == VGA_HEIGHT

(* The offset of a cell is inside the screen, or in the row behind it. *)
LEMMA Grid ==
    /\ W \in Nat /\ W >= 1 /\ H \in Nat /\ H >= 3
    /\ LastRow \in Nat /\ LastRow >= 2 * W /\ LastRow = (H - 1) * W
    /\ Screen = 0 .. LastRow + W - 1 /\ Memory = 0 .. LastRow + 2 * W - 1
    /\ \A y \in Nat : y * W \in Nat /\ (y + 1) * W = y * W + W
    /\ \A y \in Nat : y < H => y * W =< LastRow
    /\ \A y \in Nat : y =< H => y * W =< LastRow + W
<1>1. W \in Nat /\ W >= 1 /\ H \in Nat /\ H >= 3
  BY VgaAssumption DEF W, H
<1>2. \A a, d, w \in Nat : /\ a * w \in Nat /\ (a + d) * w = a * w + d * w
                           /\ w * a = a * w
  BY SMT
<1>3. \A a, b, w \in Nat : a =< b => a * w =< b * w
  <2>. SUFFICES ASSUME NEW a \in Nat, NEW b \in Nat, NEW w \in Nat, a =< b
                PROVE  a * w =< b * w
    OBVIOUS
  <2>1. b - a \in Nat /\ b = a + (b - a)
    OBVIOUS
  <2>2. b * w = a * w + (b - a) * w /\ (b - a) * w \in Nat /\ a * w \in Nat
    BY <1>2, <2>1
  <2>3. QED
    BY <2>2
<1>4. \A y \in Nat : y * W \in Nat /\ (y + 1) * W = y * W + W
  BY <1>1, <1>2
<1>5. H - 1 \in Nat /\ H - 2 \in Nat /\ LastRow = (H - 1) * W
  BY <1>1, <1>2 DEF LastRow, W, H
<1>6. (H - 1) * W >= 2 * W /\ (H - 1) * W \in Nat
  BY <1>1, <1>2, <1>3, <1>5
<1>7. H * W = (H - 1) * W + W /\ (H + 1) * W = (H - 1) * W + 2 * W
  <2>1. (H - 1) + 1 = H /\ H + 1 = H + 1
    BY <1>1
  <2>2. QED
    BY <1>1, <1>4, <1>5, <2>1
<1>8. Screen = 0 .. LastRow + W - 1 /\ Memory = 0 .. LastRow + 2 * W - 1
  <2>1. W * H = H * W /\ W * (H + 1) = (H + 1) * W
    BY <1>1, <1>2
  <2>2. QED
    BY <1>1, <1>5, <1>7, <2>1 DEF Screen, Memory, W, H
<1>9. \A y \in Nat : y < H => y * W =< LastRow
  BY <1>1, <1>3, <1>5
<1>10. \A y \in Nat : y =< H => y * W =< LastRow + W
  BY <1>1, <1>3, <1>5, <1>7
<1>11. QED
  BY <1>1, <1>4, <1>5, <1>6, <1>8, <1>9, <1>10

(* The same without products. *)
LEMMA Sizes ==
    /\ W \in Nat /\ W >= 1 /\ H \in Nat /\ H >= 3
    /\ LastRow \in Nat /\ LastRow >= 2 * W
    /\ Screen = 0 .. LastRow + W - 1 /\ Memory = 0 .. LastRow + 2 * W - 1
BY Grid, Zenon
-----------------------------------------------------------------------------
Cells == (0 .. 255) \X (0 .. 255)
Buffers == [Memory -> Cells]
VgaStates == [buffer : Buffers, cursor_x : Nat, cursor_y : Nat, hw_cursor : Nat]

(* The buffer after a scroll. *)
Up(b) == [i \in Memory |-> IF i < LastRow THEN b[i + W]
                           ELSE IF i \in Screen THEN BLANK ELSE b[i]]

(* The buffer after a character is stored at the cursor. *)
Stored(s, c, color) == [s.buffer EXCEPT ![Position(s)] = <<color, c>>]

LEMMA UpBuffer == ASSUME NEW b \in Buffers PROVE Up(b) \in Buffers
<1>1. BLANK \in Cells
  BY DEF BLANK, WHITE, Cells
<1>2. \A i \in Memory : i < LastRow => i + W \in Memory
  BY Grid
<1>3. QED
  BY <1>1, <1>2 DEF Up, Buffers

(* What each assignment does to the fields of the driver's state. *)
LEMMA Assignments ==
    ASSUME NEW s \in VgaStates
    PROVE  /\ right(s) \in VgaStates /\ right(s).buffer = s.buffer
           /\ right(s).cursor_x = s.cursor_x + 1 /\ right(s).cursor_y = s.cursor_y
           /\ home(s) \in VgaStates /\ home(s).buffer = s.buffer
           /\ home(s).cursor_x = 0 /\ home(s).cursor_y = s.cursor_y
           /\ down(s) \in VgaStates /\ down(s).buffer = s.buffer
           /\ down(s).cursor_x = s.cursor_x /\ down(s).cursor_y = s.cursor_y + 1
           /\ bottom(s) \in VgaStates /\ bottom(s).buffer = s.buffer
           /\ bottom(s).cursor_x = s.cursor_x /\ bottom(s).cursor_y = H - 1
<1>1. PICK b \in Buffers, x \in Nat, y \in Nat, h \in Nat :
         s = [buffer |-> b, cursor_x |-> x, cursor_y |-> y, hw_cursor |-> h]
  BY DEF VgaStates
<1>2. H - 1 \in Nat
  BY Grid
<1>3. QED
  BY <1>1, <1>2 DEF VgaStates, right, home, down, bottom, H

LEMMA PositionNat == ASSUME NEW s \in VgaStates PROVE Position(s) \in Nat
<1>1. s.cursor_x \in Nat /\ s.cursor_y * W \in Nat
  BY Grid DEF VgaStates
<1>2. QED
  BY <1>1 DEF Position, W

LEMMA Updates ==
    ASSUME NEW s \in VgaStates
    PROVE  /\ update_hardware_cursor(s) \in VgaStates
           /\ update_hardware_cursor(s).buffer = s.buffer
           /\ update_hardware_cursor(s).cursor_x = s.cursor_x
           /\ update_hardware_cursor(s).cursor_y = s.cursor_y
           /\ update_hardware_cursor(s).hw_cursor = Position(s)
           /\ Position(update_hardware_cursor(s)) = Position(s)
<1>1. PICK b \in Buffers, x \in Nat, y \in Nat, h \in Nat :
         s = [buffer |-> b, cursor_x |-> x, cursor_y |-> y, hw_cursor |-> h]
  BY DEF VgaStates
<1>2. update_hardware_cursor(s) = [s EXCEPT !.hw_cursor = Position(s)]
  BY DEF update_hardware_cursor
<1>3. /\ update_hardware_cursor(s) \in VgaStates
      /\ update_hardware_cursor(s).buffer = s.buffer
      /\ update_hardware_cursor(s).cursor_x = s.cursor_x
      /\ update_hardware_cursor(s).cursor_y = s.cursor_y
      /\ update_hardware_cursor(s).hw_cursor = Position(s)
  BY <1>1, <1>2, PositionNat DEF VgaStates
<1>4. QED
  BY <1>3 DEF Position

LEMMA Stores ==
    ASSUME NEW s \in VgaStates, NEW c \in 1 .. 255, NEW color \in 0 .. 255
    PROVE  /\ store(s, c, color) \in VgaStates
           /\ store(s, c, color).buffer =
                 [s.buffer EXCEPT ![Position(s)] = Cell(c, color)]
           /\ store(s, c, color).cursor_x = s.cursor_x
           /\ store(s, c, color).cursor_y = s.cursor_y
           /\ c < 128 => store(s, c, color).buffer = Stored(s, c, color)
<1>1. PICK b \in Buffers, x \in Nat, y \in Nat, h \in Nat :
         s = [buffer |-> b, cursor_x |-> x, cursor_y |-> y, hw_cursor |-> h]
  BY DEF VgaStates
<1>2. Cell(c, color) \in Cells /\ (c < 128 => Cell(c, color) = <<color, c>>)
  BY DEF Cell, Cells
<1>3. [b EXCEPT ![Position(s)] = Cell(c, color)] \in Buffers
  BY <1>2 DEF Buffers
<1>4. QED
  BY <1>1, <1>2, <1>3 DEF store, VgaStates, Stored

LEMMA Scrolls ==
    ASSUME NEW s \in VgaStates
    PROVE  /\ vga_scroll_up(s) \in VgaStates /\ vga_scroll_up(s).buffer = Up(s.buffer)
           /\ vga_scroll_up(s).cursor_x = s.cursor_x
           /\ vga_scroll_up(s).cursor_y = s.cursor_y
<1>1. PICK b \in Buffers, x \in Nat, y \in Nat, h \in Nat :
         s = [buffer |-> b, cursor_x |-> x, cursor_y |-> y, hw_cursor |-> h]
  BY DEF VgaStates
<1>2. vga_scroll_up(s) = [s EXCEPT !.buffer = Up(s.buffer)]
  BY DEF vga_scroll_up, Up, W
<1>3. QED
  BY <1>1, <1>2, UpBuffer DEF VgaStates

LEMMA ScrolledIf ==
    ASSUME NEW s \in VgaStates
    PROVE  /\ Scrolled(s) \in VgaStates /\ Scrolled(s).cursor_x = s.cursor_x
           /\ s.cursor_y >= H => /\ Scrolled(s).cursor_y = H - 1
                                 /\ Scrolled(s).buffer = Up(s.buffer)
           /\ s.cursor_y < H => Scrolled(s) = s
<1>1. PastBottom(s) <=> s.cursor_y >= H
  BY DEF PastBottom, H
<1>2. CASE s.cursor_y >= H
  <2>1. Scrolled(s) = bottom(vga_scroll_up(s))
    BY <1>1, <1>2 DEF Scrolled
  <2>2. /\ vga_scroll_up(s) \in VgaStates /\ vga_scroll_up(s).buffer = Up(s.buffer)
        /\ vga_scroll_up(s).cursor_x = s.cursor_x
    BY Scrolls
  <2>3. s.cursor_y \in Nat /\ ~(s.cursor_y < H)
    BY <1>2, Grid DEF VgaStates
  <2>4. QED
    BY <1>2, <2>1, <2>2, <2>3, Assignments
<1>3. CASE ~(s.cursor_y >= H)
  BY <1>1, <1>3, Zenon DEF Scrolled
<1>4. QED
  BY <1>2, <1>3

(* What a call of vga_putchar that is not interrupted does. *)
LEMMA PutNewline ==
    ASSUME NEW s \in VgaStates, NEW color
    PROVE  LET t == vga_putchar(s, NEWLINE, color)
           IN  /\ t \in VgaStates /\ t.cursor_x = 0
               /\ s.cursor_y + 1 < H =>
                     t.cursor_y = s.cursor_y + 1 /\ t.buffer = s.buffer
               /\ s.cursor_y + 1 >= H =>
                     t.cursor_y = H - 1 /\ t.buffer = Up(s.buffer)
<1>. DEFINE a == home(down(s))
            b == Scrolled(a)
<1>1. /\ a \in VgaStates /\ a.cursor_x = 0 /\ a.cursor_y = s.cursor_y + 1
      /\ a.buffer = s.buffer
  BY Assignments
<1>. HIDE DEF a
<1>2. /\ b \in VgaStates /\ b.cursor_x = 0
      /\ s.cursor_y + 1 < H => b.cursor_y = s.cursor_y + 1 /\ b.buffer = s.buffer
      /\ s.cursor_y + 1 >= H => b.cursor_y = H - 1 /\ b.buffer = Up(s.buffer)
  BY <1>1, ScrolledIf
<1>3. vga_putchar(s, NEWLINE, color) = update_hardware_cursor(b)
  BY Zenon DEF vga_putchar, a
<1>. HIDE DEF b
<1>4. QED
  BY <1>2, <1>3, Updates

LEMMA PutGlyph ==
    ASSUME NEW s \in VgaStates, NEW c \in 1 .. 127, c # NEWLINE, NEW color \in 0 .. 255
    PROVE  LET t == vga_putchar(s, c, color)
               b == Stored(s, c, color)
           IN  /\ t \in VgaStates
               /\ s.cursor_x + 1 < W =>
                     /\ t.cursor_x = s.cursor_x + 1 /\ t.cursor_y = s.cursor_y
                     /\ t.buffer = b
               /\ s.cursor_x + 1 >= W =>
                     /\ t.cursor_x = 0
                     /\ s.cursor_y + 1 < H =>
                           t.cursor_y = s.cursor_y + 1 /\ t.buffer = b
                     /\ s.cursor_y + 1 >= H =>
                           t.cursor_y = H - 1 /\ t.buffer = Up(b)
<1>. DEFINE b == Stored(s, c, color)
            a == right(store(s, c, color))
            d == down(home(a))
            e == Scrolled(d)
            f == Wrapped(a)
<1>0. s.cursor_x \in Nat /\ s.cursor_y \in Nat
  BY DEF VgaStates
<1>1. /\ a \in VgaStates /\ a.cursor_x = s.cursor_x + 1
      /\ a.cursor_y = s.cursor_y /\ a.buffer = b
  <2>1. c \in 1 .. 255 /\ c < 128
    OBVIOUS
  <2>. DEFINE r == store(s, c, color)
  <2>2. /\ r \in VgaStates /\ r.cursor_x = s.cursor_x
        /\ r.cursor_y = s.cursor_y /\ r.buffer = b
    BY <2>1, Stores
  <2>. HIDE DEF r
  <2>3. QED
    BY <2>2, Assignments DEF r
<1>2. vga_putchar(s, c, color) = update_hardware_cursor(f)
  BY Zenon DEF vga_putchar
<1>. HIDE DEF a
<1>3. /\ d \in VgaStates /\ d.cursor_x = 0 /\ d.cursor_y = s.cursor_y + 1
      /\ d.buffer = b
  BY <1>1, Assignments
<1>4. f = IF s.cursor_x + 1 >= W THEN e ELSE a
  BY <1>1 DEF Wrapped, PastRight, W
<1>. HIDE DEF d, f
<1>5. /\ e \in VgaStates /\ e.cursor_x = 0
      /\ s.cursor_y + 1 < H => e.cursor_y = s.cursor_y + 1 /\ e.buffer = b
      /\ s.cursor_y + 1 >= H => e.cursor_y = H - 1 /\ e.buffer = Up(b)
  BY <1>3, ScrolledIf
<1>. HIDE DEF e
<1>6. /\ f \in VgaStates
      /\ s.cursor_x + 1 < W => f = a
      /\ s.cursor_x + 1 >= W => f = e
  BY <1>0, <1>1, <1>4, <1>5, Grid
<1>7. QED
  BY <1>1, <1>2, <1>5, <1>6, Updates
-----------------------------------------------------------------------------
(* Where the cursor is at each assignment of vga_putchar.  A handler that  *)
(* strikes past the last column or below the last row goes on from there,  *)
(* but is never past both.                                                 *)
Near(s) == \/ s.cursor_x < W /\ s.cursor_y =< H
           \/ s.cursor_x =< W /\ s.cursor_y < H

On(s) == s.cursor_x < W /\ s.cursor_y < H

CursorAt(s) ==
    /\ Near(s)
    /\ pc \in {"idle", "right", "update"} => On(s)
    /\ pc = "home" => s.cursor_x < W
    /\ pc = "wrap" => s.cursor_y < H
    /\ pc = "down" => s.cursor_x = 0 /\ s.cursor_y < H
    /\ pc \in {"scroll", "bottom"} => s.cursor_x = 0
    /\ pc = "idle" => s.hw_cursor = Position(s)

(* The first k characters of message m have been printed, without the      *)
(* cursor ever leaving the screen: they end where the cursor is.           *)
Printed(s, m, k) ==
    /\ On(s)
    /\ \E p \in Screen :
          /\ \A i \in 1 .. k : m[i] # NEWLINE =>
                p + i - 1 \in Screen /\ s.buffer[p + i - 1] = <<RED, m[i]>>
          /\ (\A i \in 1 .. k : m[i] # NEWLINE) => p + k = Position(s)

Pcs == {"idle", "home", "right", "wrap", "down", "scroll", "bottom", "update",
        "panic", "stopped"}

Ascii == Seq(1 .. 127)
Strikes == [x : Nat, y : Nat, message : Ascii, left : Ascii]

(* Where the handler is in its message. *)
HandlerAt(k) ==
    /\ struck \in Strikes /\ struck.message \in Messages
    /\ Len(struck.message) = k + Len(struck.left)
    /\ \A i \in 1 .. Len(struck.left) : struck.left[i] = struck.message[k + i]
    /\ struck.x < W /\ struck.y < H => Printed(vga_state, struck.message, k)

Inv ==
    /\ vga_state \in VgaStates /\ pc \in Pcs
    /\ CursorAt(vga_state)
    /\ pc \in {"panic", "stopped"} => \E k \in Nat : HandlerAt(k)
    /\ pc = "stopped" => struck.left = <<>>

LEMMA NearMemory ==
    ASSUME NEW s \in VgaStates, Near(s)
    PROVE  Position(s) \in Memory /\ (On(s) => Position(s) \in Screen)
<1>1. /\ s.cursor_x \in Nat /\ s.cursor_y \in Nat /\ s.cursor_y * W \in Nat
      /\ s.cursor_y < H => s.cursor_y * W =< LastRow
      /\ s.cursor_y =< H => s.cursor_y * W =< LastRow + W
  BY Grid DEF VgaStates
<1>2. Position(s) = s.cursor_y * W + s.cursor_x
  BY DEF Position, W
<1>3. QED
  BY <1>1, <1>2, Grid DEF Near, On

(* A handler's vga_putchar keeps the cursor near, wherever it found it, and *)
(* on the screen if it was there.                                          *)
LEMMA PutNear ==
    ASSUME NEW s \in VgaStates, Near(s), NEW c \in 1 .. 127, NEW color \in 0 .. 255
    PROVE  /\ vga_putchar(s, c, color) \in VgaStates
           /\ Near(vga_putchar(s, c, color))
           /\ On(s) => On(vga_putchar(s, c, color))
<1>. DEFINE t == vga_putchar(s, c, color)
<1>1. s.cursor_x \in Nat /\ s.cursor_y \in Nat
  BY DEF VgaStates
<1>2. CASE c = NEWLINE
  <2>1. /\ t \in VgaStates /\ t.cursor_x = 0
        /\ s.cursor_y + 1 < H => t.cursor_y = s.cursor_y + 1
        /\ s.cursor_y + 1 >= H => t.cursor_y = H - 1
    BY <1>2, PutNewline
  <2>. HIDE DEF t
  <2>2. QED
    BY <1>1, <2>1, Grid DEF Near, On, t
<1>3. CASE c # NEWLINE
  <2>1. /\ t \in VgaStates
        /\ s.cursor_x + 1 < W =>
              t.cursor_x = s.cursor_x + 1 /\ t.cursor_y = s.cursor_y
        /\ s.cursor_x + 1 >= W =>
              /\ t.cursor_x = 0
              /\ s.cursor_y + 1 < H => t.cursor_y = s.cursor_y + 1
              /\ s.cursor_y + 1 >= H => t.cursor_y = H - 1
    BY <1>3, PutGlyph
  <2>. HIDE DEF t
  <2>2. On(s) => On(t)
    BY <1>1, <2>1, Grid DEF On
  <2>3. Near(t)
    BY <1>1, <2>1, Grid DEF Near
  <2>4. QED
    BY <2>1, <2>2, <2>3 DEF t
<1>4. QED
  BY <1>2, <1>3

(* The offset of the cursor in terms of the row it is in. *)
LEMMA CursorRow ==
    ASSUME NEW s \in VgaStates, On(s)
    PROVE  \E r \in Nat :
              /\ Position(s) = r + s.cursor_x /\ r =< LastRow
              /\ s.cursor_y + 1 >= H => r = LastRow
              /\ \A t \in VgaStates :
                    /\ t.cursor_y = s.cursor_y => Position(t) = r + t.cursor_x
                    /\ t.cursor_y = s.cursor_y + 1 => Position(t) = r + W + t.cursor_x
                    /\ t.cursor_y = H - 1 => Position(t) = LastRow + t.cursor_x
<1>. DEFINE y == s.cursor_y
            r == y * W
<1>1. y \in Nat /\ s.cursor_x \in Nat /\ y < H
  BY DEF VgaStates, On
<1>2. r \in Nat /\ (y + 1) * W = r + W /\ r =< LastRow
  BY <1>1, Grid
<1>3. y + 1 >= H => r = LastRow
  <2>1. y + 1 >= H => y = H - 1
    BY <1>1, Sizes
  <2>2. QED
    BY <2>1, Grid, Zenon
<1>4. \A t \in VgaStates : Position(t) = t.cursor_y * W + t.cursor_x
  BY DEF Position, W
<1>5. (H - 1) * W = LastRow
  BY Grid, Zenon
<1>6. ASSUME NEW t \in VgaStates
      PROVE  /\ t.cursor_y = y => Position(t) = r + t.cursor_x
             /\ t.cursor_y = y + 1 => Position(t) = r + W + t.cursor_x
             /\ t.cursor_y = H - 1 => Position(t) = LastRow + t.cursor_x
  BY <1>2, <1>4, <1>5, Zenon
<1>. HIDE DEF r
<1>7. Position(s) = r + s.cursor_x
  BY <1>6
<1>8. QED
  BY <1>2, <1>3, <1>6, <1>7

(* Each character of a message goes behind those that were printed; when   *)
(* the screen scrolls they all move up, since a message is no longer than  *)
(* a row and the screen has at least three.                                *)
LEMMA PutPrinted ==
    ASSUME NEW s \in VgaStates, NEW m \in Messages, NEW k \in Nat,
           k < Len(m), Printed(s, m, k)
    PROVE  Printed(vga_putchar(s, m[k + 1], RED), m, k + 1)
<1>. DEFINE c == m[k + 1]
            t == vga_putchar(s, c, RED)
            P == Position(s)
<1>1. /\ m \in Seq(1 .. 127) /\ Len(m) \in Nat /\ Len(m) =< W
      /\ c \in 1 .. 127 /\ k < W
      /\ \A i \in 1 .. k : m[i] # NEWLINE
  <2>1. /\ m \in Seq(1 .. 127) /\ Len(m) =< W
        /\ \A i \in 1 .. Len(m) : m[i] = NEWLINE => i = Len(m)
    BY VgaAssumption, Zenon DEF W
  <2>2. Len(m) \in Nat /\ k + 1 \in 1 .. Len(m) /\ k < W
    BY <2>1, Sizes
  <2>3. c \in 1 .. 127
    BY <2>1, <2>2, ElementOfSeq, Zenon
  <2>4. \A i \in 1 .. k : i \in 1 .. Len(m) /\ i # Len(m)
    BY <2>2
  <2>5. QED
    BY <2>1, <2>2, <2>3, <2>4, Zenon
<1>2. /\ s.cursor_x \in Nat /\ s.cursor_y \in Nat /\ s.buffer \in Buffers
      /\ s.cursor_x < W /\ s.cursor_y < H /\ On(s) /\ Near(s)
  <2>1. s.cursor_x \in Nat /\ s.cursor_y \in Nat /\ s.buffer \in Buffers
    BY DEF VgaStates
  <2>2. On(s) /\ s.cursor_x < W /\ s.cursor_y < H
    BY Zenon DEF Printed, On
  <2>3. QED
    BY <2>1, <2>2, Sizes DEF Near
<1>3. PICK p \in Screen :
         /\ \A i \in 1 .. k :
               p + i - 1 \in Screen /\ s.buffer[p + i - 1] = <<RED, m[i]>>
         /\ p + k = P
  BY <1>1 DEF Printed
<1>4. P \in Screen
  BY <1>2, NearMemory
<1>5. t \in VgaStates /\ On(t)
  <2>1. RED \in 0 .. 255
    BY DEF RED
  <2>2. QED
    BY <1>1, <1>2, <2>1, PutNear, Zenon
<1>6. PICK r \in Nat :
         /\ P = r + s.cursor_x /\ r =< LastRow
         /\ s.cursor_y + 1 >= H => r = LastRow
         /\ \A u \in VgaStates :
               /\ u.cursor_y = s.cursor_y => Position(u) = r + u.cursor_x
               /\ u.cursor_y = s.cursor_y + 1 => Position(u) = r + W + u.cursor_x
               /\ u.cursor_y = H - 1 => Position(u) = LastRow + u.cursor_x
  BY <1>2, CursorRow
<1>7. CASE c = NEWLINE
  <2>1. /\ s.cursor_y + 1 < H => t.buffer = s.buffer
        /\ s.cursor_y + 1 >= H => t.buffer = Up(s.buffer)
    BY <1>7, PutNewline
  <2>. HIDE DEF t, c, P
  <2>2. k + 1 \in 1 .. k + 1 /\ m[k + 1] = NEWLINE
    BY <1>7 DEF c
  <2>3. CASE s.cursor_y + 1 < H
    <3>1. \A i \in 1 .. k + 1 : m[i] # NEWLINE =>
             p + i - 1 \in Screen /\ t.buffer[p + i - 1] = <<RED, m[i]>>
      <4>1. \A i \in 1 .. k + 1 : i \in 1 .. k \/ i = k + 1
        OBVIOUS
      <4>2. t.buffer = s.buffer
        BY <2>1, <2>3
      <4>3. QED
        BY <1>3, <2>2, <4>1, <4>2, Zenon
    <3>2. QED
      BY <1>5, <2>2, <3>1 DEF Printed, t, c
  <2>4. CASE s.cursor_y + 1 >= H
    <3>1. r = LastRow
      BY <1>6, <2>4
    <3>2. p \in Nat /\ p >= W /\ p - W \in Screen
      BY <1>1, <1>2, <1>3, <1>6, <3>1, Sizes
    <3>3. \A i \in 1 .. k :
             /\ (p - W) + i - 1 \in Memory /\ (p - W) + i - 1 < LastRow
             /\ ((p - W) + i - 1) + W = p + i - 1
             /\ (p - W) + i - 1 \in Screen
      BY <1>1, <1>2, <1>3, <1>6, <3>1, <3>2, Sizes
    <3>4. \A i \in 1 .. k : t.buffer[(p - W) + i - 1] = s.buffer[p + i - 1]
      BY <2>1, <2>4, <3>3 DEF Up
    <3>5. \A i \in 1 .. k + 1 : m[i] # NEWLINE =>
             (p - W) + i - 1 \in Screen /\ t.buffer[(p - W) + i - 1] = <<RED, m[i]>>
      <4>1. \A i \in 1 .. k + 1 : i \in 1 .. k \/ i = k + 1
        OBVIOUS
      <4>2. QED
        BY <1>3, <2>2, <3>3, <3>4, <4>1
    <3>6. QED
      BY <1>5, <2>2, <3>2, <3>5 DEF Printed, t, c
  <2>5. QED
    BY <1>2, <2>3, <2>4, Sizes
<1>8. CASE c # NEWLINE
  <2>. DEFINE b == Stored(s, c, RED)
  <2>1. /\ s.cursor_x + 1 < W =>
              /\ t.cursor_x = s.cursor_x + 1 /\ t.cursor_y = s.cursor_y
              /\ t.buffer = b
        /\ s.cursor_x + 1 >= W =>
              /\ t.cursor_x = 0
              /\ s.cursor_y + 1 < H =>
                    t.cursor_y = s.cursor_y + 1 /\ t.buffer = b
              /\ s.cursor_y + 1 >= H =>
                    t.cursor_y = H - 1 /\ t.buffer = Up(b)
    <3>1. RED \in 0 .. 255
      BY DEF RED
    <3>2. QED
      BY <1>1, <1>8, <3>1, PutGlyph, Zenon
  <2>. HIDE DEF t, c, P
  <2>2. P \in Memory
    BY <1>4, Sizes
  <2>3. \A i \in 1 .. k + 1 :
           p + i - 1 \in Screen /\ b[p + i - 1] = <<RED, m[i]>>
    <3>1. \A i \in 1 .. k : p + i - 1 # P /\ p + i - 1 \in Memory
      BY <1>3, Sizes
    <3>2. p + (k + 1) - 1 = P
      BY <1>3, Sizes
    <3>3. b[P] = <<RED, m[k + 1]>>
      BY <1>2, <2>2 DEF Buffers, Stored, P, c
    <3>4. \A i \in 1 .. k : b[p + i - 1] = s.buffer[p + i - 1]
      BY <1>2, <3>1 DEF Buffers, Stored, P
    <3>5. \A i \in 1 .. k + 1 : i \in 1 .. k \/ i = k + 1
      OBVIOUS
    <3>6. QED
      BY <1>3, <1>4, <3>2, <3>3, <3>4, <3>5
  <2>4. CASE t.buffer = b /\ Position(t) = P + 1
    <3>1. p + (k + 1) = Position(t)
      BY <1>3, <1>4, <2>4, Sizes
    <3>2. QED
      BY <1>5, <2>3, <2>4, <3>1 DEF Printed, t, c
  <2>5. CASE s.cursor_x + 1 < W
    <3>1. Position(t) = r + (s.cursor_x + 1) /\ t.buffer = b
      BY <1>5, <1>6, <2>1, <2>5
    <3>2. QED
      BY <1>2, <1>6, <2>4, <3>1
  <2>6. CASE s.cursor_x + 1 >= W /\ s.cursor_y + 1 < H
    <3>1. s.cursor_x + 1 = W
      BY <1>2, <2>6, Sizes
    <3>2. Position(t) = r + W + 0 /\ t.buffer = b
      BY <1>5, <1>6, <2>1, <2>6
    <3>3. QED
      BY <1>2, <1>6, <2>4, <3>1, <3>2, Sizes
  <2>7. CASE s.cursor_x + 1 >= W /\ s.cursor_y + 1 >= H
    <3>1. /\ s.cursor_x + 1 = W /\ r = LastRow
          /\ t.buffer = Up(b) /\ t.cursor_x = 0 /\ t.cursor_y = H - 1
      BY <1>2, <1>6, <2>1, <2>7, Sizes
    <3>2. p \in Nat /\ p + k = LastRow + s.cursor_x /\ p >= W /\ p - W \in Screen
      <4>1. p \in Nat /\ p + k = LastRow + s.cursor_x
        BY <1>3, <1>6, <3>1, Sizes
      <4>2. QED
        BY <1>1, <1>2, <3>1, <4>1, Sizes
    <3>3. \A i \in 1 .. k + 1 :
             /\ (p - W) + i - 1 \in Memory /\ (p - W) + i - 1 < LastRow
             /\ ((p - W) + i - 1) + W = p + i - 1
             /\ (p - W) + i - 1 \in Screen
      BY <1>1, <1>2, <1>3, <1>6, <3>1, <3>2, Sizes
    <3>4. \A i \in 1 .. k + 1 : t.buffer[(p - W) + i - 1] = b[p + i - 1]
      BY <3>1, <3>3 DEF Up
    <3>5. Position(t) = (p - W) + (k + 1)
      <4>1. Position(t) = LastRow + 0
        BY <1>5, <1>6, <3>1
      <4>2. QED
        BY <1>2, <3>1, <3>2, <4>1, Sizes
    <3>6. QED
      BY <1>5, <2>3, <3>2, <3>3, <3>4, <3>5 DEF Printed, t, c
  <2>8. QED
    BY <1>2, <2>5, <2>6, <2>7, Sizes
<1>9. QED
  BY <1>7, <1>8
-----------------------------------------------------------------------------
LEMMA FirstAndRest ==
    ASSUME NEW q \in Ascii, q # <<>>
    PROVE  /\ Head(q) \in 1 .. 127 /\ Tail(q) \in Ascii /\ Head(q) = q[1]
           /\ Len(q) \in Nat /\ Len(q) >= 1 /\ Len(Tail(q)) = Len(q) - 1
           /\ \A i \in 1 .. Len(Tail(q)) : Tail(q)[i] = q[i + 1]
<1>1. q \in Seq(1 .. 127)
  BY DEF Ascii
<1>2. Head(q) \in 1 .. 127 /\ Tail(q) \in Seq(1 .. 127)
  BY <1>1, HeadTailProperties, Zenon
<1>3. QED
  BY <1>1, <1>2 DEF Ascii

LEMMA InitInv == Init => Inv
<1>. SUFFICES ASSUME Init PROVE Inv
  OBVIOUS
<1>. DEFINE b == [i \in Memory |-> IF i \in Screen THEN BLANK ELSE <<0, 0>>]
<1>1. b \in Buffers
  BY DEF Buffers, Cells, BLANK, WHITE
<1>2. vga_state = [buffer |-> b, cursor_x |-> 0, cursor_y |-> 0, hw_cursor |-> 0]
  BY DEF Init, vga_clear
<1>. HIDE DEF b
<1>3. vga_state \in VgaStates
  BY <1>1, <1>2 DEF VgaStates
<1>4. /\ vga_state.cursor_x = 0 /\ vga_state.cursor_y = 0 /\ vga_state.hw_cursor = 0
      /\ Position(vga_state) = 0
  BY <1>2, Sizes DEF Position, W
<1>5. QED
  BY <1>3, <1>4, Sizes DEF Init, Inv, CursorAt, Near, On, Pcs

(* The steps of the thread, each in a place where the cursor is known. *)
LEMMA ThreadInv ==
    ASSUME Inv, (\E c \in Chars : put(c)) \/ continue
    PROVE  Inv'
<1>. DEFINE s == vga_state
<1>1. /\ s \in VgaStates /\ s.cursor_x \in Nat /\ s.cursor_y \in Nat
      /\ CursorAt(s) /\ s' = vga_state'
  BY DEF Inv, VgaStates
<1>2. ASSUME NEW c \in Chars, put(c) PROVE Inv'
  <2>1. CASE c = NEWLINE
    <3>1. pc = "idle" /\ s' = down(s) /\ pc' = "home"
      BY <1>2, <2>1 DEF put, put_newline
    <3>2. /\ s' \in VgaStates
          /\ s'.cursor_x = s.cursor_x /\ s'.cursor_y = s.cursor_y + 1
      BY <1>1, <3>1, Assignments
    <3>3. QED
      BY <1>1, <3>1, <3>2, Sizes DEF Inv, CursorAt, Near, On, Pcs
  <2>2. CASE c # NEWLINE
    <3>1. pc = "idle" /\ s' = store(s, c, WHITE) /\ pc' = "right"
      BY <1>2, <2>2 DEF put, put_glyph
    <3>2. c \in 1 .. 255 /\ WHITE \in 0 .. 255
      BY VgaAssumption DEF WHITE
    <3>3. /\ s' \in VgaStates /\ s'.cursor_x = s.cursor_x
          /\ s'.cursor_y = s.cursor_y
      BY <1>1, <3>1, <3>2, Stores
    <3>4. QED
      BY <1>1, <3>1, <3>3, Sizes DEF Inv, CursorAt, Near, On, Pcs
  <2>3. QED
    BY <2>1, <2>2
<1>3. CASE step("home", home, AfterRow)
  <2>1. pc = "home" /\ s' = home(s)
        /\ pc' = IF s'.cursor_y >= H THEN "scroll" ELSE "update"
    BY <1>3 DEF step, AfterRow, PastBottom, H
  <2>2. /\ s' \in VgaStates
        /\ s'.cursor_x = 0 /\ s'.cursor_y = s.cursor_y
    BY <1>1, <2>1, Assignments
  <2>3. QED
    BY <1>1, <2>1, <2>2, Sizes DEF Inv, CursorAt, Near, On, Pcs
<1>4. CASE step("right", right,
                LAMBDA t : IF PastRight(t) THEN "wrap" ELSE "update")
  <2>1. pc = "right" /\ s' = right(s)
        /\ pc' = IF s'.cursor_x >= W THEN "wrap" ELSE "update"
    BY <1>4 DEF step, PastRight, W
  <2>2. /\ s' \in VgaStates
        /\ s'.cursor_x = s.cursor_x + 1 /\ s'.cursor_y = s.cursor_y
    BY <1>1, <2>1, Assignments
  <2>3. QED
    BY <1>1, <2>1, <2>2, Sizes DEF Inv, CursorAt, Near, On, Pcs
<1>5. CASE step("wrap", home, LAMBDA t : "down")
  <2>1. pc = "wrap" /\ s' = home(s) /\ pc' = "down"
    BY <1>5 DEF step
  <2>2. /\ s' \in VgaStates
        /\ s'.cursor_x = 0 /\ s'.cursor_y = s.cursor_y
    BY <1>1, <2>1, Assignments
  <2>3. QED
    BY <1>1, <2>1, <2>2, Sizes DEF Inv, CursorAt, Near, On, Pcs
<1>6. CASE step("down", down, AfterRow)
  <2>1. pc = "down" /\ s' = down(s)
        /\ pc' = IF s'.cursor_y >= H THEN "scroll" ELSE "update"
    BY <1>6 DEF step, AfterRow, PastBottom, H
  <2>2. /\ s' \in VgaStates
        /\ s'.cursor_x = s.cursor_x /\ s'.cursor_y = s.cursor_y + 1
    BY <1>1, <2>1, Assignments
  <2>3. QED
    BY <1>1, <2>1, <2>2, Sizes DEF Inv, CursorAt, Near, On, Pcs
<1>7. CASE step("scroll", vga_scroll_up, LAMBDA t : "bottom")
  <2>1. pc = "scroll" /\ s' = vga_scroll_up(s) /\ pc' = "bottom"
    BY <1>7 DEF step
  <2>2. /\ s' \in VgaStates
        /\ s'.cursor_x = s.cursor_x /\ s'.cursor_y = s.cursor_y
    BY <1>1, <2>1, Scrolls
  <2>3. QED
    BY <1>1, <2>1, <2>2, Sizes DEF Inv, CursorAt, Near, On, Pcs
<1>8. CASE step("bottom", bottom, LAMBDA t : "update")
  <2>1. pc = "bottom" /\ s' = bottom(s) /\ pc' = "update"
    BY <1>8 DEF step
  <2>2. /\ s' \in VgaStates
        /\ s'.cursor_x = s.cursor_x /\ s'.cursor_y = H - 1
    BY <1>1, <2>1, Assignments
  <2>3. QED
    BY <1>1, <2>1, <2>2, Sizes DEF Inv, CursorAt, Near, On, Pcs
<1>9. CASE step("update", update_hardware_cursor, LAMBDA t : "idle")
  <2>1. pc = "update" /\ s' = update_hardware_cursor(s) /\ pc' = "idle"
    BY <1>9 DEF step
  <2>2. /\ s' \in VgaStates /\ s'.cursor_x = s.cursor_x
        /\ s'.cursor_y = s.cursor_y /\ s'.hw_cursor = Position(s')
    BY <1>1, <2>1, Updates
  <2>3. QED
    BY <1>1, <2>1, <2>2, Sizes DEF Inv, CursorAt, Near, On, Pcs
<1>10. QED
  BY <1>2, <1>3, <1>4, <1>5, <1>6, <1>7, <1>8, <1>9, Zenon DEF continue

LEMMA PlaceInv ==
    ASSUME Inv, clear \/ \E x \in 0 .. VGA_WIDTH, y \in 0 .. VGA_HEIGHT : move(x, y)
    PROVE  Inv'
<1>. DEFINE s == vga_state
<1>1. PICK b \in Buffers, cx \in Nat, cy \in Nat, h \in Nat :
         s = [buffer |-> b, cursor_x |-> cx, cursor_y |-> cy, hw_cursor |-> h]
  BY DEF Inv, VgaStates
<1>2. CASE clear
  <2>. DEFINE b2 == [i \in Memory |-> IF i \in Screen THEN BLANK ELSE b[i]]
  <2>1. b2 \in Buffers
    BY DEF Buffers, Cells, BLANK, WHITE
  <2>2. vga_state' = [buffer |-> b2, cursor_x |-> 0, cursor_y |-> 0, hw_cursor |-> 0]
    BY <1>1, <1>2 DEF clear, vga_clear
  <2>. HIDE DEF b2
  <2>3. vga_state' \in VgaStates
    BY <2>1, <2>2 DEF VgaStates
  <2>4. /\ vga_state'.cursor_x = 0 /\ vga_state'.cursor_y = 0
        /\ vga_state'.hw_cursor = 0 /\ Position(vga_state') = 0
    BY <2>2, Sizes DEF Position, W
  <2>5. pc = "idle" /\ pc' = pc
    BY <1>2 DEF clear
  <2>6. QED
    BY <2>3, <2>4, <2>5, Sizes DEF Inv, CursorAt, Near, On, Pcs
<1>3. ASSUME NEW x \in 0 .. VGA_WIDTH, NEW y \in 0 .. VGA_HEIGHT, move(x, y)
      PROVE  Inv'
  <2>. DEFINE X == Clamp(x, VGA_WIDTH)
              Y == Clamp(y, VGA_HEIGHT)
              t == [s EXCEPT !.cursor_x = X, !.cursor_y = Y]
  <2>1. X \in Nat /\ X < W /\ Y \in Nat /\ Y < H
    BY VgaAssumption DEF Clamp, W, H
  <2>. HIDE DEF X, Y
  <2>2. t \in VgaStates /\ t.cursor_x = X /\ t.cursor_y = Y
    BY <1>1, <2>1 DEF VgaStates
  <2>3. vga_state' = update_hardware_cursor(t) /\ pc = "idle" /\ pc' = pc
    BY <1>3 DEF move, vga_move_cursor, X, Y
  <2>. HIDE DEF t
  <2>4. /\ vga_state' \in VgaStates /\ vga_state'.cursor_x = X
        /\ vga_state'.cursor_y = Y /\ vga_state'.hw_cursor = Position(vga_state')
    BY <2>2, <2>3, Updates
  <2>5. QED
    BY <2>1, <2>3, <2>4, Sizes DEF Inv, CursorAt, Near, On, Pcs
<1>4. QED
  BY <1>2, <1>3

(* A handler strikes, with nothing printed yet; then a character at a time. *)
LEMMA HandlerInv ==
    ASSUME Inv, (\E m \in Messages : exception(m)) \/ vga_putstr
    PROVE  Inv'
<1>. DEFINE s == vga_state
<1>1. /\ s \in VgaStates /\ s.cursor_x \in Nat /\ s.cursor_y \in Nat
      /\ CursorAt(s) /\ Near(s)
  BY DEF Inv, VgaStates, CursorAt
<1>2. ASSUME NEW m \in Messages, exception(m) PROVE Inv'
  <2>1. /\ pc' = "panic" /\ vga_state' = s
        /\ struck' = [x |-> s.cursor_x, y |-> s.cursor_y, message |-> m, left |-> m]
    BY <1>2 DEF exception
  <2>2. /\ struck'.message = m /\ struck'.left = m
        /\ struck'.x = s.cursor_x /\ struck'.y = s.cursor_y
    BY <2>1
  <2>3. m \in Ascii /\ Len(m) \in Nat /\ struck' \in Strikes
    <3>1. m \in Seq(1 .. 127) /\ Len(m) \in Nat
      BY VgaAssumption
    <3>2. QED
      BY <1>1, <2>1, <3>1 DEF Strikes, Ascii
  <2>4. On(s) => Printed(s, m, 0)
    <3>1. On(s) => Position(s) \in Screen /\ Position(s) + 0 = Position(s)
      BY <1>1, NearMemory, Sizes
    <3>2. QED
      BY <3>1 DEF Printed
  <2>5. HandlerAt(0)'
    <3>1. struck'.x < W /\ struck'.y < H => Printed(vga_state', struck'.message, 0)
      BY <2>1, <2>2, <2>4, Zenon DEF On
    <3>2. Len(m) = 0 + Len(m) /\ \A i \in 1 .. Len(m) : m[i] = m[0 + i]
      BY <2>3
    <3>3. QED
      BY <2>2, <2>3, <3>1, <3>2, Zenon DEF HandlerAt
  <2>6. QED
    BY <1>1, <2>1, <2>5 DEF Inv, CursorAt, Near, Pcs
<1>3. CASE vga_putstr
  <2>1. PICK k \in Nat : HandlerAt(k)
    BY <1>3, Zenon DEF vga_putstr, Inv
  <2>. DEFINE m == struck.message
              l == struck.left
  <2>2. /\ m \in Messages /\ l \in Ascii /\ struck \in Strikes
        /\ Len(m) = k + Len(l)
        /\ \A i \in 1 .. Len(l) : l[i] = m[k + i]
        /\ struck.x < W /\ struck.y < H => Printed(s, m, k)
    BY <2>1 DEF HandlerAt, Strikes
  <2>3. CASE l = <<>>
    <3>1. pc' = "stopped" /\ vga_state' = s /\ struck' = struck
      BY <1>3, <2>3 DEF vga_putstr
    <3>2. HandlerAt(k)'
      BY <2>1, <3>1 DEF HandlerAt
    <3>3. QED
      BY <1>1, <2>3, <3>1, <3>2 DEF Inv, CursorAt, Near, Pcs
  <2>4. CASE l # <<>>
    <3>1. /\ pc' = "panic" /\ vga_state' = vga_putchar(s, Head(l), RED)
          /\ struck' = [struck EXCEPT !.left = Tail(l)]
      BY <1>3, <2>4 DEF vga_putstr
    <3>2. /\ Head(l) \in 1 .. 127 /\ Tail(l) \in Ascii /\ Head(l) = l[1]
          /\ Len(l) \in Nat /\ Len(l) >= 1 /\ Len(Tail(l)) = Len(l) - 1
          /\ \A i \in 1 .. Len(Tail(l)) : Tail(l)[i] = l[i + 1]
      BY <2>2, <2>4, FirstAndRest, Zenon
    <3>. HIDE DEF m, l
    <3>3. Head(l) = m[k + 1] /\ k < Len(m) /\ Len(m) = (k + 1) + (Len(l) - 1)
      BY <2>2, <3>2
    <3>4. vga_state' \in VgaStates /\ Near(vga_state')
      <4>1. RED \in 0 .. 255
        BY DEF RED
      <4>2. QED
        BY <1>1, <3>1, <3>2, <4>1, PutNear, Zenon
    <3>5. Printed(s, m, k) => Printed(vga_state', m, k + 1)
      BY <1>1, <2>2, <3>1, <3>3, PutPrinted, Zenon
    <3>6. /\ struck' \in Strikes
          /\ struck'.message = m /\ struck'.left = Tail(l)
          /\ struck'.x = struck.x /\ struck'.y = struck.y
      BY <2>2, <3>1, <3>2 DEF Strikes, m, l
    <3>7. HandlerAt(k + 1)'
      <4>1. struck'.x < W /\ struck'.y < H =>
               Printed(vga_state', struck'.message, k + 1)
        BY <2>2, <3>5, <3>6, Zenon
      <4>2. Len(m) = (k + 1) + Len(Tail(l))
        BY <3>2, <3>3, Zenon
      <4>3. \A i \in 1 .. Len(Tail(l)) : Tail(l)[i] = m[(k + 1) + i]
        <5>1. \A i \in 1 .. Len(Tail(l)) :
                 i + 1 \in 1 .. Len(l) /\ k + (i + 1) = (k + 1) + i
          BY <3>2, <3>3
        <5>2. QED
          BY <2>2, <3>2, <5>1
      <4>4. QED
        BY <2>2, <3>6, <4>1, <4>2, <4>3, Zenon DEF HandlerAt, m, l
    <3>8. k + 1 \in Nat
      OBVIOUS
    <3>9. QED
      BY <3>1, <3>4, <3>7, <3>8 DEF Inv, CursorAt, Pcs
  <2>5. QED
    BY <2>3, <2>4
<1>4. QED
  BY <1>2, <1>3

LEMMA NextInv == Inv /\ [Next]_vars => Inv'
<1>. SUFFICES ASSUME Inv, [Next]_vars PROVE Inv'
  OBVIOUS
<1>1. CASE UNCHANGED vars
  BY <1>1 DEF vars, Inv, CursorAt, HandlerAt
<1>2. CASE Next
  BY <1>2, ThreadInv, PlaceInv, HandlerInv, Zenon DEF Next
<1>3. QED
  BY <1>1, <1>2

(* Whatever is printed and wherever a handler strikes, the next cell is in *)
(* video memory, and between calls the cursor is on the screen, with the   *)
(* hardware's.                                                             *)
THEOREM VgaCursor == Spec => []CursorOnScreen
<1>1. Inv => CursorOnScreen
  <2>. SUFFICES ASSUME Inv PROVE CursorOnScreen
    OBVIOUS
  <2>1. vga_state.buffer \in [Memory -> (0 .. 255) \X (0 .. 255)]
    BY DEF Inv, VgaStates, Buffers, Cells
  <2>2. Position(vga_state) \in Memory
    BY NearMemory DEF Inv, CursorAt
  <2>3. QED
    BY <2>1, <2>2 DEF Inv, CursorAt, On, CursorOnScreen, W, H
<1>2. QED
  BY <1>1, InitInv, NextInv, PTL DEF Spec

(* The message of the handler that stopped the machine can be read, unless *)
(* it struck inside vga_putchar with the cursor past the edge.             *)
THEOREM VgaPanic == Spec => []PanicShown
<1>1. Inv => PanicShown
  <2>. SUFFICES ASSUME Inv, pc = "stopped",
                       ~(struck.x >= VGA_WIDTH), ~(struck.y >= VGA_HEIGHT)
                PROVE  Visible(struck.message)
    BY Zenon DEF PanicShown
  <2>1. PICK k \in Nat : HandlerAt(k)
    BY Zenon DEF Inv
  <2>2. /\ struck \in Strikes /\ Len(struck.message) = k + Len(struck.left)
        /\ struck.left = <<>>
        /\ struck.x < W /\ struck.y < H => Printed(vga_state, struck.message, k)
    BY <2>1, Zenon DEF HandlerAt, Inv
  <2>3. struck.x < W /\ struck.y < H
    BY <2>2, Sizes DEF Strikes, W, H
  <2>4. k = Len(struck.message)
    BY <2>2
  <2>5. QED
    BY <2>2, <2>3, <2>4, Zenon DEF Printed, Visible
<1>2. QED
  BY <1>1, InitInv, NextInv, PTL DEF Spec
-----------------------------------------------------------------------------
(* Where a character leads from position p of the paper. *)
After(p, c) == IF c = NEWLINE THEN (p \div W + 1) * W ELSE p + 1

(* Paper and Shown for a text t. *)
PaperOf(t) ==
    LET at[n \in 0 .. Len(t)] ==
          IF n = 0 THEN 0
          ELSE IF t[n] = NEWLINE
               THEN (at[n - 1] \div VGA_WIDTH + 1) * VGA_WIDTH
               ELSE at[n - 1] + 1
    IN  at

At(t, i) == {n \in 1 .. Len(t) : PaperOf(t)[n - 1] = i /\ t[n] # NEWLINE}

ShownOf(t, i) ==
    IF At(t, i) = {} THEN BLANK ELSE Cell(t[CHOOSE n \in At(t, i) : TRUE], WHITE)

Texts == Seq(1 .. 255)
End(t) == PaperOf(t)[Len(t)]

LEMMA PaperShown ==
    /\ Paper = PaperOf(text) /\ Paper' = PaperOf(text')
    /\ \A i : Shown(i) = ShownOf(text, i) /\ Shown(i)' = ShownOf(text', i)
<1>1. Paper = PaperOf(text) /\ Paper' = PaperOf(text')
  BY Zenon DEF Paper, PaperOf
<1>2. \A i : Shown(i) = ShownOf(text, i) /\ Shown(i)' = ShownOf(text', i)
  BY Zenon DEF Shown, ShownOf, At, Paper, PaperOf
<1>3. QED
  BY <1>1, <1>2

LEMMA AfterNat ==
    ASSUME NEW p \in Nat, NEW c
    PROVE  After(p, c) \in Nat /\ After(p, c) > p
<1>1. \A a \in Nat, w \in Nat \ {0} :
         /\ a \div w \in Nat /\ a % w \in Nat /\ a % w < w
         /\ a = w * (a \div w) + (a % w)
  BY SMT
<1>2. W \in Nat \ {0}
  BY Sizes
<1>3. /\ p \div W \in Nat /\ p % W \in Nat /\ p % W < W /\ p = W * (p \div W) + (p % W)
  BY <1>1, <1>2, Zenon
<1>. DEFINE q == p \div W
<1>4. (q + 1) * W = q * W + W /\ q * W \in Nat /\ W * q = q * W
  <2>1. \A a, w \in Nat : w * a = a * w
    BY SMT
  <2>2. QED
    BY <1>2, <1>3, <2>1, Grid
<1>. HIDE DEF q
<1>5. QED
  BY <1>2, <1>3, <1>4 DEF After, q

(* The recursive definition of Paper has the value it describes. *)
LEMMA PaperEquation ==
    ASSUME NEW t \in Texts
    PROVE  /\ PaperOf(t) \in [0 .. Len(t) -> Nat] /\ PaperOf(t)[0] = 0
           /\ \A n \in 1 .. Len(t) : PaperOf(t)[n] = After(PaperOf(t)[n - 1], t[n])
<1>. DEFINE N == Len(t)
            e(f, n) == IF n = 0 THEN 0
                       ELSE IF t[n] = NEWLINE
                            THEN (f[n - 1] \div VGA_WIDTH + 1) * VGA_WIDTH
                            ELSE f[n - 1] + 1
            g == [i \in 1 .. N |-> [p \in Nat |-> After(p, t[i])]]
            P == PaperOf(t)
<1>1. N \in Nat
  BY DEF Texts
<1>2. g \in [1 .. N -> [Nat -> Nat]]
  BY AfterNat
<1>3. PICK f \in [0 .. N -> Nat] :
         f[0] = 0 /\ \A i \in 1 .. N : f[i] = After(f[i - 1], t[i])
  <2>. HIDE DEF N, g
  <2>1. Iterates(Nat, 0, N, g) # {}
    <3>1. 0 \in Nat /\ g \in Steps(Nat, N)
      BY <1>2 DEF Steps
    <3>2. QED
      BY <1>1, <3>1, Recursion, Zenon
  <2>5. PICK f \in [0 .. N -> Nat] :
           f[0] = 0 /\ \A i \in 1 .. N : f[i] = g[i][f[i - 1]]
    BY <2>1 DEF Iterates
  <2>2. \A i \in 1 .. N : f[i - 1] \in Nat
    BY <1>1
  <2>3. \A i \in 1 .. N : \A p \in Nat : g[i][p] = After(p, t[i])
    BY DEF g
  <2>4. QED
    BY <2>2, <2>3, <2>5
<1>4. f = [n \in 0 .. N |-> e(f, n)]
  <2>1. \A n \in 0 .. N : n = 0 \/ n \in 1 .. N
    BY <1>1
  <2>2. \A n \in 0 .. N : f[n] = e(f, n)
    BY <1>3, <2>1, Zenon DEF After, W
  <2>3. QED
    BY <2>2
<1>5. P = [n \in 0 .. N |-> e(P, n)]
  <2>1. P = CHOOSE at : at = [n \in 0 .. N |-> e(at, n)]
    BY Zenon DEF PaperOf
  <2>. HIDE DEF P, N, e
  <2>2. QED
    BY <1>4, <2>1, Zenon
<1>. HIDE DEF P
<1>6. P[0] = 0 /\ \A n \in 1 .. N : P[n] = After(P[n - 1], t[n])
  <2>1. 0 \in 0 .. N /\ \A n \in 1 .. N : n \in 0 .. N /\ n # 0
    BY <1>1
  <2>2. \A n \in 0 .. N : P[n] = e(P, n)
    BY <1>5
  <2>3. QED
    BY <2>1, <2>2 DEF After, W
<1>7. 0 .. N \subseteq {n \in 0 .. N : P[n] \in Nat}
  <2>. DEFINE S == {n \in 0 .. N : P[n] \in Nat}
  <2>1. 0 \in S
    BY <1>1, <1>6
  <2>2. ASSUME NEW n \in 0 .. N - 1, n \in S PROVE n + 1 \in S
    <3>1. n + 1 \in 1 .. N /\ (n + 1) - 1 = n /\ n + 1 \in 0 .. N
      BY <1>1
    <3>2. P[n + 1] = After(P[n], t[n + 1])
      BY <1>6, <3>1
    <3>3. P[n] \in Nat
      BY <2>2
    <3>4. P[n + 1] \in Nat
      BY <3>2, <3>3, AfterNat
    <3>5. QED
      BY <3>1, <3>4
  <2>. HIDE DEF S
  <2>3. QED
    BY <1>1, <2>1, <2>2, Induction
<1>8. P \in [0 .. N -> Nat]
  <2>1. \A n \in 0 .. N : P[n] \in Nat
    BY <1>7
  <2>2. DOMAIN P = 0 .. N /\ P = [n \in DOMAIN P |-> P[n]]
    BY <1>5
  <2>3. QED
    BY <2>1, <2>2
<1>9. QED
  BY <1>6, <1>8 DEF P

LEMMA PaperGrows ==
    ASSUME NEW t \in Texts
    PROVE  \A n \in 0 .. Len(t) : \A m \in 0 .. n - 1 : PaperOf(t)[m] < PaperOf(t)[n]
<1>. DEFINE N == Len(t)
            P == PaperOf(t)
            S == {n \in 0 .. N : \A m \in 0 .. n - 1 : P[m] < P[n]}
<1>1. N \in Nat
  BY DEF Texts
<1>2. P \in [0 .. N -> Nat] /\ \A n \in 1 .. N : P[n] = After(P[n - 1], t[n])
  BY PaperEquation
<1>. HIDE DEF N, P
<1>3. 0 \in S
  BY <1>1
<1>4. ASSUME NEW n \in 0 .. N - 1, n \in S PROVE n + 1 \in S
  <2>1. n + 1 \in 1 .. N /\ (n + 1) - 1 = n /\ n + 1 \in 0 .. N /\ n \in 0 .. N
    BY <1>1
  <2>2. P[n] \in Nat /\ P[n + 1] = After(P[n], t[n + 1])
    BY <1>2, <2>1
  <2>3. P[n + 1] \in Nat /\ P[n] < P[n + 1]
    BY <2>2, AfterNat
  <2>4. \A m \in 0 .. (n + 1) - 1 : m \in 0 .. N /\ (m = n \/ m \in 0 .. n - 1)
    BY <1>1
  <2>5. \A m \in 0 .. (n + 1) - 1 : P[m] < P[n + 1]
    BY <1>2, <1>4, <2>2, <2>3, <2>4
  <2>6. QED
    BY <2>1, <2>5
<1>. HIDE DEF S
<1>5. 0 .. N \subseteq S
  BY <1>1, <1>3, <1>4, Induction
<1>6. QED
  BY <1>5 DEF S, N, P

(* A character more leaves the others where they are. *)
LEMMA PaperAppend ==
    ASSUME NEW t \in Texts, NEW c \in 1 .. 255
    PROVE  /\ Append(t, c) \in Texts
           /\ \A n \in 0 .. Len(t) : PaperOf(Append(t, c))[n] = PaperOf(t)[n]
           /\ End(Append(t, c)) = After(End(t), c)
<1>. DEFINE u == Append(t, c)
            N == Len(t)
            S == {n \in 0 .. N : PaperOf(u)[n] = PaperOf(t)[n]}
<1>1. /\ u \in Texts /\ N \in Nat /\ Len(u) = N + 1 /\ u[N + 1] = c
      /\ \A i \in 1 .. N : u[i] = t[i]
  BY DEF Texts
<1>. HIDE DEF u
<1>2. /\ PaperOf(u)[0] = 0
      /\ \A n \in 1 .. N + 1 : PaperOf(u)[n] = After(PaperOf(u)[n - 1], u[n])
  BY <1>1, PaperEquation
<1>3. /\ PaperOf(t)[0] = 0
      /\ \A n \in 1 .. N : PaperOf(t)[n] = After(PaperOf(t)[n - 1], t[n])
  BY PaperEquation
<1>. HIDE DEF N
<1>4. 0 \in S
  BY <1>1, <1>2, <1>3
<1>5. ASSUME NEW n \in 0 .. N - 1, n \in S PROVE n + 1 \in S
  <2>1. /\ n + 1 \in 1 .. N /\ (n + 1) - 1 = n /\ n + 1 \in 0 .. N
        /\ n + 1 \in 1 .. N + 1
    BY <1>1
  <2>2. PaperOf(u)[n + 1] = After(PaperOf(u)[n], u[n + 1])
    BY <1>2, <2>1
  <2>3. PaperOf(t)[n + 1] = After(PaperOf(t)[n], t[n + 1])
    BY <1>3, <2>1
  <2>4. PaperOf(u)[n] = PaperOf(t)[n] /\ u[n + 1] = t[n + 1]
    BY <1>1, <1>5, <2>1
  <2>5. PaperOf(u)[n + 1] = PaperOf(t)[n + 1]
    BY <2>2, <2>3, <2>4, Zenon
  <2>6. QED
    BY <2>1, <2>5
<1>. HIDE DEF S
<1>6. 0 .. N \subseteq S
  BY <1>1, <1>4, <1>5, Induction
<1>7. \A n \in 0 .. N : PaperOf(u)[n] = PaperOf(t)[n]
  BY <1>6 DEF S
<1>8. PaperOf(u)[N + 1] = After(PaperOf(t)[N], c)
  <2>1. N + 1 \in 1 .. N + 1 /\ (N + 1) - 1 = N /\ N \in 0 .. N
    BY <1>1
  <2>2. PaperOf(u)[N + 1] = After(PaperOf(u)[N], u[N + 1])
    BY <1>2, <2>1
  <2>3. QED
    BY <1>1, <1>7, <2>1, <2>2, Zenon
<1>9. QED
  BY <1>1, <1>7, <1>8, Zenon DEF u, N, End

(* Where there is no character the paper is blank. *)
LEMMA ShownBeyond ==
    ASSUME NEW t \in Texts
    PROVE  /\ End(t) \in Nat
           /\ \A i \in Nat : i >= End(t) => ShownOf(t, i) = BLANK
<1>1. /\ Len(t) \in Nat /\ PaperOf(t) \in [0 .. Len(t) -> Nat]
      /\ \A n \in 0 .. Len(t) : \A m \in 0 .. n - 1 : PaperOf(t)[m] < PaperOf(t)[n]
  BY PaperEquation, PaperGrows DEF Texts
<1>2. End(t) \in Nat /\ \A m \in 0 .. Len(t) - 1 : PaperOf(t)[m] < End(t)
  BY <1>1 DEF End
<1>3. ASSUME NEW i \in Nat, i >= End(t) PROVE At(t, i) = {}
  <2>1. \A n \in 1 .. Len(t) : n - 1 \in 0 .. Len(t) - 1 /\ PaperOf(t)[n - 1] \in Nat
    BY <1>1
  <2>2. \A n \in 1 .. Len(t) : PaperOf(t)[n - 1] # i
    BY <1>2, <1>3, <2>1
  <2>3. QED
    BY <2>2, Zenon DEF At
<1>4. QED
  BY <1>2, <1>3, Zenon DEF ShownOf

(* What a character more shows. *)
LEMMA ShownAppend ==
    ASSUME NEW t \in Texts, NEW c \in 1 .. 255, NEW i \in Nat
    PROVE  ShownOf(Append(t, c), i) =
              IF c # NEWLINE /\ i = End(t) THEN Cell(c, WHITE) ELSE ShownOf(t, i)
<1>. DEFINE u == Append(t, c)
            N == Len(t)
<1>1. /\ u \in Texts /\ N \in Nat /\ Len(u) = N + 1 /\ u[N + 1] = c
      /\ \A n \in 1 .. N : u[n] = t[n]
  BY DEF Texts
<1>2. \A n \in 0 .. N : PaperOf(u)[n] = PaperOf(t)[n]
  BY PaperAppend
<1>. HIDE DEF u, N
<1>3. /\ \A n \in 1 .. N : n - 1 \in 0 .. N /\ n \in 1 .. N + 1
      /\ \A n \in 1 .. N + 1 : n \in 1 .. N \/ n = N + 1
      /\ N + 1 \in 1 .. N + 1 /\ (N + 1) - 1 = N /\ N \in 0 .. N
      /\ N + 1 \notin 1 .. N
  BY <1>1
<1>4. /\ \A n \in 1 .. N : n \in At(u, i) <=> n \in At(t, i)
      /\ At(t, i) \subseteq 1 .. N /\ At(u, i) \subseteq 1 .. N + 1
      /\ N + 1 \in At(u, i) <=> c # NEWLINE /\ i = End(t)
  <2>1. /\ At(t, i) = {n \in 1 .. N : PaperOf(t)[n - 1] = i /\ t[n] # NEWLINE}
        /\ At(u, i) = {n \in 1 .. N + 1 : PaperOf(u)[n - 1] = i /\ u[n] # NEWLINE}
    BY <1>1, Zenon DEF At, N
  <2>2. PaperOf(u)[N] = End(t)
    BY <1>2, <1>3, Zenon DEF End, N
  <2>3. QED
    BY <1>1, <1>2, <1>3, <2>1, <2>2
<1>5. CASE c # NEWLINE /\ i = End(t)
  <2>1. At(t, i) = {}
    <3>1. /\ PaperOf(t) \in [0 .. N -> Nat]
          /\ \A m \in 0 .. N - 1 : PaperOf(t)[m] < PaperOf(t)[N]
      BY <1>1, <1>3, PaperEquation, PaperGrows DEF N
    <3>2. \A n \in 1 .. N : n - 1 \in 0 .. N - 1 /\ PaperOf(t)[n - 1] \in Nat
      BY <1>1, <3>1
    <3>3. \A n \in 1 .. N : PaperOf(t)[n - 1] # i
      BY <1>1, <1>3, <1>5, <3>1, <3>2 DEF End, N
    <3>4. QED
      BY <3>3, Zenon DEF At, N
  <2>2. At(u, i) = {N + 1}
    BY <1>3, <1>4, <1>5, <2>1, Zenon
  <2>3. (CHOOSE n \in At(u, i) : TRUE) = N + 1
    BY <2>2
  <2>4. ShownOf(u, i) = Cell(u[N + 1], WHITE)
    BY <2>2, <2>3 DEF ShownOf
  <2>5. QED
    BY <1>1, <1>5, <2>4 DEF u
<1>6. CASE ~(c # NEWLINE /\ i = End(t))
  <2>1. At(u, i) = At(t, i)
    BY <1>3, <1>4, <1>6, Zenon
  <2>2. CASE At(t, i) = {}
    BY <1>6, <2>1, <2>2, Zenon DEF ShownOf, u
  <2>3. CASE At(t, i) # {}
    <3>1. (CHOOSE n \in At(t, i) : TRUE) \in 1 .. N
      BY <1>4, <2>3, Zenon
    <3>2. u[CHOOSE n \in At(t, i) : TRUE] = t[CHOOSE n \in At(t, i) : TRUE]
      BY <1>1, <3>1, Zenon
    <3>3. QED
      BY <1>6, <2>1, <2>3, <3>2 DEF ShownOf, u
  <2>4. QED
    BY <2>2, <2>3
<1>7. QED
  BY <1>5, <1>6

-----------------------------------------------------------------------------
(* The screen shows the text from row top of the paper on, at every        *)
(* assignment of vga_putchar, and the cursor is where the text ends, or    *)
(* the assignments that are left bring it there.  Rows are lost above the  *)
(* screen only when the text has reached its last row.                     *)
TextFrom(s, top) ==
    /\ \A i \in Screen : s.buffer[i] = ShownOf(text, top * W + i)
    /\ pc \in {"idle", "update"} => End(text) = top * W + Position(s)
    /\ pc = "right"  => End(text) = top * W + Position(s) + 1
    /\ pc = "home"   => End(text) = top * W + s.cursor_y * W
    /\ pc \in {"wrap", "down"} => End(text) = top * W + s.cursor_y * W + W
    /\ pc = "scroll" => End(text) = top * W + LastRow + W /\ s.cursor_y = H
    /\ pc = "bottom" => End(text) = top * W + LastRow
    /\ \/ top = 0 \/ pc = "bottom"
       \/ s.cursor_y = IF pc \in {"home", "scroll"} THEN H ELSE H - 1

TextInv ==
    /\ text \in Texts
    /\ ~placed /\ pc \notin {"panic", "stopped"} =>
          \E top \in Nat : TextFrom(vga_state, top)

(* The row and the column of a position of the paper. *)
LEMMA RowAndColumn ==
    \A top, y, x \in Nat : x < W =>
        /\ top * W \in Nat /\ y * W \in Nat
        /\ (top * W + y * W + x) \div W = top + y
        /\ (top * W + y * W + x) % W = x
        /\ (top + y + 1) * W = top * W + y * W + W
<1>. SUFFICES ASSUME NEW top \in Nat, NEW y \in Nat, NEW x \in Nat, x < W
              PROVE  /\ top * W \in Nat /\ y * W \in Nat
                     /\ (top * W + y * W + x) \div W = top + y
                     /\ (top * W + y * W + x) % W = x
                     /\ (top + y + 1) * W = top * W + y * W + W
  OBVIOUS
<1>1. W \in Nat \ {0} /\ top * W \in Nat /\ y * W \in Nat
  BY Grid
<1>2. \A a, b, w \in Nat : (a + b) * w = a * w + b * w
  BY SMT
<1>3. (top + y) * W = top * W + y * W /\ top + y \in Nat
  BY <1>1, <1>2
<1>4. (top + y + 1) * W = (top + y) * W + W
  BY <1>3, Grid
<1>5. \A q, r, w \in Nat : r < w => (q * w + r) \div w = q /\ (q * w + r) % w = r
  <2>. SUFFICES ASSUME NEW q \in Nat, NEW r \in Nat, NEW w \in Nat, r < w
                PROVE  (q * w + r) \div w = q /\ (q * w + r) % w = r
    OBVIOUS
  <2>1. w \in Nat \ {0} /\ q * w \in Nat
    OBVIOUS
  <2>2. QED
    BY <2>1, SMT
<1>6. QED
  BY <1>1, <1>3, <1>4, <1>5

LEMMA PositionIs ==
    ASSUME NEW s \in VgaStates
    PROVE  /\ s.cursor_x \in Nat /\ s.cursor_y \in Nat /\ s.cursor_y * W \in Nat
           /\ Position(s) = s.cursor_y * W + s.cursor_x
           /\ (s.cursor_y + 1) * W = s.cursor_y * W + W
           /\ s.cursor_y = H => s.cursor_y * W = LastRow + W
           /\ s.cursor_y = H - 1 => s.cursor_y * W = LastRow
<1>1. s.cursor_x \in Nat /\ s.cursor_y \in Nat
  BY DEF VgaStates
<1>2. H - 1 \in Nat /\ (H - 1) + 1 = H /\ LastRow = (H - 1) * W
  BY Grid
<1>3. H * W = LastRow + W
  BY <1>2, Grid
<1>4. QED
  BY <1>1, <1>2, <1>3, Grid DEF Position, W

(* An empty screen shows an empty text. *)
LEMMA BlankScreen ==
    ASSUME NEW s, s.cursor_x = 0, s.cursor_y = 0,
           \A i \in Screen : s.buffer[i] = BLANK
    PROVE  /\ <<>> \in Texts /\ End(<<>>) = 0 * W + Position(s)
           /\ \A i \in Screen : s.buffer[i] = ShownOf(<<>>, 0 * W + i)
<1>1. <<>> \in Texts /\ Len(<<>>) = 0
  BY DEF Texts
<1>2. End(<<>>) = 0
  BY <1>1, PaperEquation DEF End
<1>3. 0 * W = 0 /\ \A i \in Screen : i \in Nat /\ 0 + i = i
  BY Sizes
<1>4. \A i \in Screen : ShownOf(<<>>, 0 * W + i) = BLANK
  BY <1>1, <1>2, <1>3, ShownBeyond
<1>5. Position(s) = 0
  BY <1>3, Sizes DEF Position, W
<1>6. QED
  BY <1>1, <1>2, <1>3, <1>4, <1>5

(* vga_putchar starts: the character is on the paper, and the first        *)
(* assignment has brought it to the screen or begun a row.                 *)
LEMMA TextPut ==
    ASSUME Inv, text \in Texts, NEW top \in Nat, TextFrom(vga_state, top),
           NEW c \in Chars, put(c)
    PROVE  TextFrom(vga_state, top)'
<1>. DEFINE s == vga_state
            t == vga_state'
            off == top * W
            row == s.cursor_y * W
<1>1. /\ s \in VgaStates /\ pc = "idle" /\ On(s) /\ Near(s)
      /\ text' = Append(text, c) /\ c \in 1 .. 255
  BY VgaAssumption DEF put, Inv, CursorAt, Near, On
<1>2. /\ \A i \in Screen : s.buffer[i] = ShownOf(text, off + i)
      /\ End(text) = off + Position(s)
      /\ top = 0 \/ s.cursor_y = H - 1
  BY <1>1 DEF TextFrom
<1>3. /\ s.cursor_x \in Nat /\ s.cursor_y \in Nat /\ row \in Nat /\ off \in Nat
      /\ s.cursor_x < W /\ s.cursor_y < H
      /\ Position(s) = row + s.cursor_x
      /\ (s.cursor_y + 1) * W = row + W
      /\ (off + row + s.cursor_x) \div W = top + s.cursor_y
      /\ (top + s.cursor_y + 1) * W = off + row + W
  <2>1. s.cursor_x < W /\ s.cursor_y < H
    BY <1>1 DEF On
  <2>2. QED
    BY <1>1, <2>1, PositionIs, RowAndColumn
<1>4. /\ \A i \in Nat : ShownOf(text', i) =
            IF c # NEWLINE /\ i = End(text) THEN Cell(c, WHITE) ELSE ShownOf(text, i)
      /\ End(text') = After(End(text), c)
  BY <1>1, ShownAppend, PaperAppend
<1>5. \A i \in Screen : i \in Nat /\ off + i \in Nat
  BY <1>3, Sizes
<1>6. CASE c = NEWLINE
  <2>1. t = down(s) /\ pc' = "home"
    BY <1>6 DEF put, put_newline
  <2>2. t.buffer = s.buffer /\ t.cursor_y = s.cursor_y + 1
    BY <1>1, <2>1, Assignments
  <2>3. \A i \in Screen : t.buffer[i] = ShownOf(text', off + i)
    BY <1>2, <1>4, <1>5, <1>6, <2>2
  <2>. HIDE DEF s, t, off, row
  <2>4. End(text') = off + t.cursor_y * W
    <3>1. End(text') = (End(text) \div W + 1) * W
      BY <1>4, <1>6 DEF After
    <3>2. End(text) = off + row + s.cursor_x
      BY <1>2, <1>3
    <3>3. End(text') = off + row + W /\ t.cursor_y * W = row + W
      BY <1>3, <2>2, <3>1, <3>2
    <3>4. QED
      BY <1>3, <3>3, Sizes
  <2>5. top = 0 \/ t.cursor_y = H
    <3>1. (H - 1) + 1 = H
      BY Sizes
    <3>2. QED
      BY <1>2, <2>2, <3>1, Zenon
  <2>6. QED
    BY <2>1, <2>3, <2>4, <2>5 DEF TextFrom, t, off
<1>7. CASE c # NEWLINE
  <2>1. t = store(s, c, WHITE) /\ pc' = "right"
    BY <1>7 DEF put, put_glyph
  <2>2. /\ t.buffer = [s.buffer EXCEPT ![Position(s)] = Cell(c, WHITE)]
        /\ t.cursor_x = s.cursor_x /\ t.cursor_y = s.cursor_y
    <3>1. WHITE \in 0 .. 255
      BY DEF WHITE
    <3>2. QED
      BY <1>1, <2>1, <3>1, Stores
  <2>3. Position(t) = Position(s)
    BY <2>2 DEF Position
  <2>4. s.buffer \in Buffers /\ Position(s) \in Screen /\ Screen \subseteq Memory
    BY <1>1, NearMemory, Sizes DEF VgaStates
  <2>. HIDE DEF s, t, off, row
  <2>5. ASSUME NEW i \in Screen PROVE t.buffer[i] = ShownOf(text', off + i)
    <3>1. t.buffer[i] = IF i = Position(s) THEN Cell(c, WHITE) ELSE s.buffer[i]
      BY <2>2, <2>4 DEF Buffers
    <3>2. i \in Nat /\ Position(s) \in Nat /\ (off + i = End(text) <=> i = Position(s))
      BY <1>2, <1>3, <1>5, <2>4
    <3>3. QED
      BY <1>2, <1>4, <1>5, <1>7, <3>1, <3>2
  <2>6. End(text') = off + Position(t) + 1
    BY <1>2, <1>4, <1>7, <2>3 DEF After
  <2>7. QED
    BY <1>2, <2>1, <2>2, <2>5, <2>6 DEF TextFrom, t, off
<1>8. QED
  BY <1>6, <1>7

(* The other assignments of vga_putchar. *)
LEMMA TextStep ==
    ASSUME Inv, text \in Texts, NEW top \in Nat, TextFrom(vga_state, top),
           continue
    PROVE  TextFrom(vga_state, top)' \/ TextFrom(vga_state, top + 1)'
<1>. DEFINE s == vga_state
            t == vga_state'
            off == top * W
            row == s.cursor_y * W
            Same == \A i \in Screen : t.buffer[i] = ShownOf(text, off + i)
<1>1. /\ s \in VgaStates /\ CursorAt(s) /\ text' = text
  BY DEF continue, step, Inv
<1>2. /\ s.cursor_x \in Nat /\ s.cursor_y \in Nat /\ row \in Nat /\ off \in Nat
      /\ Position(s) = row + s.cursor_x
      /\ (s.cursor_y + 1) * W = row + W
      /\ s.cursor_y = H => row = LastRow + W
      /\ s.cursor_y = H - 1 => row = LastRow
      /\ (top + 1) * W = off + W
  BY <1>1, PositionIs, Grid
<1>3. t.buffer = s.buffer => Same
  BY DEF TextFrom
<1>4. End(text) \in Nat
  BY ShownBeyond
<1>5. CASE step("home", home, AfterRow)
  <2>1. pc = "home" /\ t = home(s)
        /\ pc' = IF t.cursor_y >= H THEN "scroll" ELSE "update"
    BY <1>5 DEF step, AfterRow, PastBottom, H
  <2>2. /\ t \in VgaStates /\ t.buffer = s.buffer
        /\ t.cursor_x = 0 /\ t.cursor_y = s.cursor_y
    BY <1>1, <2>1, Assignments
  <2>3. Position(t) = row + t.cursor_x
    BY <2>2, PositionIs
  <2>4. End(text) = off + row /\ (top = 0 \/ s.cursor_y = H) /\ s.cursor_y =< H
    BY <1>1, <1>2, <2>1, Sizes DEF TextFrom, CursorAt, Near
  <2>. HIDE DEF s, t, off, row, Same
  <2>5. /\ pc' = "scroll" => End(text) = off + LastRow + W /\ t.cursor_y = H
        /\ pc' = "update" => End(text) = off + Position(t) /\ top = 0
        /\ pc' \in {"scroll", "update"}
    BY <1>2, <2>1, <2>2, <2>3, <2>4, Sizes
  <2>6. QED
    BY <1>1, <1>3, <2>2, <2>5 DEF TextFrom, t, off, Same
<1>6. CASE step("right", right,
                LAMBDA u : IF PastRight(u) THEN "wrap" ELSE "update")
  <2>1. pc = "right" /\ t = right(s)
        /\ pc' = IF t.cursor_x >= W THEN "wrap" ELSE "update"
    BY <1>6 DEF step, PastRight, W
  <2>2. /\ t \in VgaStates /\ t.buffer = s.buffer
        /\ t.cursor_x = s.cursor_x + 1 /\ t.cursor_y = s.cursor_y
    BY <1>1, <2>1, Assignments
  <2>3. Position(t) = row + t.cursor_x
    BY <2>2, PositionIs
  <2>4. /\ End(text) = off + Position(s) + 1 /\ (top = 0 \/ s.cursor_y = H - 1)
        /\ s.cursor_x < W
    BY <1>1, <2>1 DEF TextFrom, CursorAt, On
  <2>. HIDE DEF s, t, off, Same
  <2>5. /\ pc' = "update" => End(text) = off + Position(t)
        /\ pc' = "wrap" => End(text) = off + t.cursor_y * W + W
        /\ pc' \in {"wrap", "update"}
    <3>1. t.cursor_y * W = row
      BY <2>2
    <3>. HIDE DEF row
    <3>2. End(text) = off + Position(t)
      BY <1>2, <2>2, <2>3, <2>4
    <3>3. pc' = "wrap" => t.cursor_x = W
      <4>1. pc' = "wrap" => t.cursor_x >= W
        BY <2>1
      <4>2. s.cursor_x \in Nat /\ s.cursor_x < W
        BY <1>2, <2>4
      <4>3. W \in Nat /\ t.cursor_x =< W /\ t.cursor_x \in Nat
        BY <2>2, <4>2, Sizes
      <4>4. t.cursor_x >= W => t.cursor_x = W
        BY <4>3
      <4>5. QED
        BY <4>1, <4>4, Zenon
    <3>4. QED
      BY <1>2, <2>1, <2>3, <3>1, <3>2, <3>3, Sizes
  <2>6. QED
    BY <1>1, <1>3, <2>2, <2>4, <2>5 DEF TextFrom, t, off, Same
<1>7. CASE step("wrap", home, LAMBDA u : "down")
  <2>1. pc = "wrap" /\ t = home(s) /\ pc' = "down"
    BY <1>7 DEF step
  <2>2. /\ t \in VgaStates /\ t.buffer = s.buffer
        /\ t.cursor_x = 0 /\ t.cursor_y = s.cursor_y
    BY <1>1, <2>1, Assignments
  <2>3. End(text) = off + row + W /\ (top = 0 \/ s.cursor_y = H - 1)
    BY <2>1 DEF TextFrom
  <2>4. QED
    BY <1>1, <1>3, <2>1, <2>2, <2>3 DEF TextFrom
<1>8. CASE step("down", down, AfterRow)
  <2>1. pc = "down" /\ t = down(s)
        /\ pc' = IF t.cursor_y >= H THEN "scroll" ELSE "update"
    BY <1>8 DEF step, AfterRow, PastBottom, H
  <2>2. /\ t \in VgaStates /\ t.buffer = s.buffer
        /\ t.cursor_x = s.cursor_x /\ t.cursor_y = s.cursor_y + 1
    BY <1>1, <2>1, Assignments
  <2>3. Position(t) = row + W + t.cursor_x
    BY <1>2, <2>2, PositionIs
  <2>4. /\ End(text) = off + row + W /\ (top = 0 \/ s.cursor_y = H - 1)
        /\ s.cursor_x = 0 /\ s.cursor_y < H
    BY <1>1, <2>1 DEF TextFrom, CursorAt
  <2>. HIDE DEF s, t, off, row, Same
  <2>5. /\ pc' = "scroll" => End(text) = off + LastRow + W /\ t.cursor_y = H
        /\ pc' = "update" => End(text) = off + Position(t) /\ top = 0
        /\ pc' \in {"scroll", "update"}
    BY <1>2, <2>1, <2>2, <2>3, <2>4, Sizes
  <2>6. QED
    BY <1>1, <1>3, <2>2, <2>5 DEF TextFrom, t, off, Same
<1>9. CASE step("scroll", vga_scroll_up, LAMBDA u : "bottom")
  <2>1. pc = "scroll" /\ t = vga_scroll_up(s) /\ pc' = "bottom"
    BY <1>9 DEF step
  <2>2. t.buffer = Up(s.buffer)
    BY <1>1, <2>1, Scrolls
  <2>3. /\ End(text) = off + LastRow + W
        /\ \A i \in Screen : s.buffer[i] = ShownOf(text, off + i)
    BY <2>1 DEF TextFrom
  <2>. HIDE DEF s, t, off, row, Same
  <2>4. ASSUME NEW i \in Screen PROVE t.buffer[i] = ShownOf(text, off + W + i)
    <3>1. i \in Memory /\ i \in Nat
      BY Sizes
    <3>2. CASE i < LastRow
      <4>1. i + W \in Screen /\ off + (i + W) = off + W + i
        BY <1>2, <3>1, <3>2, Sizes
      <4>2. t.buffer[i] = s.buffer[i + W]
        BY <2>2, <3>1, <3>2 DEF Up
      <4>3. QED
        BY <2>3, <4>1, <4>2
    <3>3. CASE ~(i < LastRow)
      <4>1. off + W + i \in Nat /\ off + W + i >= End(text)
        BY <1>2, <2>3, <3>1, <3>3, Sizes
      <4>2. t.buffer[i] = BLANK
        BY <2>2, <3>1, <3>3 DEF Up
      <4>3. QED
        BY <4>1, <4>2, ShownBeyond
    <3>4. QED
      BY <3>2, <3>3
  <2>5. End(text) = off + W + LastRow
    BY <1>2, <2>3, Sizes
  <2>6. TextFrom(vga_state, top + 1)'
    BY <1>1, <1>2, <2>1, <2>4, <2>5 DEF TextFrom, t
  <2>7. QED
    BY <2>6
<1>10. CASE step("bottom", bottom, LAMBDA u : "update")
  <2>1. pc = "bottom" /\ t = bottom(s) /\ pc' = "update"
    BY <1>10 DEF step
  <2>2. /\ t \in VgaStates /\ t.buffer = s.buffer
        /\ t.cursor_x = s.cursor_x /\ t.cursor_y = H - 1
    BY <1>1, <2>1, Assignments
  <2>3. End(text) = off + LastRow /\ s.cursor_x = 0
    BY <1>1, <2>1 DEF TextFrom, CursorAt
  <2>4. Position(t) = LastRow + t.cursor_x
    BY <2>2, PositionIs
  <2>. HIDE DEF s, t, off, row, Same
  <2>5. End(text) = off + Position(t)
    BY <1>2, <2>2, <2>3, <2>4, Sizes
  <2>6. QED
    BY <1>1, <1>3, <2>1, <2>2, <2>5 DEF TextFrom, t, off, Same
<1>11. CASE step("update", update_hardware_cursor, LAMBDA u : "idle")
  <2>1. pc = "update" /\ t = update_hardware_cursor(s) /\ pc' = "idle"
    BY <1>11 DEF step
  <2>2. /\ t.buffer = s.buffer /\ t.cursor_y = s.cursor_y
        /\ Position(t) = Position(s)
    BY <1>1, <2>1, Updates
  <2>3. End(text) = off + Position(s) /\ (top = 0 \/ s.cursor_y = H - 1)
    BY <2>1 DEF TextFrom
  <2>. HIDE DEF s, t, off, row, Same
  <2>4. QED
    BY <1>1, <1>3, <2>1, <2>2, <2>3 DEF TextFrom, t, off, Same
<1>12. QED
  BY <1>5, <1>6, <1>7, <1>8, <1>9, <1>10, <1>11, Zenon DEF continue

LEMMA InitText == Init => TextInv
<1>. SUFFICES ASSUME Init PROVE TextInv
  OBVIOUS
<1>1. /\ text = <<>> /\ pc = "idle"
      /\ vga_state.cursor_x = 0 /\ vga_state.cursor_y = 0
      /\ \A i \in Screen : vga_state.buffer[i] = BLANK
  <2>. DEFINE b == [i \in Memory |-> IF i \in Screen THEN BLANK ELSE <<0, 0>>]
  <2>1. vga_state = [buffer |-> b, cursor_x |-> 0, cursor_y |-> 0, hw_cursor |-> 0]
    BY DEF Init, vga_clear
  <2>2. \A i \in Screen : b[i] = BLANK
    BY Sizes
  <2>. HIDE DEF b
  <2>3. QED
    BY <2>1, <2>2 DEF Init
<1>2. QED
  BY <1>1, BlankScreen DEF TextInv, TextFrom

LEMMA NextText == Inv /\ TextInv /\ [Next]_vars => TextInv'
<1>. SUFFICES ASSUME Inv, TextInv, [Next]_vars PROVE TextInv'
  OBVIOUS
<1>0. text \in Texts
  BY DEF TextInv
<1>1. ASSUME NEW c \in Chars, put(c) PROVE TextInv'
  <2>1. c \in 1 .. 255 /\ text' = Append(text, c)
    BY <1>1, VgaAssumption DEF put
  <2>2. text' \in Texts
    BY <1>0, <2>1, PaperAppend
  <2>3. pc = "idle" /\ placed' = placed
    BY <1>1 DEF put
  <2>4. ~placed => \E top \in Nat : TextFrom(vga_state, top)
    BY <2>3 DEF TextInv
  <2>5. ~placed => \E top \in Nat : TextFrom(vga_state, top)'
    BY <1>0, <1>1, <2>4, TextPut, Zenon
  <2>6. QED
    BY <2>2, <2>3, <2>5, Zenon DEF TextInv
<1>2. CASE continue
  <2>1. text' = text /\ placed' = placed /\ pc \notin {"panic", "stopped"}
    BY <1>2 DEF continue, step
  <2>2. ASSUME ~placed PROVE \E top \in Nat : TextFrom(vga_state, top)'
    <3>1. PICK top \in Nat : TextFrom(vga_state, top)
      BY <2>1, <2>2 DEF TextInv
    <3>2. TextFrom(vga_state, top)' \/ TextFrom(vga_state, top + 1)'
      BY <1>0, <1>2, <3>1, TextStep, Zenon
    <3>3. top + 1 \in Nat
      OBVIOUS
    <3>4. QED
      BY <3>2, <3>3, Zenon
  <2>3. QED
    BY <1>0, <2>1, <2>2, Zenon DEF TextInv
<1>3. CASE clear
  <2>. DEFINE b == [i \in Memory |-> IF i \in Screen THEN BLANK ELSE vga_state.buffer[i]]
  <2>1. pc' = "idle" /\ text' = <<>>
    BY <1>3 DEF clear
  <2>2. PICK h \in Nat : vga_state' =
           [buffer |-> b, cursor_x |-> 0, cursor_y |-> 0, hw_cursor |-> h]
    <3>1. PICK a \in Buffers, x \in Nat, y \in Nat, h \in Nat :
             vga_state = [buffer |-> a, cursor_x |-> x, cursor_y |-> y, hw_cursor |-> h]
      BY DEF Inv, VgaStates
    <3>2. QED
      BY <1>3, <3>1 DEF clear, vga_clear
  <2>3. \A i \in Screen : b[i] = BLANK
    BY Sizes
  <2>. HIDE DEF b
  <2>4. /\ vga_state'.cursor_x = 0 /\ vga_state'.cursor_y = 0
        /\ \A i \in Screen : vga_state'.buffer[i] = BLANK
    BY <2>2, <2>3
  <2>5. TextFrom(vga_state, 0)'
    BY <2>1, <2>4, BlankScreen DEF TextFrom
  <2>6. QED
    BY <2>1, <2>4, <2>5, BlankScreen DEF TextInv
<1>4. ASSUME NEW x \in 0 .. VGA_WIDTH, NEW y \in 0 .. VGA_HEIGHT, move(x, y)
      PROVE  TextInv'
  BY <1>0, <1>4, Zenon DEF move, TextInv
<1>5. ASSUME NEW m \in Messages, exception(m) PROVE TextInv'
  BY <1>0, <1>5, Zenon DEF exception, TextInv
<1>6. CASE vga_putstr
  <2>1. pc' \in {"panic", "stopped"} /\ text' = text
    BY <1>6 DEF vga_putstr
  <2>2. QED
    BY <1>0, <2>1, Zenon DEF TextInv
<1>7. CASE UNCHANGED vars
  BY <1>7 DEF vars, TextInv, TextFrom
<1>8. QED
  BY <1>1, <1>2, <1>3, <1>4, <1>5, <1>6, <1>7, Zenon DEF Next

(* On a screen of any size, after any characters, line wraps and scrolls,  *)
(* and with vga_clear at any time, the screen shows the end of the text.   *)
THEOREM VgaTail == Spec => []ShowsTail
<1>1. Inv /\ TextInv => ShowsTail
  <2>. SUFFICES ASSUME Inv, TextInv, pc = "idle", ~placed PROVE ShowsTail
    BY Zenon DEF ShowsTail
  <2>. DEFINE s == vga_state
              end == Paper[Len(text)]
              top == IF end \div VGA_WIDTH < VGA_HEIGHT THEN 0
                     ELSE end \div VGA_WIDTH - (VGA_HEIGHT - 1)
  <2>1. PICK u \in Nat : TextFrom(vga_state, u)
    BY Zenon DEF TextInv
  <2>2. s \in VgaStates /\ s.cursor_x < W /\ s.cursor_y < H
    BY DEF Inv, CursorAt, On
  <2>3. /\ \A i \in Screen : s.buffer[i] = ShownOf(text, u * W + i)
        /\ End(text) = u * W + Position(s)
        /\ u = 0 \/ s.cursor_y = H - 1
    BY <2>1 DEF TextFrom
  <2>4. end = End(text)
    BY PaperShown, Zenon DEF End
  <2>. HIDE DEF end
  <2>5. /\ s.cursor_x \in Nat /\ s.cursor_y \in Nat
        /\ end \div W = u + s.cursor_y /\ end % W = s.cursor_x
    <3>1. /\ s.cursor_x \in Nat /\ s.cursor_y \in Nat
          /\ Position(s) = s.cursor_y * W + s.cursor_x
      BY <2>2, PositionIs
    <3>2. /\ u * W \in Nat /\ s.cursor_y * W \in Nat
          /\ (u * W + s.cursor_y * W + s.cursor_x) \div W = u + s.cursor_y
      BY <2>2, <3>1, RowAndColumn, Zenon
    <3>3. end = u * W + s.cursor_y * W + s.cursor_x
      BY <2>3, <2>4, <3>1, <3>2
    <3>4. end % W = s.cursor_x
      <4>. DEFINE x == s.cursor_x
                  y == s.cursor_y
      <4>1. x \in Nat /\ y \in Nat /\ x < W /\ end = u * W + y * W + x
        BY <2>2, <3>1, <3>3
      <4>. HIDE DEF x, y, end, top
      <4>2. end % W = x
        BY <4>1, RowAndColumn
      <4>3. QED
        BY <4>2 DEF x
    <3>5. QED
      BY <3>1, <3>2, <3>3, <3>4, Zenon
  <2>6. top = u
    BY <2>2, <2>3, <2>5, Sizes DEF W, H
  <2>7. /\ \A i \in Screen : s.buffer[i] = Shown(top * VGA_WIDTH + i)
        /\ vga_get_cursor = <<end % VGA_WIDTH, end \div VGA_WIDTH - top>>
    <3>. HIDE DEF top
    <3>1. \A i \in Screen : s.buffer[i] = Shown(top * VGA_WIDTH + i)
      BY <2>3, <2>6, PaperShown DEF W
    <3>2. end \div W - top = s.cursor_y
      BY <2>5, <2>6
    <3>3. QED
      BY <2>5, <3>1, <3>2 DEF vga_get_cursor, W
  <2>8. QED
    BY <2>7, Zenon DEF ShowsTail, end
<1>2. QED
  BY <1>1, InitInv, NextInv, InitText, NextText, PTL DEF Spec
-----------------------------------------------------------------------------
Strs == Seq(Nat)
Lists == Seq(Strs)

(* The recursive function in FlattenSeq. *)
Flat(q) == LET flatten[i \in 1 .. Len(q)] ==
                 IF i = 1 THEN q[i] ELSE flatten[i - 1] \o q[i]
           IN  flatten

LEMMA FlatIs ==
    ASSUME NEW q
    PROVE  FlattenSeq(q) = IF Len(q) = 0 THEN q ELSE Flat(q)[Len(q)]
BY Zenon DEF FlattenSeq, Flat

LEMMA Joined ==
    ASSUME NEW a \in Strs, NEW b \in Strs
    PROVE  a \o b \in Strs
BY ConcatProperties, Zenon DEF Strs

LEMMA Longer ==
    ASSUME NEW a \in Strs, NEW n \in Nat
    PROVE  Append(a, n) \in Strs /\ Append(a, n) # <<>>
<1>1. a \in Seq(Nat)
  BY DEF Strs
<1>2. QED
  BY <1>1, AppendProperties, Zenon DEF Strs

LEMMA Numbers ==
    ASSUME NEW S, S \subseteq Nat, NEW a \in Seq(S)
    PROVE  a \in Strs
<1>1. \A i \in 1 .. Len(a) : a[i] \in Nat
  BY ElementOfSeq
<1>2. Len(a) \in Nat /\ a = [i \in 1 .. Len(a) |-> a[i]]
  OBVIOUS
<1>3. QED
  BY <1>1, <1>2 DEF Strs

LEMMA Associative ==
    ASSUME NEW a \in Strs, NEW b \in Strs, NEW c \in Strs
    PROVE  (a \o b) \o c = a \o (b \o c)
<1>1. a \in Seq(Nat) /\ b \in Seq(Nat) /\ c \in Seq(Nat)
  BY DEF Strs
<1>2. QED
  BY <1>1, ConcatAssociative

LEMMA FlatEquation ==
    ASSUME NEW q \in Lists, q # <<>>
    PROVE  /\ Flat(q) \in [1 .. Len(q) -> Strs] /\ Flat(q)[1] = q[1]
           /\ \A i \in 1 .. Len(q) - 1 : Flat(q)[i + 1] = Flat(q)[i] \o q[i + 1]
<1>. DEFINE N == Len(q)
            M == N - 1
            e(f, i) == IF i = 1 THEN q[i] ELSE f[i - 1] \o q[i]
            g == [i \in 1 .. M |-> [p \in Strs |-> p \o q[i + 1]]]
            P == Flat(q)
<1>1. N \in Nat /\ N >= 1 /\ M \in Nat /\ \A i \in 1 .. N : q[i] \in Strs
  BY DEF Lists
<1>. HIDE DEF N
<1>2. \A i \in 1 .. M : i + 1 \in 1 .. N /\ q[i + 1] \in Strs
  BY <1>1
<1>3. g \in Steps(Strs, M)
  <2>1. \A i \in 1 .. M : \A p \in Strs : p \o q[i + 1] \in Strs
    BY <1>2, Joined
  <2>. HIDE DEF M
  <2>2. QED
    BY <2>1 DEF Steps
<1>4. q[1] \in Strs
  BY <1>1
<1>. HIDE DEF M, g
<1>5. Iterates(Strs, q[1], M, g) # {}
  BY <1>1, <1>3, <1>4, Recursion, Zenon
<1>6. PICK f \in [0 .. M -> Strs] :
         f[0] = q[1] /\ \A i \in 1 .. M : f[i] = f[i - 1] \o q[i + 1]
  <2>1. PICK f \in [0 .. M -> Strs] :
           f[0] = q[1] /\ \A i \in 1 .. M : f[i] = g[i][f[i - 1]]
    BY <1>5 DEF Iterates
  <2>2. \A i \in 1 .. M : f[i - 1] \in Strs
    BY <1>1 DEF M
  <2>3. \A i \in 1 .. M : \A p \in Strs : g[i][p] = p \o q[i + 1]
    BY DEF g
  <2>4. QED
    BY <2>1, <2>2, <2>3
<1>. DEFINE h == [i \in 1 .. N |-> f[i - 1]]
<1>7. h = [i \in 1 .. N |-> e(h, i)]
  <2>1. ASSUME NEW i \in 1 .. N PROVE h[i] = e(h, i)
    <3>1. CASE i = 1
      BY <1>1, <1>6, <3>1
    <3>2. CASE i # 1
      <4>1. /\ i - 1 \in 1 .. M /\ (i - 1) + 1 = i /\ i - 1 \in 1 .. N
            /\ h[i] = f[i - 1] /\ h[i - 1] = f[(i - 1) - 1]
        BY <1>1, <3>2 DEF M
      <4>2. f[i - 1] = f[(i - 1) - 1] \o q[(i - 1) + 1]
        BY <1>6, <4>1
      <4>. HIDE DEF h
      <4>3. QED
        BY <3>2, <4>1, <4>2, Zenon
    <3>3. QED
      BY <3>1, <3>2
  <2>. HIDE DEF e
  <2>2. QED
    BY <2>1
<1>8. P = [i \in 1 .. N |-> e(P, i)]
  <2>1. P = CHOOSE flatten : flatten = [i \in 1 .. N |-> e(flatten, i)]
    BY Zenon DEF Flat, N
  <2>. HIDE DEF P, e, h
  <2>2. QED
    BY <1>7, <2>1, Zenon
<1>. HIDE DEF P, h
<1>9. P[1] = q[1] /\ \A i \in 1 .. M : P[i + 1] = P[i] \o q[i + 1]
  <2>1. /\ 1 \in 1 .. N
        /\ \A i \in 1 .. M : i + 1 \in 1 .. N /\ i + 1 # 1 /\ (i + 1) - 1 = i
    BY <1>1 DEF M
  <2>2. \A i \in 1 .. N : P[i] = e(P, i)
    BY <1>8
  <2>3. QED
    BY <2>1, <2>2
<1>10. \A i \in 1 .. N : P[i] \in Strs
  <2>. DEFINE S == {i \in 0 .. M : P[i + 1] \in Strs}
  <2>1. 0 \in S
    BY <1>1, <1>4, <1>9
  <2>2. ASSUME NEW n \in 0 .. M - 1, n \in S PROVE n + 1 \in S
    <3>0. n + 1 \in 1 .. M /\ n + 1 \in 0 .. M
      BY <1>1
    <3>1. P[(n + 1) + 1] = P[n + 1] \o q[(n + 1) + 1]
      BY <1>9, <3>0
    <3>2. P[n + 1] \in Strs /\ q[(n + 1) + 1] \in Strs
      BY <1>2, <2>2, <3>0
    <3>3. P[(n + 1) + 1] \in Strs
      BY <3>1, <3>2, Joined
    <3>4. QED
      BY <3>0, <3>3
  <2>. HIDE DEF S
  <2>3. 0 .. M \subseteq S
    BY <1>1, <2>1, <2>2, Induction
  <2>4. \A i \in 1 .. N : i - 1 \in 0 .. M /\ (i - 1) + 1 = i
    BY <1>1 DEF M
  <2>5. QED
    BY <2>3, <2>4 DEF S
<1>11. P \in [1 .. N -> Strs]
  <2>1. DOMAIN P = 1 .. N /\ P = [n \in DOMAIN P |-> P[n]]
    BY <1>8
  <2>2. QED
    BY <1>10, <2>1
<1>12. QED
  BY <1>9, <1>11 DEF P, N, M

(* What FlattenSeq makes of a list with one more sequence. *)
LEMMA FlattenAppend ==
    ASSUME NEW q \in Lists, NEW b \in Strs
    PROVE  /\ Append(q, b) \in Lists /\ FlattenSeq(q) \in Strs
           /\ FlattenSeq(Append(q, b)) = FlattenSeq(q) \o b
           /\ FlattenSeq(<<>>) = <<>>
<1>. DEFINE u == Append(q, b)
            N == Len(q)
<1>1. /\ u \in Lists /\ N \in Nat /\ Len(u) = N + 1 /\ u[N + 1] = b /\ u # <<>>
      /\ \A i \in 1 .. N : u[i] = q[i]
  BY DEF Lists
<1>2. FlattenSeq(<<>>) = <<>> /\ <<>> \in Strs
  BY FlatIs DEF Strs
<1>3. FlattenSeq(u) = Flat(u)[N + 1]
  <2>1. Len(u) # 0
    BY <1>1
  <2>2. QED
    BY <1>1, <2>1, FlatIs
<1>. HIDE DEF u
<1>4. /\ Flat(u)[1] = u[1]
      /\ \A i \in 1 .. N : Flat(u)[i + 1] = Flat(u)[i] \o u[i + 1]
  <2>1. (N + 1) - 1 = N
    BY <1>1
  <2>2. QED
    BY <1>1, <2>1, FlatEquation
<1>5. CASE q = <<>>
  <2>1. N = 0 /\ FlattenSeq(u) = b
    BY <1>1, <1>3, <1>4, <1>5
  <2>2. <<>> \o b = b
    BY ConcatEmptySeq DEF Strs
  <2>3. QED
    BY <1>1, <1>2, <1>5, <2>1, <2>2 DEF u
<1>6. CASE q # <<>>
  <2>1. N >= 1 /\ FlattenSeq(q) = Flat(q)[N]
    <3>1. Len(q) # 0 /\ N >= 1
      BY <1>6 DEF Lists
    <3>2. QED
      BY <3>1, FlatIs
  <2>2. /\ Flat(q) \in [1 .. N -> Strs] /\ Flat(q)[1] = q[1]
        /\ \A i \in 1 .. N - 1 : Flat(q)[i + 1] = Flat(q)[i] \o q[i + 1]
    BY <1>6, FlatEquation
  <2>. DEFINE S == {i \in 0 .. N - 1 : Flat(u)[i + 1] = Flat(q)[i + 1]}
  <2>. HIDE DEF N
  <2>3. 0 \in S
    BY <1>1, <1>4, <2>1, <2>2
  <2>4. ASSUME NEW n \in 0 .. (N - 1) - 1, n \in S PROVE n + 1 \in S
    <3>1. /\ n + 1 \in 1 .. N - 1 /\ n + 1 \in 0 .. N - 1 /\ n + 1 \in 1 .. N
          /\ (n + 1) + 1 \in 1 .. N
      BY <1>1, <2>1
    <3>2. Flat(u)[(n + 1) + 1] = Flat(u)[n + 1] \o u[(n + 1) + 1]
      BY <1>4, <3>1
    <3>3. Flat(q)[(n + 1) + 1] = Flat(q)[n + 1] \o q[(n + 1) + 1]
      BY <2>2, <3>1
    <3>4. Flat(u)[n + 1] = Flat(q)[n + 1] /\ u[(n + 1) + 1] = q[(n + 1) + 1]
      BY <1>1, <2>4, <3>1
    <3>5. QED
      BY <3>1, <3>2, <3>3, <3>4
  <2>. HIDE DEF S
  <2>5. 0 .. N - 1 \subseteq S
    <3>1. N - 1 \in Nat
      BY <1>1, <2>1
    <3>2. QED
      BY <2>3, <2>4, <3>1, Induction
  <2>6. N - 1 \in 0 .. N - 1 /\ (N - 1) + 1 = N /\ N \in 1 .. N
    BY <1>1, <2>1
  <2>7. Flat(u)[N] = Flat(q)[N]
    BY <2>5, <2>6 DEF S
  <2>8. Flat(u)[N + 1] = Flat(q)[N] \o b
    BY <1>1, <1>4, <2>6, <2>7
  <2>9. Flat(q)[N] \in Strs
    BY <2>2, <2>6
  <2>10. QED
    BY <1>1, <1>2, <1>3, <2>1, <2>8, <2>9 DEF u
<1>7. QED
  BY <1>5, <1>6
-----------------------------------------------------------------------------
(* The registers and FIFOs of the UART. *)
Uarts == [lcr : Nat, divisor : [1 .. 2 -> Nat], ier : Nat, mcr : Nat,
          tx : Strs, rx : Strs]

(* What a write to each register does to the transmitter and to LCR. *)
LEMMA Out ==
    ASSUME NEW u \in Uarts, NEW b \in Nat
    PROVE  /\ LET v == out(u, UART_IER, b)
              IN  v \in Uarts /\ v.lcr = u.lcr /\ v.tx = u.tx
           /\ LET v == out(u, UART_LCR, b)
              IN  v \in Uarts /\ v.lcr = b /\ v.tx = u.tx
           /\ LET v == out(u, UART_MCR, b)
              IN  v \in Uarts /\ v.lcr = u.lcr /\ v.tx = u.tx
           /\ LET v == out(u, UART_DATA, b)
              IN  /\ v \in Uarts /\ v.lcr = u.lcr
                  /\ ~DLAB(u) => v.tx = Put(u.tx, b)
           /\ LET v == out(u, UART_FCR, b)
              IN  v \in Uarts /\ v.lcr = u.lcr /\ (Has(b, 4) => v.tx = <<>>)
<1>1. PICK l \in Nat, d \in [1 .. 2 -> Nat], i \in Nat, m \in Nat, t \in Strs, r \in Strs :
         u = [lcr |-> l, divisor |-> d, ier |-> i, mcr |-> m, tx |-> t, rx |-> r]
  BY DEF Uarts
<1>2. <<>> \in Strs /\ Put(t, b) \in Strs
  BY DEF Strs, Put
<1>3. /\ [d EXCEPT ![1] = b] \in [1 .. 2 -> Nat]
      /\ [d EXCEPT ![2] = b] \in [1 .. 2 -> Nat]
  OBVIOUS
<1>5. out(u, UART_IER, b) =
         IF DLAB(u) THEN [u EXCEPT !.divisor[2] = b] ELSE [u EXCEPT !.ier = b]
  BY DEF out, UART_DATA, UART_IER, UART_FCR, UART_LCR, UART_MCR
<1>6. out(u, UART_LCR, b) = [u EXCEPT !.lcr = b]
  BY DEF out, UART_DATA, UART_IER, UART_FCR, UART_LCR, UART_MCR
<1>7. out(u, UART_MCR, b) = [u EXCEPT !.mcr = b]
  BY DEF out, UART_DATA, UART_IER, UART_FCR, UART_LCR, UART_MCR
<1>8. out(u, UART_DATA, b) =
         IF DLAB(u) THEN [u EXCEPT !.divisor[1] = b]
         ELSE [u EXCEPT !.tx = Put(u.tx, b)]
  BY DEF out, UART_DATA, UART_IER, UART_FCR, UART_LCR, UART_MCR
<1>9. out(u, UART_FCR, b) = [u EXCEPT !.rx = IF Has(b, 2) THEN <<>> ELSE u.rx,
                                      !.tx = IF Has(b, 4) THEN <<>> ELSE u.tx]
  BY DEF out, UART_DATA, UART_IER, UART_FCR, UART_LCR, UART_MCR
<1>10. LET v == out(u, UART_IER, b)
       IN  v \in Uarts /\ v.lcr = u.lcr /\ v.tx = u.tx
  BY <1>1, <1>3, <1>5 DEF Uarts
<1>11. LET v == out(u, UART_LCR, b)
       IN  v \in Uarts /\ v.lcr = b /\ v.tx = u.tx
  BY <1>1, <1>6 DEF Uarts
<1>12. LET v == out(u, UART_MCR, b)
       IN  v \in Uarts /\ v.lcr = u.lcr /\ v.tx = u.tx
  BY <1>1, <1>7 DEF Uarts
<1>13. LET v == out(u, UART_DATA, b)
       IN  /\ v \in Uarts /\ v.lcr = u.lcr
           /\ ~DLAB(u) => v.tx = Put(u.tx, b)
  BY <1>1, <1>2, <1>3, <1>8 DEF Uarts
<1>14. LET v == out(u, UART_FCR, b)
       IN  v \in Uarts /\ v.lcr = u.lcr /\ (Has(b, 4) => v.tx = <<>>)
  BY <1>1, <1>2, <1>9 DEF Uarts
<1>15. QED
  BY <1>10, <1>11, <1>12, <1>13, <1>14, Zenon

(* serial_init leaves the transmitter empty and the data register in the   *)
(* place of the divisor's.                                                 *)
LEMMA Initialized ==
    ASSUME NEW u \in Uarts
    PROVE  LET v == serial_init(u) IN v \in Uarts /\ v.lcr = 3 /\ v.tx = <<>>
<1>. DEFINE X == InitWrites
            e(f, i) == IF i = 0 THEN u ELSE out(f[i - 1], X[i][1], X[i][2])
            g == [i \in 1 .. 8 |-> [v \in Uarts |-> out(v, X[i][1], X[i][2])]]
            P == CHOOSE after : after = [i \in 0 .. 8 |-> e(after, i)]
<1>1. /\ X[1] = <<UART_IER, 0>> /\ X[2] = <<UART_LCR, 128>>
      /\ X[3] = <<UART_DATA, 1>> /\ X[4] = <<UART_IER, 1>>
      /\ X[5] = <<UART_LCR, 3>> /\ X[6] = <<UART_FCR, 199>>
      /\ X[7] = <<UART_MCR, 11>> /\ X[8] = <<UART_IER, 1>>
  BY DEF InitWrites
<1>. HIDE DEF X
<1>2. \A i \in 1 .. 8 : \A v \in Uarts : out(v, X[i][1], X[i][2]) \in Uarts
  <2>1. \A i \in 1 .. 8 :
           /\ X[i][2] \in Nat
           /\ X[i][1] \in {UART_DATA, UART_IER, UART_FCR, UART_LCR, UART_MCR}
    BY <1>1
  <2>2. QED
    BY <2>1, Out
<1>3. PICK f \in [0 .. 8 -> Uarts] :
         f[0] = u /\ \A i \in 1 .. 8 : f[i] = out(f[i - 1], X[i][1], X[i][2])
  <2>1. g \in Steps(Uarts, 8) /\ 8 \in Nat
    BY <1>2 DEF Steps
  <2>. HIDE DEF g
  <2>2. Iterates(Uarts, u, 8, g) # {}
    BY <2>1, Recursion, Zenon
  <2>3. PICK f \in [0 .. 8 -> Uarts] :
           f[0] = u /\ \A i \in 1 .. 8 : f[i] = g[i][f[i - 1]]
    BY <2>2 DEF Iterates
  <2>4. \A i \in 1 .. 8 : f[i - 1] \in Uarts
    OBVIOUS
  <2>5. \A i \in 1 .. 8 : \A v \in Uarts : g[i][v] = out(v, X[i][1], X[i][2])
    BY DEF g
  <2>6. QED
    BY <2>3, <2>4, <2>5
<1>4. f = [i \in 0 .. 8 |-> e(f, i)]
  <2>1. \A i \in 0 .. 8 : i = 0 \/ i \in 1 .. 8
    OBVIOUS
  <2>2. \A i \in 0 .. 8 : f[i] = e(f, i)
    BY <1>3, <2>1, Zenon
  <2>3. QED
    BY <2>2
<1>5. P = [i \in 0 .. 8 |-> e(P, i)]
  <2>. HIDE DEF e
  <2>1. QED
    BY <1>4, Zenon
<1>6. serial_init(u) = P[8]
  BY Zenon DEF serial_init, X
<1>. HIDE DEF P
<1>7. /\ P[0] = u /\ P[1] = out(P[0], UART_IER, 0) /\ P[2] = out(P[1], UART_LCR, 128)
      /\ P[3] = out(P[2], UART_DATA, 1) /\ P[4] = out(P[3], UART_IER, 1)
      /\ P[5] = out(P[4], UART_LCR, 3) /\ P[6] = out(P[5], UART_FCR, 199)
      /\ P[7] = out(P[6], UART_MCR, 11) /\ P[8] = out(P[7], UART_IER, 1)
  <2>1. \A i \in 0 .. 8 : P[i] = e(P, i)
    BY <1>5
  <2>2. QED
    BY <1>1, <2>1
<1>. HIDE DEF e, g
<1>o. \A v \in Uarts : \A b \in Nat :
         /\ out(v, UART_IER, b) \in Uarts /\ out(v, UART_LCR, b) \in Uarts
         /\ out(v, UART_MCR, b) \in Uarts /\ out(v, UART_DATA, b) \in Uarts
         /\ out(v, UART_FCR, b) \in Uarts
         /\ out(v, UART_IER, b).lcr = v.lcr /\ out(v, UART_IER, b).tx = v.tx
         /\ out(v, UART_MCR, b).lcr = v.lcr /\ out(v, UART_MCR, b).tx = v.tx
         /\ out(v, UART_LCR, b).lcr = b /\ out(v, UART_FCR, b).lcr = v.lcr
         /\ Has(b, 4) => out(v, UART_FCR, b).tx = <<>>
  BY Out
<1>8. P[1] \in Uarts
  <2>1. 0 \in Nat
    OBVIOUS
  <2>2. QED
    BY <1>7, <2>1, <1>o
<1>9. P[2] \in Uarts
  <2>1. 128 \in Nat
    OBVIOUS
  <2>2. QED
    BY <1>7, <1>8, <2>1, <1>o
<1>10. 1 \in Nat /\ 3 \in Nat /\ 199 \in Nat /\ 11 \in Nat /\ Has(199, 4)
  BY DEF Has
<1>11. P[3] \in Uarts
  BY <1>7, <1>9, <1>10, <1>o
<1>12. P[4] \in Uarts
  BY <1>7, <1>10, <1>11, <1>o
<1>13. P[5] \in Uarts /\ P[5].lcr = 3
  BY <1>7, <1>10, <1>12, <1>o
<1>14. P[6] \in Uarts /\ P[6].lcr = 3 /\ P[6].tx = <<>>
  <2>1. PICK b \in Nat : b = 199
    OBVIOUS
  <2>2. /\ out(P[5], UART_FCR, b) \in Uarts /\ out(P[5], UART_FCR, b).lcr = P[5].lcr
        /\ Has(b, 4) => out(P[5], UART_FCR, b).tx = <<>>
    BY <1>13, <1>o
  <2>3. QED
    BY <1>7, <1>10, <1>13, <2>1, <2>2, Zenon
<1>15. P[7] \in Uarts /\ P[7].lcr = 3 /\ P[7].tx = <<>>
  <2>1. P[7] = out(P[6], UART_MCR, 11)
    BY <1>7
  <2>2. out(P[6], UART_MCR, 11) \in Uarts /\ out(P[6], UART_MCR, 11).lcr = P[6].lcr
    BY <1>10, <1>14, <1>o
  <2>3. out(P[6], UART_MCR, 11).tx = <<>>
    BY <1>10, <1>14, <1>o
  <2>4. QED
    BY <1>14, <2>1, <2>2, <2>3, Zenon
<1>16. P[8] \in Uarts /\ P[8].lcr = 3 /\ P[8].tx = <<>>
  <2>1. P[8] = out(P[7], UART_IER, 1)
    BY <1>7
  <2>2. out(P[7], UART_IER, 1) \in Uarts /\ out(P[7], UART_IER, 1).lcr = P[7].lcr
    BY <1>10, <1>15, <1>o
  <2>3. out(P[7], UART_IER, 1).tx = <<>>
    BY <1>10, <1>15, <1>o
  <2>4. QED
    BY <1>15, <2>1, <2>2, <2>3, Zenon
<1>17. QED
  BY <1>6, <1>16, Zenon
-----------------------------------------------------------------------------
Call  == [str : Strs, result : {0, -1}]
Calls == Seq(Call)

(* What the first n calls put on the wire, a piece for each: the whole of  *)
(* a string that was sent, less than the whole of one that was not.        *)
Fits(front, q, n) ==
    /\ front \in Lists /\ Len(front) = n
    /\ \A i \in 1 .. n :
          \/ q[i].result = 0 /\ front[i] = q[i].str
          \/ /\ q[i].result = -1
             /\ \E j \in 0 .. Len(q[i].str) - 1 : front[i] = SubSeq(q[i].str, 1, j)

(* Between calls the wire carries the pieces of all of them. *)
Told(q, carried) ==
    \E front \in Lists : Fits(front, q, Len(q)) /\ carried = FlattenSeq(front)

(* During a call it carries the pieces of the earlier ones and the part of *)
(* the string that is no longer in str.                                    *)
Sending(q, carried, rest) ==
    /\ q # <<>> /\ q[Len(q)].result = 0
    /\ \E front \in Lists : \E j \in 0 .. Len(q[Len(q)].str) - 1 :
          /\ Fits(front, q, Len(q) - 1)
          /\ carried = FlattenSeq(front) \o SubSeq(q[Len(q)].str, 1, j)
          /\ rest = SubSeq(q[Len(q)].str, j + 1, Len(q[Len(q)].str))

SerialTypes ==
    /\ uart \in Uarts /\ uart.lcr = 3 /\ wire \in Strs /\ calls \in Calls
    /\ timeout \in Nat /\ (serial_pc = "read" => uart.rx # <<>>)
    /\ serial_pc \in {"idle", "poll", "write", "wait", "read"}

SerialInv ==
    /\ SerialTypes
    /\ serial_pc \in {"idle", "wait", "read"} => Told(calls, wire \o uart.tx)
    /\ serial_pc \in {"poll", "write"} => Sending(calls, wire \o uart.tx, str)
    /\ serial_pc = "write" => uart.tx = <<>>

LEMMA Parts ==
    ASSUME NEW S \in Strs, NEW j \in 0 .. Len(S) - 1
    PROVE  /\ SubSeq(S, 1, 0) = <<>> /\ SubSeq(S, 1, Len(S)) = S
           /\ SubSeq(S, 1, j) \in Strs /\ SubSeq(S, j + 1, Len(S)) \in Strs
           /\ Len(SubSeq(S, j + 1, Len(S))) = Len(S) - j
           /\ Head(SubSeq(S, j + 1, Len(S))) = S[j + 1] /\ S[j + 1] \in Nat
           /\ Tail(SubSeq(S, j + 1, Len(S))) = SubSeq(S, (j + 1) + 1, Len(S))
           /\ SubSeq(S, 1, j) \o <<S[j + 1]>> = SubSeq(S, 1, j + 1)
<1>1. SubSeq(S, 1, 0) = <<>> /\ SubSeq(S, 1, Len(S)) = S
  BY DEF Strs
<1>2. /\ SubSeq(S, 1, j) \in Strs /\ SubSeq(S, j + 1, Len(S)) \in Strs
      /\ Len(SubSeq(S, j + 1, Len(S))) = Len(S) - j
  BY DEF Strs
<1>3. Head(SubSeq(S, j + 1, Len(S))) = S[j + 1] /\ S[j + 1] \in Nat
  BY DEF Strs
<1>4. Tail(SubSeq(S, j + 1, Len(S))) = SubSeq(S, (j + 1) + 1, Len(S))
  BY DEF Strs
<1>5. SubSeq(S, 1, j) \o <<S[j + 1]>> = SubSeq(S, 1, j + 1)
  BY DEF Strs
<1>6. QED
  BY <1>1, <1>2, <1>3, <1>4, <1>5

LEMMA FitsToo ==
    ASSUME NEW q, NEW p, NEW n, \A i \in 1 .. n : p[i] = q[i],
           NEW front, Fits(front, q, n)
    PROVE  Fits(front, p, n)
BY Zenon DEF Fits

(* A piece is added for one more call. *)
LEMMA OnePieceMore ==
    ASSUME NEW q \in Calls, NEW n \in Nat, Len(q) = n + 1,
           NEW front \in Lists, Fits(front, q, n), NEW b \in Strs,
           \/ q[n + 1].result = 0 /\ b = q[n + 1].str
           \/ /\ q[n + 1].result = -1
              /\ \E j \in 0 .. Len(q[n + 1].str) - 1 : b = SubSeq(q[n + 1].str, 1, j)
    PROVE  Told(q, FlattenSeq(front) \o b)
<1>. DEFINE g == Append(front, b)
<1>1. /\ g \in Lists /\ Len(g) = n + 1 /\ g[n + 1] = b
      /\ \A i \in 1 .. n : g[i] = front[i]
  BY DEF Lists, Fits
<1>2. FlattenSeq(g) = FlattenSeq(front) \o b
  BY FlattenAppend
<1>. HIDE DEF g
<1>3. ASSUME NEW i \in 1 .. n + 1
      PROVE  \/ q[i].result = 0 /\ g[i] = q[i].str
             \/ /\ q[i].result = -1
                /\ \E j \in 0 .. Len(q[i].str) - 1 : g[i] = SubSeq(q[i].str, 1, j)
  <2>1. CASE i = n + 1
    BY <1>1, <2>1, Zenon
  <2>2. CASE i # n + 1
    <3>1. i \in 1 .. n
      BY <2>2
    <3>2. QED
      BY <1>1, <3>1, Zenon DEF Fits
  <2>3. QED
    BY <2>1, <2>2
<1>4. Fits(g, q, Len(q))
  BY <1>1, <1>3 DEF Fits
<1>5. QED
  BY <1>1, <1>2, <1>4, Zenon DEF Told

(* serial_send_str begins. *)
LEMMA Called ==
    ASSUME NEW q \in Calls, NEW s \in Strs, NEW carried \in Strs, Told(q, carried)
    PROVE  LET p == Append(q, [str |-> s, result |-> 0])
           IN  /\ p \in Calls
               /\ s = <<>> => Told(p, carried)
               /\ s # <<>> => Sending(p, carried, s)
<1>. DEFINE r == [str |-> s, result |-> 0]
            p == Append(q, r)
            n == Len(q)
<1>0. r \in Call /\ r.str = s /\ r.result = 0
  BY DEF Call
<1>. HIDE DEF r
<1>1. /\ n \in Nat /\ p \in Calls /\ Len(p) = n + 1 /\ p[n + 1] = r /\ p # <<>>
      /\ \A i \in 1 .. n : p[i] = q[i]
  BY <1>0 DEF Calls
<1>. HIDE DEF p, n
<1>2. p[n + 1].str = s /\ p[n + 1].result = 0 /\ Len(p) - 1 = n
  BY <1>0, <1>1
<1>3. PICK front \in Lists : Fits(front, q, n) /\ carried = FlattenSeq(front)
  BY Zenon DEF Told, n
<1>4. Fits(front, p, n)
  BY <1>1, <1>3, FitsToo
<1>5. <<>> \in Strs /\ carried \o <<>> = carried
  BY ConcatEmptySeq DEF Strs
<1>6. ASSUME s = <<>> PROVE Told(p, carried)
  <2>1. Told(p, FlattenSeq(front) \o s)
    BY <1>1, <1>2, <1>3, <1>4, OnePieceMore
  <2>2. QED
    BY <1>3, <1>5, <1>6, <2>1, Zenon
<1>7. ASSUME s # <<>> PROVE Sending(p, carried, s)
  <2>1. 0 \in 0 .. Len(s) - 1 /\ SubSeq(s, 1, 0) = <<>> /\ s = SubSeq(s, 0 + 1, Len(s))
    BY <1>7 DEF Strs
  <2>2. QED
    BY <1>1, <1>2, <1>3, <1>4, <1>5, <2>1, Zenon DEF Sending
<1>8. QED
  BY <1>1, <1>6, <1>7 DEF p, r

(* A byte is written, or the time is over. *)
LEMMA Sent ==
    ASSUME NEW q \in Calls, NEW carried \in Strs, NEW rest, Sending(q, carried, rest)
    PROVE  /\ rest \in Strs /\ rest # <<>> /\ Head(rest) \in Nat
           /\ Len(rest) > 1 => Sending(q, carried \o <<Head(rest)>>, Tail(rest))
           /\ Len(rest) = 1 =>
                 Told([q EXCEPT ![Len(q)].result = 0], carried \o <<Head(rest)>>)
           /\ Told([q EXCEPT ![Len(q)].result = -1], carried)
           /\ \A result \in {0, -1} : [q EXCEPT ![Len(q)].result = result] \in Calls
<1>. DEFINE n == Len(q) - 1
            S == q[Len(q)].str
            after(result) == [q EXCEPT ![Len(q)].result = result]
<1>1. /\ Len(q) = n + 1 /\ n \in Nat /\ Len(q) \in 1 .. Len(q)
      /\ q \in [1 .. Len(q) -> Call] /\ q[Len(q)] \in Call
  BY DEF Calls, Sending
<1>2. S \in Strs /\ q[Len(q)].result = 0
  BY <1>1 DEF Call, Sending
<1>3. PICK front \in Lists, j \in 0 .. Len(S) - 1 :
         /\ Fits(front, q, n) /\ carried = FlattenSeq(front) \o SubSeq(S, 1, j)
         /\ rest = SubSeq(S, j + 1, Len(S))
  BY Zenon DEF Sending
<1>4. ASSUME NEW result \in {0, -1}
      PROVE  /\ after(result) \in Calls /\ Len(after(result)) = n + 1
             /\ after(result)[n + 1].str = S /\ after(result)[n + 1].result = result
             /\ Fits(front, after(result), n)
  <2>. DEFINE c == [q[Len(q)] EXCEPT !.result = result]
              p == [q EXCEPT ![Len(q)] = c]
  <2>1. c \in Call /\ c.str = S /\ c.result = result
    BY <1>1 DEF Call
  <2>2. after(result) = p
    OBVIOUS
  <2>. HIDE DEF c, after, S
  <2>3. /\ p \in Calls /\ Len(p) = n + 1 /\ p[n + 1] = c
        /\ \A i \in 1 .. n : p[i] = q[i]
    BY <1>1, <2>1 DEF Calls
  <2>. HIDE DEF p
  <2>4. Fits(front, p, n)
    BY <1>3, <2>3, FitsToo
  <2>5. QED
    BY <2>1, <2>2, <2>3, <2>4
<1>. HIDE DEF n, S, after
<1>5. /\ FlattenSeq(front) \in Strs /\ Len(S) \in Nat
      /\ SubSeq(S, 1, j) \in Strs /\ rest \in Strs /\ Len(rest) = Len(S) - j
      /\ Head(rest) = S[j + 1] /\ S[j + 1] \in Nat
      /\ Tail(rest) = SubSeq(S, (j + 1) + 1, Len(S))
      /\ SubSeq(S, 1, j) \o <<S[j + 1]>> = SubSeq(S, 1, j + 1)
      /\ SubSeq(S, 1, Len(S)) = S
  <2>1. FlattenSeq(front) \in Strs
    BY <1>2, FlattenAppend
  <2>2. Len(S) \in Nat
    BY <1>2 DEF Strs
  <2>3. QED
    BY <1>2, <1>3, <2>1, <2>2, Parts
<1>6. carried \o <<Head(rest)>> = FlattenSeq(front) \o SubSeq(S, 1, j + 1)
  <2>. DEFINE a == FlattenSeq(front)
              b == SubSeq(S, 1, j)
              c == <<S[j + 1]>>
  <2>1. a \in Strs /\ b \in Strs /\ c \in Strs
    BY <1>5 DEF Strs
  <2>. HIDE DEF a, b, c
  <2>2. (a \o b) \o c = a \o (b \o c)
    BY <2>1, Associative
  <2>3. QED
    BY <1>3, <1>5, <2>2, Zenon DEF a, b, c
<1>7. ASSUME Len(rest) > 1 PROVE Sending(q, carried \o <<Head(rest)>>, Tail(rest))
  <2>1. j + 1 \in 0 .. Len(S) - 1
    BY <1>5, <1>7
  <2>2. q # <<>> /\ q[Len(q)].result = 0
    BY DEF Sending
  <2>3. Tail(rest) = SubSeq(S, (j + 1) + 1, Len(S))
    BY <1>5
  <2>4. QED
    BY <1>3, <1>6, <2>1, <2>2, <2>3, Zenon DEF Sending, S, n
<1>8. Told(after(-1), carried)
  <2>. DEFINE p == after(-1)
              b == SubSeq(S, 1, j)
  <2>1. /\ p \in Calls /\ Len(p) = n + 1 /\ p[n + 1].str = S /\ p[n + 1].result = -1
        /\ Fits(front, p, n)
    BY <1>4
  <2>2. b \in Strs /\ \E k \in 0 .. Len(p[n + 1].str) - 1 : b = SubSeq(p[n + 1].str, 1, k)
    BY <1>5, <2>1
  <2>. HIDE DEF p, b
  <2>3. Told(p, FlattenSeq(front) \o b)
    BY <1>1, <2>1, <2>2, OnePieceMore
  <2>4. QED
    BY <1>3, <2>3 DEF p, b
<1>9. ASSUME Len(rest) = 1 PROVE Told(after(0), carried \o <<Head(rest)>>)
  <2>. DEFINE p == after(0)
  <2>1. /\ p \in Calls /\ Len(p) = n + 1 /\ p[n + 1].str = S /\ p[n + 1].result = 0
        /\ Fits(front, p, n)
    BY <1>4
  <2>. HIDE DEF p
  <2>2. Told(p, FlattenSeq(front) \o S)
    BY <1>1, <1>2, <2>1, OnePieceMore
  <2>3. Len(S) - j = 1
    BY <1>5, <1>9, Zenon
  <2>4. j + 1 = Len(S)
    BY <1>5, <2>3
  <2>5. QED
    BY <1>5, <1>6, <2>2, <2>4, Zenon DEF p
<1>10. rest # <<>>
  BY <1>5
<1>11. QED
  BY <1>4, <1>5, <1>7, <1>8, <1>9, <1>10, Zenon DEF after

LEMMA SerialInitInv ==
    ASSUME SerialInit
    PROVE  SerialInv
<1>1. PICK firmware \in Firmware : uart = serial_init(firmware)
  BY DEF SerialInit
<1>2. firmware \in Uarts
  <2>1. \A b \in Bytes : b \in Nat
    BY SerialAssumption
  <2>2. \A b \in Bytes : <<b>> \in Strs
    BY <2>1 DEF Strs
  <2>3. <<>> \in Strs /\ <<0, 0>> \in [1 .. 2 -> Nat]
    BY DEF Strs
  <2>4. PICK l \in {3, 131}, t \in {<<>>} \cup {<<b>> : b \in Bytes},
             r \in {<<>>} \cup {<<b>> : b \in Bytes} :
           firmware = [lcr |-> l, divisor |-> <<0, 0>>, ier |-> 0, mcr |-> 0,
                       tx |-> t, rx |-> r]
    BY DEF Firmware
  <2>5. t \in Strs /\ r \in Strs
    BY <2>2, <2>3
  <2>6. QED
    BY <2>3, <2>4, <2>5 DEF Uarts
<1>3. uart \in Uarts /\ uart.lcr = 3 /\ uart.tx = <<>>
  BY <1>1, <1>2, Initialized
<1>4. wire = <<>> /\ serial_pc = "idle" /\ calls = <<>> /\ wire \in Strs /\ calls \in Calls
      /\ timeout \in Nat
  BY DEF SerialInit, Strs, Calls
<1>5. /\ <<>> \in Lists /\ <<>> \in Strs /\ FlattenSeq(<<>>) = <<>>
      /\ <<>> \o <<>> = <<>> /\ Len(<<>>) = 0
  <2>1. <<>> \in Lists /\ <<>> \in Strs /\ Len(<<>>) = 0
    BY DEF Lists, Strs
  <2>2. QED
    BY <2>1, FlattenAppend, ConcatEmptySeq DEF Strs
<1>6. Fits(<<>>, <<>>, Len(<<>>))
  BY <1>5 DEF Fits
<1>7. Told(calls, wire \o uart.tx)
  BY <1>3, <1>4, <1>5, <1>6, Zenon DEF Told
<1>8. QED
  BY <1>3, <1>4, <1>7 DEF SerialInv, SerialTypes

LEMMA SerialSend ==
    ASSUME SerialInv, NEW s \in Strings, serial_send_str(s)
    PROVE  SerialInv'
<1>. DEFINE p == Append(calls, [str |-> s, result |-> 0])
            carried == wire \o uart.tx
<1>1. /\ uart \in Uarts /\ uart.lcr = 3 /\ wire \in Strs /\ calls \in Calls
      /\ uart.tx \in Strs /\ timeout \in Nat
  BY DEF SerialInv, SerialTypes, Uarts
<1>2. /\ uart' = uart /\ wire' = wire /\ calls' = p /\ str' = s /\ timeout' = 0
      /\ serial_pc' = IF s = <<>> THEN "idle" ELSE "poll"
  BY DEF serial_send_str
<1>3. s \in Strs
  <2>1. s \in Seq(Bytes) /\ Bytes \subseteq Nat
    BY SerialAssumption
  <2>2. QED
    BY <2>1, Numbers
<1>4. Told(calls, carried)
  BY DEF SerialInv, serial_send_str
<1>5. carried \in Strs
  BY <1>1, Joined
<1>. HIDE DEF carried
<1>6. /\ p \in Calls
      /\ s = <<>> => Told(p, carried)
      /\ s # <<>> => Sending(p, carried, s)
  BY <1>1, <1>3, <1>4, <1>5, Called, Zenon
<1>. HIDE DEF p
<1>7. SerialTypes'
  BY <1>1, <1>2, <1>6 DEF SerialTypes
<1>8. CASE s = <<>>
  <2>1. serial_pc' = "idle" /\ Told(calls', (wire \o uart.tx)')
    BY <1>2, <1>6, <1>8 DEF carried
  <2>2. QED
    BY <1>7, <2>1 DEF SerialInv
<1>9. CASE s # <<>>
  <2>1. serial_pc' = "poll" /\ Sending(calls', (wire \o uart.tx)', str')
    BY <1>2, <1>6, <1>9 DEF carried
  <2>2. QED
    BY <1>7, <2>1 DEF SerialInv
<1>10. QED
  BY <1>8, <1>9

LEMMA SerialPoll ==
    ASSUME SerialInv, poll
    PROVE  SerialInv'
<1>. DEFINE carried == wire \o uart.tx
            failed == [calls EXCEPT ![Len(calls)].result = -1]
<1>1. /\ uart \in Uarts /\ uart.lcr = 3 /\ wire \in Strs /\ calls \in Calls
      /\ uart.tx \in Strs /\ timeout \in Nat
  BY DEF SerialInv, SerialTypes, Uarts
<1>2. uart' = uart /\ wire' = wire /\ timeout' = timeout + 1 /\ timeout' \in Nat
  BY <1>1 DEF poll, Count
<1>3. Sending(calls, carried, str)
  BY DEF SerialInv, poll
<1>4. carried \in Strs
  BY <1>1, Joined
<1>. HIDE DEF carried
<1>5. Told(failed, carried) /\ failed \in Calls
  BY <1>1, <1>3, <1>4, Sent
<1>. HIDE DEF failed
<1>6. CASE serial_pc' = serial_pc /\ str' = str /\ calls' = calls
  <2>1. serial_pc' = "poll" /\ Sending(calls', (wire \o uart.tx)', str')
    BY <1>2, <1>3, <1>6 DEF carried, poll
  <2>2. SerialTypes'
    BY <1>1, <1>2, <1>6, <2>1 DEF SerialTypes
  <2>3. QED
    BY <2>1, <2>2 DEF SerialInv
<1>7. CASE serial_pc' = "idle" /\ calls' = failed
  <2>1. serial_pc' = "idle" /\ Told(calls', (wire \o uart.tx)')
    BY <1>2, <1>5, <1>7 DEF carried
  <2>2. SerialTypes'
    BY <1>1, <1>2, <1>5, <1>7 DEF SerialTypes
  <2>3. QED
    BY <2>1, <2>2 DEF SerialInv
<1>8. CASE serial_pc' = "write" /\ str' = str /\ calls' = calls /\ uart.tx = <<>>
  <2>1. serial_pc' = "write" /\ Sending(calls', (wire \o uart.tx)', str') /\ (uart.tx)' = <<>>
    BY <1>2, <1>3, <1>8 DEF carried
  <2>2. SerialTypes'
    BY <1>1, <1>2, <1>8 DEF SerialTypes
  <2>3. QED
    BY <2>1, <2>2 DEF SerialInv
<1>9. QED
  <2>1. \/ PollAgain(timeout') /\ UNCHANGED <<serial_pc, str, calls>>
        \/ Return(-1)
        \/ /\ ~PollAgain(timeout') /\ ~TimedOut(timeout')
           /\ serial_pc' = "write" /\ UNCHANGED <<str, calls>>
    BY Zenon DEF poll
  <2>2. ASSUME Return(-1) PROVE serial_pc' = "idle" /\ calls' = failed
    BY <2>2 DEF Return, failed
  <2>3. ASSUME ~PollAgain(timeout'), ~TimedOut(timeout') PROVE uart.tx = <<>>
    BY <1>2, <2>3, SerialAssumption DEF PollAgain, TimedOut, LSR_THRE
  <2>4. QED
    BY <1>6, <1>7, <1>8, <2>1, <2>2, <2>3, Zenon

LEMMA SerialWrite ==
    ASSUME SerialInv, write
    PROVE  SerialInv'
<1>. DEFINE carried == wire \o uart.tx
            b == Head(str)
            done == [calls EXCEPT ![Len(calls)].result = 0]
<1>1. /\ uart \in Uarts /\ uart.lcr = 3 /\ wire \in Strs /\ calls \in Calls
      /\ uart.tx = <<>> /\ timeout \in Nat /\ <<>> \in Strs
  BY DEF SerialInv, SerialTypes, write, Strs
<1>2. /\ uart' = out(uart, UART_DATA, b) /\ wire' = wire
      /\ \/ /\ Len(str) > 1 /\ str' = Tail(str) /\ timeout' = 0
            /\ serial_pc' = "poll" /\ calls' = calls
         \/ ~(Len(str) > 1) /\ serial_pc' = "idle" /\ calls' = done /\ timeout' = timeout
  BY DEF write, Return
<1>3. Sending(calls, carried, str)
  BY DEF SerialInv, write
<1>4. carried \in Strs /\ carried = wire
  <2>1. wire \o <<>> = wire
    BY <1>1, ConcatEmptySeq DEF Strs
  <2>2. QED
    BY <1>1, <2>1
<1>. HIDE DEF carried
<1>5. /\ str \in Strs /\ str # <<>> /\ b \in Nat /\ done \in Calls
      /\ Len(str) > 1 => Sending(calls, carried \o <<b>>, Tail(str))
      /\ Len(str) = 1 => Told(done, carried \o <<b>>)
  BY <1>1, <1>3, <1>4, Sent
<1>. HIDE DEF done, b
<1>6. uart' \in Uarts /\ uart'.lcr = 3 /\ uart'.tx = <<b>>
  <2>1. ~DLAB(uart)
    BY <1>1 DEF DLAB, Has
  <2>2. Put(<<>>, b) = <<b>>
    <3>1. Len(<<>>) = 0 /\ 0 < FIFO /\ Append(<<>>, b) = <<b>>
      BY SerialAssumption, <1>5
    <3>2. QED
      BY <3>1 DEF Put
  <2>3. QED
    <3>1. /\ out(uart, UART_DATA, b) \in Uarts /\ out(uart, UART_DATA, b).lcr = uart.lcr
          /\ ~DLAB(uart) => out(uart, UART_DATA, b).tx = Put(uart.tx, b)
      BY <1>1, <1>5, Out
    <3>2. QED
      BY <1>1, <1>2, <2>1, <2>2, <3>1, Zenon
<1>7. (wire \o uart.tx)' = carried \o <<b>>
  BY <1>2, <1>4, <1>6
<1>8. CASE Len(str) > 1
  <2>1. /\ serial_pc' = "poll" /\ timeout' = 0 /\ calls' = calls
        /\ Sending(calls', (wire \o uart.tx)', str')
    BY <1>2, <1>5, <1>7, <1>8, Zenon
  <2>2. SerialTypes'
    BY <1>1, <1>2, <1>6, <2>1 DEF SerialTypes
  <2>3. QED
    BY <2>1, <2>2 DEF SerialInv
<1>9. CASE ~(Len(str) > 1)
  <2>0. Len(str) = 1
    BY <1>5, <1>9 DEF Strs
  <2>1. /\ serial_pc' = "idle" /\ timeout' = timeout /\ calls' = done
        /\ Told(calls', (wire \o uart.tx)')
    BY <1>2, <1>5, <1>7, <1>9, <2>0, Zenon
  <2>2. SerialTypes'
    BY <1>1, <1>2, <1>5, <1>6, <2>1 DEF SerialTypes
  <2>3. QED
    BY <2>1, <2>2 DEF SerialInv
<1>10. QED
  BY <1>8, <1>9

(* The steps that leave the calls and what was carried alone. *)
LEMMA SerialRest ==
    ASSUME SerialInv, SerialTypes', (wire \o uart.tx)' = wire \o uart.tx,
           calls' = calls,
           \/ serial_pc' = serial_pc /\ str' = str /\ (uart.tx = <<>> => uart'.tx = <<>>)
           \/ serial_pc \in {"idle", "wait", "read"} /\ serial_pc' \in {"idle", "wait", "read"}
    PROVE  SerialInv'
<1>1. Told(calls, wire \o uart.tx) => Told(calls', (wire \o uart.tx)')
  BY Zenon
<1>2. CASE serial_pc' = serial_pc /\ str' = str /\ (uart.tx = <<>> => uart'.tx = <<>>)
  BY <1>1, <1>2 DEF SerialInv
<1>3. CASE serial_pc \in {"idle", "wait", "read"} /\ serial_pc' \in {"idle", "wait", "read"}
  BY <1>1, <1>3 DEF SerialInv
<1>4. QED
  BY <1>2, <1>3

LEMMA SerialTransmit ==
    ASSUME SerialInv, transmit
    PROVE  SerialInv'
<1>1. PICK l \in Nat, d \in [1 .. 2 -> Nat], i \in Nat, m \in Nat, t \in Strs, r \in Strs :
         uart = [lcr |-> l, divisor |-> d, ier |-> i, mcr |-> m, tx |-> t, rx |-> r]
  BY DEF SerialInv, SerialTypes, Uarts
<1>2. /\ t # <<>> /\ wire' = Append(wire, Head(t)) /\ wire \in Strs
      /\ uart' = [lcr |-> l, divisor |-> d, ier |-> i, mcr |-> m, tx |-> Tail(t), rx |-> r]
      /\ serial_pc' = serial_pc /\ str' = str /\ calls' = calls /\ timeout' = timeout
  BY <1>1 DEF transmit, SerialInv, SerialTypes
<1>3. /\ Tail(t) \in Strs /\ wire' \in Strs
      /\ Append(wire, Head(t)) \o Tail(t) = wire \o t
  <2>. DEFINE h == <<Head(t)>>
  <2>1. /\ Tail(t) \in Strs /\ Head(t) \in Nat /\ h \in Strs /\ h \o Tail(t) = t
        /\ Append(wire, Head(t)) = wire \o h /\ Append(wire, Head(t)) \in Strs
    BY <1>2 DEF Strs
  <2>. HIDE DEF h
  <2>2. (wire \o h) \o Tail(t) = wire \o (h \o Tail(t))
    BY <1>2, <2>1, Associative
  <2>3. QED
    BY <1>2, <2>1, <2>2
<1>4. SerialTypes'
  BY <1>1, <1>2, <1>3 DEF SerialInv, SerialTypes, Uarts
<1>5. (wire \o uart.tx)' = wire \o uart.tx /\ uart.tx # <<>>
  BY <1>1, <1>2, <1>3
<1>6. QED
  BY <1>2, <1>4, <1>5, SerialRest

LEMMA SerialReceive ==
    ASSUME SerialInv, NEW b \in Bytes, receive(b)
    PROVE  SerialInv'
<1>1. PICK l \in Nat, d \in [1 .. 2 -> Nat], i \in Nat, m \in Nat, t \in Strs, r \in Strs :
         uart = [lcr |-> l, divisor |-> d, ier |-> i, mcr |-> m, tx |-> t, rx |-> r]
  BY DEF SerialInv, SerialTypes, Uarts
<1>2. Put(r, b) \in Strs /\ (r # <<>> => Put(r, b) # <<>>)
  <2>1. b \in Nat
    BY SerialAssumption
  <2>2. QED
    <3>1. Append(r, b) \in Strs /\ Append(r, b) # <<>>
      BY <2>1, Longer
    <3>2. Put(r, b) = r \/ Put(r, b) = Append(r, b)
      BY DEF Put
    <3>3. QED
      BY <3>1, <3>2, Zenon
<1>3. /\ uart' = [lcr |-> l, divisor |-> d, ier |-> i, mcr |-> m, tx |-> t, rx |-> Put(r, b)]
      /\ serial_pc' = serial_pc /\ str' = str /\ calls' = calls
      /\ timeout' = timeout /\ wire' = wire
  BY <1>1 DEF receive
<1>4. SerialTypes'
  BY <1>1, <1>2, <1>3 DEF SerialInv, SerialTypes, Uarts
<1>5. uart'.tx = uart.tx
  BY <1>1, <1>3
<1>6. QED
  BY <1>3, <1>4, <1>5, SerialRest

LEMMA SerialRead ==
    ASSUME SerialInv, read
    PROVE  SerialInv'
<1>1. PICK l \in Nat, d \in [1 .. 2 -> Nat], i \in Nat, m \in Nat, t \in Strs, r \in Strs :
         uart = [lcr |-> l, divisor |-> d, ier |-> i, mcr |-> m, tx |-> t, rx |-> r]
  BY DEF SerialInv, SerialTypes, Uarts
<1>2. Tail(r) \in Strs
  <2>1. r # <<>>
    BY <1>1 DEF SerialInv, SerialTypes, read
  <2>2. QED
    BY <2>1 DEF Strs
<1>3. /\ uart' = [lcr |-> l, divisor |-> d, ier |-> i, mcr |-> m, tx |-> t, rx |-> Tail(r)]
      /\ serial_pc = "read" /\ serial_pc' = "idle" /\ calls' = calls
      /\ timeout' = timeout /\ wire' = wire
  BY <1>1 DEF read
<1>4. SerialTypes'
  BY <1>1, <1>2, <1>3 DEF SerialInv, SerialTypes, Uarts
<1>5. uart'.tx = uart.tx
  BY <1>1, <1>3
<1>6. QED
  BY <1>3, <1>4, <1>5, SerialRest

LEMMA SerialNextInv ==
    ASSUME SerialInv, [SerialNext]_serial_vars
    PROVE  SerialInv'
<1>1. ASSUME NEW s \in Strings, serial_send_str(s) PROVE SerialInv'
  BY <1>1, SerialSend
<1>2. ASSUME poll PROVE SerialInv'
  BY <1>2, SerialPoll
<1>3. ASSUME write PROVE SerialInv'
  BY <1>3, SerialWrite
<1>4. ASSUME serial_data_available \/ serial_recv_byte \/ wait PROVE SerialInv'
  <2>1. /\ uart' = uart /\ wire' = wire /\ calls' = calls /\ timeout' = timeout
        /\ serial_pc \in {"idle", "wait"} /\ serial_pc' \in {"idle", "wait", "read"}
        /\ serial_pc' = "read" => uart.rx # <<>>
    BY <1>4 DEF serial_data_available, serial_recv_byte, wait, LSR_DR
  <2>2. SerialTypes'
    BY <2>1 DEF SerialInv, SerialTypes
  <2>3. QED
    BY <2>1, <2>2, SerialRest
<1>5. ASSUME read PROVE SerialInv'
  BY <1>5, SerialRead
<1>6. ASSUME transmit PROVE SerialInv'
  BY <1>6, SerialTransmit
<1>7. ASSUME NEW b \in Bytes, receive(b) PROVE SerialInv'
  BY <1>7, SerialReceive
<1>8. ASSUME UNCHANGED serial_vars PROVE SerialInv'
  <2>1. /\ uart' = uart /\ wire' = wire /\ calls' = calls /\ timeout' = timeout
        /\ serial_pc' = serial_pc /\ str' = str
    BY <1>8 DEF serial_vars
  <2>2. SerialTypes'
    BY <2>1 DEF SerialInv, SerialTypes
  <2>3. QED
    BY <2>1, <2>2, SerialRest
<1>9. QED
  BY <1>1, <1>2, <1>3, <1>4, <1>5, <1>6, <1>7, <1>8 DEF SerialNext

LEMMA TruthTold ==
    ASSUME SerialInv
    PROVE  ResultsMatchWire
<1>. DEFINE Failed == {i \in DOMAIN calls : calls[i].result = -1}
            Lens == UNION {0 .. Len(calls[i].str) - 1 : i \in Failed}
            Carried(k) == [i \in DOMAIN calls |->
                IF i \in Failed THEN SubSeq(calls[i].str, 1, k[i]) ELSE calls[i].str]
<1>1. SUFFICES ASSUME serial_pc \in {"idle", "wait", "read"}
               PROVE  \E k \in [Failed -> Lens] :
                         /\ \A i \in Failed : k[i] < Len(calls[i].str)
                         /\ wire \o uart.tx = FlattenSeq(Carried(k))
  BY DEF ResultsMatchWire
<1>2. PICK front \in Lists : /\ Fits(front, calls, Len(calls))
                             /\ wire \o uart.tx = FlattenSeq(front)
  BY <1>1 DEF SerialInv, Told
<1>. DEFINE k == [i \in Failed |->
                CHOOSE j \in 0 .. Len(calls[i].str) - 1 : front[i] = SubSeq(calls[i].str, 1, j)]
<1>3. /\ calls \in Calls /\ DOMAIN calls = 1 .. Len(calls) /\ Len(calls) \in Nat
      /\ \A i \in DOMAIN calls : Len(calls[i].str) \in Nat
  <2>1. calls \in Calls
    BY DEF SerialInv, SerialTypes
  <2>2. QED
    BY <2>1 DEF Calls, Call, Strs
<1>4. ASSUME NEW i \in Failed
      PROVE  /\ k[i] \in 0 .. Len(calls[i].str) - 1
             /\ front[i] = SubSeq(calls[i].str, 1, k[i])
  <2>1. \E j \in 0 .. Len(calls[i].str) - 1 : front[i] = SubSeq(calls[i].str, 1, j)
    <3>1. i \in 1 .. Len(calls) /\ calls[i].result = -1 /\ ~(calls[i].result = 0)
      BY <1>3
    <3>2. QED
      BY <1>2, <3>1, Zenon DEF Fits
  <2>2. QED
    BY <2>1
<1>5. k \in [Failed -> Lens]
  BY <1>4
<1>. HIDE DEF k
<1>6. \A i \in Failed : k[i] < Len(calls[i].str)
  BY <1>3, <1>4
<1>7. Carried(k) = front
  <2>1. front \in [1 .. Len(calls) -> Strs]
    BY <1>2, <1>3 DEF Fits, Lists
  <2>2. ASSUME NEW i \in 1 .. Len(calls), i \notin Failed PROVE front[i] = calls[i].str
    BY <1>2, <1>3, <2>2 DEF Fits
  <2>. HIDE DEF Failed
  <2>3. QED
    BY <1>3, <1>4, <2>1, <2>2
<1>8. QED
  BY <1>2, <1>5, <1>6, <1>7, Zenon

(* Whatever the line did, and after any number of timeouts and retries,    *)
(* the wire carries every string that serial_send_str reported as sent,    *)
(* whole and once, and of one that timed out less than the whole; for any  *)
(* TIMEOUT from two on, FIFO and strings.                                  *)
THEOREM SerialTruth == SerialSpec => []ResultsMatchWire
<1>1. SerialInit => SerialInv
  BY SerialInitInv
<1>2. SerialInv /\ [SerialNext]_serial_vars => SerialInv'
  BY SerialNextInv
<1>3. SerialInv => ResultsMatchWire
  BY TruthTold
<1>4. QED
  BY <1>1, <1>2, <1>3, PTL DEF SerialSpec
=============================================================================
