------------------------------ MODULE Keyboard ------------------------------
(***************************************************************************)
(* The PS/2 keyboard driver, src/kernel/drivers/kbd.c: an interrupt        *)
(* handler that translates scan codes into a ring buffer, and kbd_getchar, *)
(* which the shell polls to empty it.                                      *)
(*                                                                         *)
(* IRQ handlers run behind interrupt gates, so the handler is one step.    *)
(* kbd_getchar runs with interrupts enabled and takes no lock: an          *)
(* interrupt may come between its test of head and tail, its read of the   *)
(* slot and its store of head, which are separate steps.  Characters are   *)
(* ASCII codes.                                                            *)
(*                                                                         *)
(* The keyboard itself sends a make code (again and again while the key is *)
(* held) and a break code, the make code with bit 7 set.  The keys added   *)
(* to the first PC keyboard send E0 before each code, and those of the     *)
(* arrow block send a shift code that nobody typed before and after their  *)
(* own, to look right to software that knows Num Lock; Pause sends a Ctrl  *)
(* of its own (E1 1D 45 E1 9D C5).  The handler does not know of prefixes: *)
(* it takes E0 and E1 for the release of keys 60 and 61, which do nothing, *)
(* and the byte that follows for an ordinary code.  A step here is an      *)
(* interrupt for a code together with the one for its prefix.              *)
(***************************************************************************)
EXTENDS Integers, Sequences

CONSTANTS KBD_BUFFER_SIZE,   \* slots of the ring, 256 in the code
          Keys,              \* the make codes of the keys being used
          ExtKeys            \* and of those that send a prefix

ASSUME KeyboardAssumption ==
    /\ KBD_BUFFER_SIZE \in Nat /\ KBD_BUFFER_SIZE >= 2
    /\ Keys \subseteq 0 .. 127
    /\ ExtKeys \subseteq 0 .. 127 /\ ExtKeys \cap {42, 54} = {}

VARIABLES buffer, head, tail,            \* kbd_state, the ring
          shift_pressed, ctrl_pressed,   \* kbd_state, the modifiers
          down,                          \* the modifier keys held down
          fake_shift,                    \* 1 after a shift nobody typed
          pending,                       \* the code the keyboard sends next
          pc,                            \* where kbd_getchar is
          ch                             \* its local, and its result

ring   == <<buffer, head, tail>>
mods   == <<shift_pressed, ctrl_pressed, down, fake_shift, pending>>
reader == <<pc, ch>>
vars   == <<ring, mods, reader>>

Slots == 0 .. KBD_BUFFER_SIZE - 1
SHIFT == {42, 54}       \* 0x2A and 0x36
CTRL  == 29             \* 0x1D
RCTRL == 256 + CTRL     \* the right Ctrl key, E0 1D on the wire
CTRLS == {CTRL, RCTRL}
MODIFIERS == SHIFT \cup CTRLS
PAUSE == 69             \* 0x45
NONE  == 256            \* no code
BREAK == 128            \* added to a make code when the key is released

scancode_table ==
    LET row0 == <<0, 27, 49, 50, 51, 52, 53, 54, 55, 56, 57, 48, 45, 61, 8, 9>>
        row1 == <<113, 119, 101, 114, 116, 121, 117, 105, 111, 112, 91, 93, 10, 0, 97, 115>>
        row2 == <<100, 102, 103, 104, 106, 107, 108, 59, 39, 96, 0, 92, 122, 120, 99, 118>>
        row3 == <<98, 110, 109, 44, 46, 47, 0, 42, 0, 32, 0, 0, 0, 0, 0, 0>>
        row4 == <<0, 0, 0, 0, 0, 0, 0, 55, 56, 57, 45, 52, 53, 54, 43, 49>>
        row5 == <<50, 51, 48, 46, 0, 0, 0, 0, 0, 0, 0, 0, 0, 0, 0, 0>>
        rows == row0 \o row1 \o row2 \o row3 \o row4 \o row5
    IN  [s \in 0 .. 127 |-> IF s < 96 THEN rows[s + 1] ELSE 0]

Chars == {scancode_table[k] : k \in Keys \cup ExtKeys} \ {0}
UpperCase(c) == IF c \in 97 .. 122 THEN c - 32 ELSE c
AllChars == Chars \cup {UpperCase(c) : c \in Chars}
-----------------------------------------------------------------------------
(* kbd_init *)
Init ==
    /\ buffer = [i \in Slots |-> 0] /\ head = 0 /\ tail = 0
    /\ shift_pressed = 0 /\ ctrl_pressed = 0
    /\ down = {} /\ fake_shift = 0 /\ pending = NONE
    /\ pc = "test" /\ ch = 0

(* The slot after slot i. *)
after(i) == (i + 1) % KBD_BUFFER_SIZE

(* The ring with a character in it, and the ring as it is. *)
RingWith(c) == [buffer |-> [buffer EXCEPT ![tail] = c], tail |-> after(tail)]
RingAsIs == [buffer |-> buffer, tail |-> tail]

(* Mutant: a full ring is not noticed. *)
enqueued_overrun(c) == RingWith(c)

(* Mutant: the ring keeps two slots empty. *)
enqueued_early(c) ==
    IF head \notin {after(tail), after(after(tail))} THEN RingWith(c) ELSE RingAsIs

(* "Add to buffer": one slot stays empty, and a full ring drops the key. *)
enqueued(c) == IF after(tail) # head THEN RingWith(c) ELSE RingAsIs

enqueue(c) ==
    /\ buffer' = enqueued(c).buffer
    /\ tail' = enqueued(c).tail
    /\ UNCHANGED head

kbd_handle_special_key(scancode) ==
    /\ shift_pressed' = IF scancode \in SHIFT THEN 1 ELSE shift_pressed
    /\ ctrl_pressed' = IF scancode = CTRL THEN 1 ELSE ctrl_pressed

(* Mutant: break codes are ignored. *)
release_keeps(scancode) ==
    UNCHANGED <<shift_pressed, ctrl_pressed>>

(* "Check for shift/ctrl release" *)
release(scancode) ==
    /\ shift_pressed' = IF scancode \in SHIFT THEN 0 ELSE shift_pressed
    /\ ctrl_pressed' = IF scancode = CTRL THEN 0 ELSE ctrl_pressed

translate(scancode) ==
    LET c == scancode_table[scancode]
    IN  IF c # 0
        THEN enqueue(IF shift_pressed' = 1 THEN UpperCase(c) ELSE c)
        ELSE UNCHANGED ring

kbd_interrupt_handler(scancode) ==
    \/ /\ scancode >= 128
       /\ release(scancode - 128)
       /\ UNCHANGED ring
    \/ /\ scancode < 128
       /\ kbd_handle_special_key(scancode)
       /\ translate(scancode)

(* The keyboard sends a code, and has another one to send after it.        *)
Send(first, second) ==
    /\ pending = NONE
    /\ kbd_interrupt_handler(first)
    /\ pending' = second
    /\ UNCHANGED reader

SendPending ==
    /\ pending # NONE
    /\ kbd_interrupt_handler(pending)
    /\ pending' = NONE
    /\ UNCHANGED <<down, fake_shift, reader>>

(* A key without prefix is pressed or repeats, and is released. *)
KeyDown(k) ==
    /\ Send(k, NONE)
    /\ down' = down \cup ({k} \cap MODIFIERS)
    /\ UNCHANGED fake_shift

KeyUp(k) ==
    /\ k \in MODIFIERS => k \in down
    /\ Send(k + BREAK, NONE)
    /\ down' = down \ {k}
    /\ UNCHANGED fake_shift

RightCtrl ==
    /\ \/ Send(CTRL, NONE) /\ down' = down \cup {RCTRL}
       \/ RCTRL \in down /\ Send(CTRL + BREAK, NONE) /\ down' = down \ {RCTRL}
    /\ UNCHANGED fake_shift

(* Pause is not told when it is released, and sends no Ctrl beside a real  *)
(* one.  The codes 45 and C5 in between do nothing.                        *)
Pause ==
    /\ down \cap CTRLS = {}
    /\ Send(CTRL, CTRL + BREAK)
    /\ UNCHANGED <<down, fake_shift>>

(* The other prefixed keys, alone or with the shift codes around them: one *)
(* that is sent is taken back when the key is released, and one that is    *)
(* held is taken back while the key is.                                    *)
ExtDown(k) ==
    /\ \/ Send(k, NONE) /\ UNCHANGED fake_shift
       \/ /\ fake_shift = 0 /\ down \cap SHIFT = {}
          /\ Send(42, k) /\ fake_shift' = 1
       \/ /\ fake_shift = 0
          /\ \E s \in down \cap SHIFT : Send(s + BREAK, k)
          /\ UNCHANGED fake_shift
    /\ UNCHANGED down

ExtUp(k) ==
    /\ \/ fake_shift = 1 /\ Send(k + BREAK, 42 + BREAK) /\ fake_shift' = 0
       \/ fake_shift = 0 /\ Send(k + BREAK, NONE) /\ UNCHANGED fake_shift
       \/ /\ fake_shift = 0
          /\ \E s \in down \cap SHIFT : Send(k + BREAK, s)
          /\ UNCHANGED fake_shift
    /\ UNCHANGED down
-----------------------------------------------------------------------------
(* kbd_getchar, "No character available": the reader's variable ch is 0. *)
getchar_test ==
    /\ pc = "test"
    /\ \/ /\ head = tail
          /\ ch' = 0 /\ pc' = "return"
       \/ /\ head # tail
          /\ pc' = "fetch" /\ UNCHANGED ch
    /\ UNCHANGED <<ring, mods>>

getchar_fetch ==
    /\ pc = "fetch"
    /\ ch' = buffer[head] /\ pc' = "advance"
    /\ UNCHANGED <<ring, mods>>

(* Mutant: the new head is never stored. *)
getchar_advance_stuck ==
    /\ pc = "advance"
    /\ pc' = "return"
    /\ UNCHANGED <<ring, ch, mods>>

(* Mutant: head is reset to tail, as a flush would do. *)
getchar_advance_flush ==
    /\ pc = "advance"
    /\ head' = tail /\ pc' = "return"
    /\ UNCHANGED <<buffer, tail, ch, mods>>

getchar_advance ==
    /\ pc = "advance"
    /\ head' = after(head) /\ pc' = "return"
    /\ UNCHANGED <<buffer, tail, ch, mods>>

kbd_char_available == head # tail

kbd_getchar == getchar_test \/ getchar_fetch \/ getchar_advance

(* The caller takes the result and calls again. *)
poll ==
    /\ pc = "return"
    /\ pc' = "test"
    /\ UNCHANGED <<ring, mods, ch>>

Interrupts ==
    \/ SendPending
    \/ \E k \in Keys : KeyDown(k) \/ KeyUp(k)
    \/ CTRL \in ExtKeys /\ RightCtrl
    \/ PAUSE \in ExtKeys /\ Pause
    \/ \E k \in ExtKeys \ {CTRL, PAUSE} : ExtDown(k) \/ ExtUp(k)

Next == Interrupts \/ kbd_getchar \/ poll

(* The shell polls in an endless loop and interrupt handlers return, so    *)
(* the reader always takes its next step.                                  *)
Spec == Init /\ [][Next]_vars /\ WF_vars(kbd_getchar \/ poll)
-----------------------------------------------------------------------------
TypeOK ==
    /\ buffer \in [Slots -> AllChars \cup {0}]
    /\ head \in Slots /\ tail \in Slots
    /\ shift_pressed \in {0, 1} /\ ctrl_pressed \in {0, 1}
    /\ down \in SUBSET MODIFIERS /\ fake_shift \in {0, 1}
    /\ pending \in ExtKeys \cup SHIFT \cup {42 + BREAK, CTRL + BREAK, NONE}
    /\ pc \in {"test", "fetch", "advance", "return"}
    /\ ch \in AllChars \cup {0}

(* The characters between head and tail. *)
UnreadLen == (tail - head) % KBD_BUFFER_SIZE
Unread == [i \in 1 .. UnreadLen |-> buffer[(head + i - 1) % KBD_BUFFER_SIZE]]

(* No interrupt that comes after the test of head and tail makes the test  *)
(* stale: there still is a character to fetch, and the one fetched is      *)
(* still the first one when head is stored.                                *)
TestNotStale ==
    /\ TypeOK
    /\ pc \in {"fetch", "advance"} => kbd_char_available
    /\ pc = "advance" => ch = buffer[head]

(* No modifier stays stuck: ctrl_pressed is set only while one of the two  *)
(* Ctrl keys is down or the Ctrl that Pause sends is about to be taken     *)
(* back, and shift_pressed only while a shift key is down or a shift that  *)
(* the keyboard made up has not been taken back, whatever the order of     *)
(* makes, repeats and breaks.  The converse fails: one flag stands for two *)
(* keys, and a made-up release clears the flag of a shift that is held.    *)
ModifiersNotStuck ==
    /\ ctrl_pressed = 1 => down \cap CTRLS # {} \/ pending = CTRL + BREAK
    /\ shift_pressed = 1 =>
          down \cap SHIFT # {} \/ fake_shift = 1 \/ pending = 42 + BREAK

(* Wherever head and tail are, the next character is queued behind the    *)
(* unread ones if they are fewer than KBD_BUFFER_SIZE - 1, and dropped     *)
(* otherwise.                                                              *)
DropsOnlyWhenFull ==
    \A c \in AllChars :
        IF UnreadLen < KBD_BUFFER_SIZE - 1
        THEN /\ (enqueued(c).tail - head) % KBD_BUFFER_SIZE = UnreadLen + 1
             /\ enqueued(c).buffer[(head + UnreadLen) % KBD_BUFFER_SIZE] = c
        ELSE enqueued(c) = RingAsIs

(* The ring and kbd_getchar are a queue of KBD_BUFFER_SIZE - 1 characters: *)
(* what is typed comes out once and in order, and 0 comes out only when    *)
(* nothing waits, with interrupts between any two steps of kbd_getchar.    *)
WaitingChars == IF pc = "advance" THEN Tail(Unread) ELSE Unread
Queue == INSTANCE KbdQueue
             WITH Chars <- AllChars, Capacity <- KBD_BUFFER_SIZE - 1,
                  queue <- WaitingChars, taken <- ch
QueueSpec == Queue!Spec

(* A character at the front of the buffer is read, however many keys are   *)
(* typed meanwhile.                                                        *)
EveryCharRead ==
    \A i \in Slots : (head = i /\ head # tail) ~> (head # i)
=============================================================================
