--------------------------- MODULE KeyboardProofs ---------------------------
(***************************************************************************)
(* Proofs about the keyboard driver, for a ring of any size and any set of *)
(* keys, with interrupts between any two steps of kbd_getchar.             *)
(***************************************************************************)
EXTENDS Keyboard, SequenceTheorems, TLAPS

N == KBD_BUFFER_SIZE

(* Remainders of the sums and differences of slots. *)
LEMMA ModN ==
    /\ N \in Nat /\ N >= 2 /\ Slots = 0 .. N - 1
    /\ \A x \in 0 .. N - 1 : x % N = x
    /\ \A x \in N .. 2 * N - 1 : x % N = x - N
    /\ \A x \in -N .. -1 : x % N = x + N
<1>1. N \in Nat /\ N >= 2 /\ Slots = 0 .. N - 1
  BY KeyboardAssumption DEF N, Slots
<1>2. ASSUME NEW x \in Int, x >= 0, x < N PROVE x % N = x
  BY <1>1, <1>2
<1>3. ASSUME NEW x \in Int, x >= N, x < 2 * N PROVE x % N = x - N
  BY <1>1, <1>3
<1>4. ASSUME NEW x \in Int, x >= -N, x < 0 PROVE x % N = x + N
  BY <1>1, <1>4
<1>5. QED
  BY <1>1, <1>2, <1>3, <1>4

(* The slot after a slot, and the number of unread characters, without     *)
(* remainders.                                                             *)
LEMMA After ==
    ASSUME NEW i \in Slots
    PROVE  after(i) \in Slots /\ after(i) = IF i = N - 1 THEN 0 ELSE i + 1
<1>1. CASE i = N - 1
  <2>1. (i + 1) % N = i + 1 - N
    BY <1>1, ModN
  <2>2. QED
    BY <1>1, <2>1, ModN DEF after, N
<1>2. CASE i # N - 1
  <2>1. (i + 1) % N = i + 1
    BY <1>2, ModN
  <2>2. QED
    BY <1>2, <2>1, ModN DEF after, N
<1>3. QED
  BY <1>1, <1>2

LEMMA UnreadCount ==
    ASSUME NEW h \in Slots, NEW t \in Slots
    PROVE  (t - h) % N = IF t >= h THEN t - h ELSE t - h + N
<1>1. CASE t >= h
  <2>1. t - h \in 0 .. N - 1
    BY <1>1, ModN
  <2>2. QED
    BY <1>1, <2>1, ModN
<1>2. CASE ~(t >= h)
  <2>1. t - h \in -N .. -1
    BY <1>2, ModN
  <2>2. QED
    BY <1>2, <2>1, ModN
<1>3. QED
  BY <1>1, <1>2

(* The slot of the i-th unread character. *)
LEMMA SlotOf ==
    ASSUME NEW h \in Slots, NEW i \in 1 .. N
    PROVE  /\ (h + i - 1) % N \in Slots
           /\ (h + i - 1) % N = IF h + i - 1 < N THEN h + i - 1 ELSE h + i - 1 - N
<1>1. CASE h + i - 1 < N
  <2>1. h + i - 1 \in 0 .. N - 1
    BY <1>1, ModN
  <2>2. (h + i - 1) % N = h + i - 1
    BY <2>1, ModN
  <2>3. QED
    BY <1>1, <2>1, <2>2, ModN
<1>2. CASE ~(h + i - 1 < N)
  <2>1. h + i - 1 \in N .. 2 * N - 1
    BY <1>2, ModN
  <2>2. (h + i - 1) % N = h + i - 1 - N
    BY <2>1, ModN
  <2>3. QED
    BY <1>2, <2>1, <2>2, ModN
<1>3. QED
  BY <1>1, <1>2
-----------------------------------------------------------------------------
(* The modifiers have no character. *)
LEMMA TableModifiers ==
    scancode_table[42] = 0 /\ scancode_table[54] = 0 /\ scancode_table[29] = 0
BY DEF scancode_table

(* What the table gives for a key that is in use is one of the characters. *)
LEMMA KeyChar ==
    ASSUME NEW k \in Keys \cup ExtKeys, scancode_table[k] # 0
    PROVE  /\ scancode_table[k] \in AllChars
           /\ UpperCase(scancode_table[k]) \in AllChars
BY DEF Chars, AllChars

(* The codes that the handler gets: the keys', pressed and released, and   *)
(* the shifts and Ctrls that the keyboard makes up.                        *)
Codes == Keys \cup ExtKeys \cup SHIFT \cup {CTRL}

(* The prefixes E0 and E1 change nothing (kbd.c:47 to 56 take them for     *)
(* break codes).                                                           *)
LEMMA PrefixHarmless ==
    ASSUME NEW b \in {224, 225}, kbd_interrupt_handler(b)
    PROVE  UNCHANGED <<ring, shift_pressed, ctrl_pressed>>
BY DEF kbd_interrupt_handler, release, SHIFT, CTRL

(* The handler for the code c pressed: it may queue one character of those *)
(* the keys can produce, and sets the flag of a modifier.                  *)
LEMMA HandlerMake ==
    ASSUME NEW k \in Codes, kbd_interrupt_handler(k)
    PROVE  /\ kbd_handle_special_key(k)
           /\ UNCHANGED ring \/ \E c \in AllChars : enqueue(c)
<1>1. k \in 0 .. 127 /\ ~(k >= 128)
  BY KeyboardAssumption DEF Codes, SHIFT, CTRL
<1>2. kbd_handle_special_key(k) /\ translate(k)
  BY <1>1 DEF kbd_interrupt_handler
<1>3. CASE scancode_table[k] = 0
  BY <1>2, <1>3 DEF translate
<1>4. CASE scancode_table[k] # 0
  <2>1. enqueue(UpperCase(scancode_table[k])) \/ enqueue(scancode_table[k])
    BY <1>2, <1>4 DEF translate
  <2>2. k \in Keys \cup ExtKeys
    <3>1. scancode_table[42] = 0 /\ scancode_table[54] = 0 /\ scancode_table[29] = 0
      BY TableModifiers
    <3>2. QED
      BY <1>4, <3>1 DEF Codes, SHIFT, CTRL
  <2>3. QED
    BY <1>2, <1>4, <2>1, <2>2, KeyChar
<1>5. QED
  BY <1>3, <1>4

(* ... and released: the ring stays, and the flag is cleared. *)
LEMMA HandlerBreak ==
    ASSUME NEW k \in Codes, kbd_interrupt_handler(k + BREAK)
    PROVE  release(k) /\ UNCHANGED ring
<1>1. k \in 0 .. 127 /\ k + 128 >= 128 /\ ~(k + 128 < 128) /\ (k + 128) - 128 = k
  BY KeyboardAssumption DEF Codes, SHIFT, CTRL
<1>2. QED
  BY <1>1 DEF kbd_interrupt_handler, BREAK

(* What is pending is one of the codes, pressed or released. *)
LEMMA PendingCode ==
    ASSUME pending \in ExtKeys \cup SHIFT \cup {42 + BREAK, CTRL + BREAK, NONE},
           pending # NONE
    PROVE  pending \in Codes \/ \E k \in {42, CTRL} : k \in Codes /\ pending = k + BREAK
BY DEF Codes, SHIFT

(* What an interrupt may do to the ring: nothing, or queue one character   *)
(* of those the keys can produce.                                          *)
LEMMA InterruptRing ==
    ASSUME Interrupts,
           pending \in ExtKeys \cup SHIFT \cup {42 + BREAK, CTRL + BREAK, NONE}
    PROVE  /\ UNCHANGED reader
           /\ \/ UNCHANGED ring
              \/ \E c \in AllChars : enqueue(c)
<1>1. ASSUME NEW k \in Codes, NEW q, Send(k, q) \/ Send(k + BREAK, q)
      PROVE  UNCHANGED reader /\ (UNCHANGED ring \/ \E c \in AllChars : enqueue(c))
  BY <1>1, HandlerMake, HandlerBreak DEF Send
<1>2. Keys \subseteq Codes /\ ExtKeys \subseteq Codes /\ SHIFT \subseteq Codes
      /\ CTRL \in Codes /\ 42 \in Codes
  BY DEF Codes, SHIFT
<1>3. CASE SendPending
  BY <1>3, PendingCode, HandlerMake, HandlerBreak DEF SendPending
<1>4. ASSUME NEW k \in Keys, KeyDown(k) \/ KeyUp(k)
      PROVE  UNCHANGED reader /\ (UNCHANGED ring \/ \E c \in AllChars : enqueue(c))
  BY <1>1, <1>2, <1>4 DEF KeyDown, KeyUp
<1>5. CASE RightCtrl \/ Pause
  BY <1>1, <1>2, <1>5 DEF RightCtrl, Pause
<1>6. ASSUME NEW k \in ExtKeys, ExtDown(k) \/ ExtUp(k)
      PROVE  UNCHANGED reader /\ (UNCHANGED ring \/ \E c \in AllChars : enqueue(c))
  BY <1>1, <1>2, <1>6 DEF ExtDown, ExtUp
<1>7. QED
  BY <1>3, <1>4, <1>5, <1>6 DEF Interrupts

(* A shift is made up only while none is out, and made up again only while *)
(* a shift key is held: with it, what the flags say is inductive.          *)
ModifiersInv ==
    /\ shift_pressed \in {0, 1} /\ ctrl_pressed \in {0, 1}
    /\ down \in SUBSET MODIFIERS /\ fake_shift \in {0, 1}
    /\ pending \in ExtKeys \cup SHIFT \cup {42 + BREAK, CTRL + BREAK, NONE}
    /\ pending \in SHIFT => down \cap SHIFT # {}
    /\ pending # CTRL
    /\ ModifiersNotStuck

(* The codes an interrupt may bring, and what it leaves of the modifiers.  *)
LEMMA InterruptMods ==
    ASSUME Interrupts, ModifiersInv
    PROVE  ModifiersInv'
<1>. USE DEF ModifiersInv, ModifiersNotStuck, MODIFIERS, CTRLS
<1>0. /\ Keys \subseteq Codes /\ ExtKeys \subseteq Codes /\ SHIFT \subseteq Codes
      /\ CTRL \in Codes /\ 42 \in Codes /\ 42 \in SHIFT /\ CTRL \notin SHIFT
      /\ RCTRL \notin SHIFT \cup {CTRL} /\ NONE \notin ExtKeys \cup SHIFT \cup {CTRL}
      /\ 42 + BREAK # CTRL + BREAK /\ 42 + BREAK # NONE /\ CTRL + BREAK # NONE
      /\ {42 + BREAK, CTRL + BREAK, NONE} \cap Codes = {}
      /\ ExtKeys \cap SHIFT = {} /\ RCTRL \notin Keys
  BY KeyboardAssumption DEF Codes, SHIFT, CTRL, RCTRL, NONE, BREAK
<1>1. ASSUME NEW k \in Codes, NEW q, Send(k, q)
      PROVE  /\ pending' = q
             /\ shift_pressed' = IF k \in SHIFT THEN 1 ELSE shift_pressed
             /\ ctrl_pressed' = IF k = CTRL THEN 1 ELSE ctrl_pressed
  BY <1>1, HandlerMake DEF Send, kbd_handle_special_key
<1>2. ASSUME NEW k \in Codes, NEW q, Send(k + BREAK, q)
      PROVE  /\ pending' = q
             /\ shift_pressed' = IF k \in SHIFT THEN 0 ELSE shift_pressed
             /\ ctrl_pressed' = IF k = CTRL THEN 0 ELSE ctrl_pressed
  BY <1>2, HandlerBreak DEF Send, release
<1>3. CASE SendPending
  <2>1. pending' = NONE /\ down' = down /\ fake_shift' = fake_shift
    BY <1>3 DEF SendPending
  <2>2. CASE pending \in Codes
    <3>1. kbd_handle_special_key(pending)
      BY <1>3, <2>2, HandlerMake DEF SendPending
    <3>2. QED
      BY <1>0, <2>1, <2>2, <3>1 DEF kbd_handle_special_key
  <2>3. ASSUME NEW k \in {42, CTRL}, pending = k + BREAK PROVE ModifiersInv'
    <3>1. release(k)
      BY <1>0, <1>3, <2>3, HandlerBreak DEF SendPending
    <3>2. QED
      BY <1>0, <2>1, <2>3, <3>1 DEF release
  <2>4. QED
    BY <1>3, <2>2, <2>3, PendingCode DEF SendPending
<1>4. ASSUME NEW k \in Keys, KeyDown(k) PROVE ModifiersInv'
  <2>1. pending = NONE /\ down' = down \cup ({k} \cap MODIFIERS) /\ fake_shift' = fake_shift
    BY <1>4 DEF KeyDown, Send
  <2>2. QED
    BY <1>0, <1>1, <1>4, <2>1 DEF KeyDown
<1>5. ASSUME NEW k \in Keys, KeyUp(k) PROVE ModifiersInv'
  <2>1. pending = NONE /\ down' = down \ {k} /\ fake_shift' = fake_shift
    BY <1>5 DEF KeyUp, Send
  <2>2. QED
    BY <1>0, <1>2, <1>5, <2>1 DEF KeyUp
<1>6. CASE RightCtrl
  <2>1. pending = NONE /\ fake_shift' = fake_shift
    BY <1>6 DEF RightCtrl, Send
  <2>2. QED
    BY <1>0, <1>1, <1>2, <1>6, <2>1 DEF RightCtrl
<1>7. CASE Pause
  <2>1. pending = NONE /\ down' = down /\ fake_shift' = fake_shift
    BY <1>7 DEF Pause, Send
  <2>2. QED
    BY <1>0, <1>1, <1>7, <2>1 DEF Pause
<1>8. ASSUME NEW k \in ExtKeys \ {CTRL, PAUSE}, ExtDown(k) PROVE ModifiersInv'
  <2>1. pending = NONE /\ down' = down
    BY <1>8 DEF ExtDown, Send
  <2>2. QED
    BY <1>0, <1>1, <1>2, <1>8, <2>1 DEF ExtDown
<1>9. ASSUME NEW k \in ExtKeys \ {CTRL, PAUSE}, ExtUp(k) PROVE ModifiersInv'
  <2>1. pending = NONE /\ down' = down
    BY <1>9 DEF ExtUp, Send
  <2>2. QED
    BY <1>0, <1>2, <1>9, <2>1 DEF ExtUp
<1>10. QED
  BY <1>3, <1>4, <1>5, <1>6, <1>7, <1>8, <1>9 DEF Interrupts
-----------------------------------------------------------------------------
(* TestNotStale contains the type invariant.  It is inductive because the  *)
(* handler moves tail only, never onto head, and writes no slot between    *)
(* head and tail.                                                          *)
Inv == TestNotStale /\ ModifiersInv

(* What adding a character to the ring does. *)
LEMMA Enqueue ==
    ASSUME NEW c \in AllChars, enqueue(c)
    PROVE  IF after(tail) # head
           THEN buffer' = [buffer EXCEPT ![tail] = c] /\ tail' = after(tail) /\ head' = head
           ELSE UNCHANGED ring
BY DEF enqueue, enqueued, RingWith, RingAsIs, ring

LEMMA InitInv == Init => Inv
BY ModN DEF Init, Inv, TestNotStale, TypeOK, ModifiersInv, ModifiersNotStuck, kbd_char_available, CTRL, SHIFT, NONE

LEMMA InterruptInv ==
    ASSUME Inv, Interrupts
    PROVE  Inv'
<1>. USE DEF Inv, TestNotStale, TypeOK, kbd_char_available
<1>1. ModifiersInv' /\ shift_pressed' \in {0, 1} /\ ctrl_pressed' \in {0, 1}
      /\ down' \in SUBSET MODIFIERS /\ fake_shift' \in {0, 1}
      /\ pending' \in ExtKeys \cup SHIFT \cup {42 + BREAK, CTRL + BREAK, NONE}
  BY InterruptMods DEF ModifiersInv
<1>2. UNCHANGED reader
  BY InterruptRing
<1>3. CASE UNCHANGED ring
  BY <1>1, <1>2, <1>3 DEF ring, reader
<1>4. ASSUME NEW c \in AllChars, enqueue(c) PROVE Inv'
  <2>1. CASE after(tail) = head
    BY <1>1, <1>2, <1>4, <2>1, Enqueue DEF ring, reader
  <2>2. CASE after(tail) # head
    <3>1. /\ buffer' = [buffer EXCEPT ![tail] = c] /\ head' = head
          /\ tail' = after(tail) /\ tail' \in Slots /\ tail' # head'
      BY <1>4, <2>2, After, Enqueue
    <3>2. buffer' \in [Slots -> AllChars \cup {0}]
      BY <3>1
    <3>3. pc \in {"fetch", "advance"} => buffer'[head'] = buffer[head]
      BY <3>1
    <3>4. QED
      BY <1>1, <1>2, <3>1, <3>2, <3>3 DEF reader
  <2>3. QED
    BY <2>1, <2>2
<1>5. QED
  BY <1>3, <1>4, InterruptRing

LEMMA ReaderInv ==
    ASSUME Inv, kbd_getchar \/ poll
    PROVE  Inv'
<1>. USE DEF Inv, TestNotStale, TypeOK, kbd_char_available, ring, mods, ModifiersInv, ModifiersNotStuck
<1>1. CASE getchar_test
  BY <1>1 DEF getchar_test
<1>2. CASE getchar_fetch
  BY <1>2 DEF getchar_fetch
<1>3. CASE getchar_advance
  BY <1>3, After DEF getchar_advance
<1>4. CASE poll
  BY <1>4 DEF poll
<1>5. QED
  BY <1>1, <1>2, <1>3, <1>4 DEF kbd_getchar

LEMMA NextInv == Inv /\ [Next]_vars => Inv'
<1>. SUFFICES ASSUME Inv, [Next]_vars PROVE Inv'
  OBVIOUS
<1>1. CASE Interrupts
  BY <1>1, InterruptInv
<1>2. CASE kbd_getchar \/ poll
  BY <1>2, ReaderInv
<1>3. CASE UNCHANGED vars
  BY <1>3 DEF vars, ring, mods, reader, Inv, TestNotStale, TypeOK, ModifiersInv,
              ModifiersNotStuck, kbd_char_available
<1>4. QED
  BY <1>1, <1>2, <1>3 DEF Next

LEMMA AlwaysInv == Spec => []Inv
BY InitInv, NextInv, PTL DEF Spec

(* No interrupt makes the test of kbd_getchar stale: between its steps the *)
(* character it goes for stays there (kbd.c:105 to 112 run with interrupts *)
(* enabled).                                                               *)
THEOREM KeyboardNotStale == Spec => []TestNotStale
<1>1. Inv => TestNotStale
  BY DEF Inv
<1>2. QED
  BY <1>1, AlwaysInv, PTL

(* No modifier stays set without a key of its own being held or a shift or *)
(* Ctrl that the keyboard made up being still out (kbd.c:47 to 56 and      *)
(* kbd_handle_special_key), for every order of codes of any keys, prefixed *)
(* ones included.                                                          *)
THEOREM KeyboardModifiers == Spec => []ModifiersNotStuck
<1>1. Inv => ModifiersNotStuck
  BY DEF Inv, ModifiersInv
<1>2. QED
  BY <1>1, AlwaysInv, PTL
-----------------------------------------------------------------------------
(* The characters between slot h and slot t of a ring b. *)
CountOf(h, t) == IF t >= h THEN t - h ELSE t - h + N
CharsOf(b, h, t) == [i \in 1 .. CountOf(h, t) |-> b[(h + i - 1) % N]]
Ring == [Slots -> AllChars \cup {0}]

LEMMA CharsSeq ==
    ASSUME NEW b \in Ring, NEW h \in Slots, NEW t \in Slots
    PROVE  /\ CountOf(h, t) \in 0 .. N - 1
           /\ CountOf(h, t) = 0 <=> h = t
           /\ \A i \in 1 .. CountOf(h, t) : (h + i - 1) % N \in Slots
           /\ CharsOf(b, h, t) \in Seq(AllChars \cup {0})
           /\ Len(CharsOf(b, h, t)) = CountOf(h, t)
           /\ \A i \in 1 .. CountOf(h, t) : CharsOf(b, h, t)[i] = b[(h + i - 1) % N]
<1>1. CountOf(h, t) \in 0 .. N - 1 /\ (CountOf(h, t) = 0 <=> h = t)
  BY ModN DEF CountOf
<1>2. \A i \in 1 .. CountOf(h, t) : i \in 1 .. N
  BY <1>1, ModN
<1>3. \A i \in 1 .. CountOf(h, t) : (h + i - 1) % N \in Slots
  BY <1>2, SlotOf
<1>4. \A i \in 1 .. CountOf(h, t) : b[(h + i - 1) % N] \in AllChars \cup {0}
  BY <1>3 DEF Ring
<1>5. CharsOf(b, h, t) \in Seq(AllChars \cup {0}) /\ Len(CharsOf(b, h, t)) = CountOf(h, t)
  BY <1>1, <1>4 DEF CharsOf
<1>6. QED
  BY <1>1, <1>3, <1>5 DEF CharsOf

(* Writing slot t and moving it on appends the character, if a slot stays  *)
(* empty.                                                                  *)
LEMMA CharsAppend ==
    ASSUME NEW b \in Ring, NEW h \in Slots, NEW t \in Slots, NEW c \in AllChars,
           after(t) # h
    PROVE  /\ CountOf(h, t) < N - 1
           /\ CountOf(h, after(t)) = CountOf(h, t) + 1
           /\ CharsOf([b EXCEPT ![t] = c], h, after(t)) = Append(CharsOf(b, h, t), c)
<1>. DEFINE S == AllChars \cup {0}
            d == [b EXCEPT ![t] = c]
            n == CountOf(h, t)
            old == CharsOf(b, h, t)
            new == CharsOf(d, h, after(t))
<1>1. n \in 0 .. N - 1 /\ N \in Nat /\ N >= 2 /\ h \in 0 .. N - 1 /\ t \in 0 .. N - 1
  BY CharsSeq, ModN
<1>2. after(t) \in Slots /\ after(t) = IF t = N - 1 THEN 0 ELSE t + 1
  BY After
<1>3. n < N - 1 /\ CountOf(h, after(t)) = n + 1
  BY <1>1, <1>2 DEF CountOf
<1>4. d \in Ring
  BY DEF Ring
<1>5. (h + (n + 1) - 1) % N = t
  <2>1. n + 1 \in 1 .. N
    BY <1>1
  <2>2. (h + (n + 1) - 1) % N = IF h + (n + 1) - 1 < N THEN h + (n + 1) - 1 ELSE h + (n + 1) - 1 - N
    BY <2>1, SlotOf
  <2>3. QED
    BY <1>1, <2>2 DEF CountOf
<1>6. ASSUME NEW i \in 1 .. n PROVE (h + i - 1) % N # t
  <2>1. i \in 1 .. N
    BY <1>1
  <2>2. (h + i - 1) % N = IF h + i - 1 < N THEN h + i - 1 ELSE h + i - 1 - N
    BY <2>1, SlotOf
  <2>3. QED
    BY <1>1, <2>2 DEF CountOf
<1>7. /\ old \in Seq(S) /\ Len(old) = n
      /\ \A i \in 1 .. n : (h + i - 1) % N \in Slots /\ old[i] = b[(h + i - 1) % N]
  BY CharsSeq
<1>8. /\ new \in Seq(S) /\ Len(new) = n + 1
      /\ \A i \in 1 .. n + 1 : new[i] = d[(h + i - 1) % N]
  <2>. HIDE DEF d
  <2>0. \A e \in Ring : \A u \in Slots :
           /\ CharsOf(e, h, u) \in Seq(S) /\ Len(CharsOf(e, h, u)) = CountOf(h, u)
           /\ \A i \in 1 .. CountOf(h, u) : CharsOf(e, h, u)[i] = e[(h + i - 1) % N]
    BY CharsSeq
  <2>1. /\ new \in Seq(S) /\ Len(new) = CountOf(h, after(t))
        /\ \A i \in 1 .. CountOf(h, after(t)) : new[i] = d[(h + i - 1) % N]
    BY <1>2, <1>4, <2>0, Zenon
  <2>. HIDE DEF new, n
  <2>2. QED
    BY <1>3, <2>1
<1>9. \A i \in 1 .. n : new[i] = old[i]
  <2>. SUFFICES ASSUME NEW i \in 1 .. n PROVE new[i] = old[i]
    OBVIOUS
  <2>1. new[i] = d[(h + i - 1) % N] /\ old[i] = b[(h + i - 1) % N]
    <3>. HIDE DEF new, old, d, n
    <3>1. i \in 1 .. n + 1
      BY <1>1
    <3>2. QED
      BY <1>7, <1>8, <3>1, Zenon
  <2>2. d[(h + i - 1) % N] = b[(h + i - 1) % N]
    BY <1>6, <1>7 DEF Ring
  <2>3. QED
    BY <2>1, <2>2
<1>10. new[n + 1] = c
  <2>1. new[n + 1] = d[(h + (n + 1) - 1) % N]
    <3>. HIDE DEF new, d, n
    <3>. QED
      BY <1>1, <1>8
  <2>2. d[t] = c
    BY DEF Ring
  <2>3. QED
    BY <1>5, <2>1, <2>2, Zenon
<1>11. /\ Append(old, c) \in Seq(S) /\ Len(Append(old, c)) = n + 1
       /\ \A i \in 1 .. n : Append(old, c)[i] = old[i]
       /\ Append(old, c)[n + 1] = c
  BY <1>7, AppendProperties
<1>12. \A i \in 1 .. Len(new) : new[i] = Append(old, c)[i]
  <2>. HIDE DEF old, new
  <2>. QED
    BY <1>1, <1>8, <1>9, <1>10, <1>11
<1>13. new = Append(old, c)
  <2>. HIDE DEF old, new, S
  <2>. QED
    BY <1>8, <1>11, <1>12, SeqEqual
<1>14. QED
  BY <1>3, <1>13

(* Moving h on drops the first character. *)
LEMMA CharsTail ==
    ASSUME NEW b \in Ring, NEW h \in Slots, NEW t \in Slots, h # t
    PROVE  /\ CharsOf(b, h, t) # <<>> /\ Head(CharsOf(b, h, t)) = b[h]
           /\ CharsOf(b, after(h), t) = Tail(CharsOf(b, h, t))
<1>. DEFINE S == AllChars \cup {0}
            n == CountOf(h, t)
            old == CharsOf(b, h, t)
            new == CharsOf(b, after(h), t)
<1>1. n \in 1 .. N - 1 /\ N \in Nat /\ N >= 2 /\ h \in 0 .. N - 1 /\ t \in 0 .. N - 1
  BY ModN DEF CountOf
<1>2. after(h) \in Slots /\ after(h) = IF h = N - 1 THEN 0 ELSE h + 1
  BY After
<1>3. CountOf(after(h), t) = n - 1
  BY <1>1, <1>2 DEF CountOf
<1>4. /\ old \in Seq(S) /\ Len(old) = n
      /\ \A i \in 1 .. n : old[i] = b[(h + i - 1) % N]
  BY CharsSeq
<1>5. /\ new \in Seq(S) /\ Len(new) = n - 1
      /\ \A i \in 1 .. n - 1 : new[i] = b[(after(h) + i - 1) % N]
  <2>1. /\ new \in Seq(S) /\ Len(new) = CountOf(after(h), t)
        /\ \A i \in 1 .. CountOf(after(h), t) : new[i] = b[(after(h) + i - 1) % N]
    BY <1>2, CharsSeq
  <2>. HIDE DEF new, n
  <2>2. QED
    BY <1>3, <2>1
<1>6. ASSUME NEW i \in 1 .. n - 1 PROVE (after(h) + i - 1) % N = (h + (i + 1) - 1) % N
  <2>1. i \in 1 .. N /\ i + 1 \in 1 .. N
    BY <1>1
  <2>2. (h + (i + 1) - 1) % N = IF h + (i + 1) - 1 < N THEN h + (i + 1) - 1 ELSE h + (i + 1) - 1 - N
    BY <2>1, SlotOf
  <2>3. (after(h) + i - 1) % N = IF after(h) + i - 1 < N THEN after(h) + i - 1 ELSE after(h) + i - 1 - N
    BY <1>2, <2>1, SlotOf
  <2>4. QED
    BY <1>1, <1>2, <2>2, <2>3
<1>7. old # <<>>
  <2>. HIDE DEF old
  <2>. QED
    BY <1>1, <1>4
<1>8. Head(old) = b[h]
  <2>1. old[1] = b[(h + 1 - 1) % N]
    BY <1>1, <1>4
  <2>2. (h + 1 - 1) % N = h
    BY <1>1, ModN
  <2>3. Head(old) = old[1]
    BY <1>4, <1>7
  <2>4. QED
    BY <2>1, <2>2, <2>3
<1>9. /\ Tail(old) \in Seq(S) /\ Len(Tail(old)) = n - 1
      /\ \A i \in 1 .. n - 1 : Tail(old)[i] = old[i + 1]
  <2>. HIDE DEF old, S
  <2>. QED
    BY <1>4, <1>7, HeadTailProperties
<1>10. \A i \in 1 .. Len(new) : new[i] = Tail(old)[i]
  <2>. SUFFICES ASSUME NEW i \in 1 .. n - 1 PROVE new[i] = Tail(old)[i]
    BY <1>5
  <2>1. new[i] = b[(after(h) + i - 1) % N] /\ Tail(old)[i] = old[i + 1]
    BY <1>5, <1>9
  <2>2. old[i + 1] = b[(h + (i + 1) - 1) % N]
    BY <1>1, <1>4
  <2>3. QED
    BY <1>6, <2>1, <2>2
<1>11. new = Tail(old)
  <2>. HIDE DEF old, new, S
  <2>. QED
    BY <1>5, <1>9, <1>10, SeqEqual
<1>12. QED
  BY <1>7, <1>8, <1>11
-----------------------------------------------------------------------------
(* The driver's unread characters, before and after a step. *)
LEMMA UnreadIs ==
    ASSUME TypeOK, TypeOK'
    PROVE  /\ buffer \in Ring /\ head \in Slots /\ tail \in Slots
           /\ buffer' \in Ring /\ head' \in Slots /\ tail' \in Slots
           /\ UnreadLen = CountOf(head, tail) /\ UnreadLen' = CountOf(head', tail')
           /\ Unread = CharsOf(buffer, head, tail)
           /\ Unread' = CharsOf(buffer', head', tail')
<1>1. /\ buffer \in Ring /\ head \in Slots /\ tail \in Slots
      /\ buffer' \in Ring /\ head' \in Slots /\ tail' \in Slots
  BY DEF TypeOK, Ring
<1>2. UnreadLen = CountOf(head, tail)
  BY <1>1, UnreadCount DEF UnreadLen, CountOf, N
<1>3. UnreadLen' = CountOf(head', tail')
  BY <1>1, UnreadCount DEF UnreadLen, CountOf, N
<1>4. Unread = CharsOf(buffer, head, tail)
  BY <1>2 DEF Unread, CharsOf, N
<1>5. Unread' = CharsOf(buffer', head', tail')
  BY <1>3 DEF Unread, CharsOf, N
<1>6. QED
  BY <1>1, <1>2, <1>3, <1>4, <1>5

(* A character is queued behind the unread ones if there are fewer than    *)
(* N - 1, and dropped if there are N - 1.                                  *)
LEMMA EnqueueAppends ==
    ASSUME TypeOK, TypeOK', NEW c \in AllChars, enqueue(c)
    PROVE  \/ /\ UnreadLen < N - 1
              /\ UnreadLen' = UnreadLen + 1
              /\ Unread' = Append(Unread, c)
           \/ ~(UnreadLen < N - 1) /\ UNCHANGED ring
<1>1. CASE after(tail) # head
  <2>1. buffer' = [buffer EXCEPT ![tail] = c] /\ tail' = after(tail) /\ head' = head
    BY <1>1, Enqueue
  <2>2. /\ buffer \in Ring /\ head \in Slots /\ tail \in Slots
        /\ UnreadLen = CountOf(head, tail) /\ UnreadLen' = CountOf(head', tail')
        /\ Unread = CharsOf(buffer, head, tail)
        /\ Unread' = CharsOf(buffer', head', tail')
    BY UnreadIs
  <2>3. /\ CountOf(head, tail) < N - 1
        /\ CountOf(head, after(tail)) = CountOf(head, tail) + 1
        /\ CharsOf([buffer EXCEPT ![tail] = c], head, after(tail))
              = Append(CharsOf(buffer, head, tail), c)
    BY <1>1, <2>2, CharsAppend
  <2>4. QED
    BY <2>1, <2>2, <2>3, Zenon
<1>2. CASE after(tail) = head
  <2>1. head \in 0 .. N - 1 /\ tail \in 0 .. N - 1 /\ N \in Nat /\ N >= 2
    BY ModN DEF TypeOK
  <2>2. CountOf(head, tail) = N - 1
    <3>1. head = IF tail = N - 1 THEN 0 ELSE tail + 1
      BY <1>2, After DEF TypeOK
    <3>2. QED
      BY <2>1, <3>1 DEF CountOf
  <2>3. QED
    BY <1>2, <2>1, <2>2, UnreadIs, Enqueue
<1>3. QED
  BY <1>1, <1>2

(* A character is queued unless the ring is full (kbd.c:72), wherever in   *)
(* the ring head and tail are.                                             *)
THEOREM KeyboardDrops == Spec => []DropsOnlyWhenFull
<1>1. ASSUME Inv PROVE DropsOnlyWhenFull
  <2>. SUFFICES ASSUME NEW c \in AllChars
       PROVE  IF UnreadLen < N - 1
              THEN /\ (enqueued(c).tail - head) % N = UnreadLen + 1
                   /\ enqueued(c).buffer[(head + UnreadLen) % N] = c
              ELSE enqueued(c) = RingAsIs
    BY DEF DropsOnlyWhenFull, N
  <2>1. /\ N \in Nat /\ N >= 2 /\ head \in 0 .. N - 1 /\ tail \in 0 .. N - 1
        /\ head \in Slots /\ tail \in Slots /\ buffer \in [Slots -> AllChars \cup {0}]
    BY <1>1, ModN DEF Inv, TestNotStale, TypeOK
  <2>2. UnreadLen = IF tail >= head THEN tail - head ELSE tail - head + N
    BY <2>1, UnreadCount DEF UnreadLen, N
  <2>3. after(tail) \in Slots /\ after(tail) = IF tail = N - 1 THEN 0 ELSE tail + 1
    BY <2>1, After
  <2>4. CASE after(tail) # head
    <3>1. enqueued(c).tail = after(tail) /\ enqueued(c).buffer = [buffer EXCEPT ![tail] = c]
      BY <2>4 DEF enqueued, RingWith
    <3>2. UnreadLen < N - 1 /\ UnreadLen + 1 \in 1 .. N
      BY <2>1, <2>2, <2>3, <2>4
    <3>3. (after(tail) - head) % N = UnreadLen + 1
      <4>1. (after(tail) - head) % N = IF after(tail) >= head THEN after(tail) - head
                                       ELSE after(tail) - head + N
        BY <2>1, <2>3, UnreadCount
      <4>2. QED
        BY <2>1, <2>2, <2>3, <2>4, <4>1
    <3>4. (head + UnreadLen) % N = tail
      <4>1. (head + (UnreadLen + 1) - 1) % N
               = IF head + (UnreadLen + 1) - 1 < N THEN head + (UnreadLen + 1) - 1
                 ELSE head + (UnreadLen + 1) - 1 - N
        BY <2>1, <3>2, SlotOf
      <4>2. head + (UnreadLen + 1) - 1 = head + UnreadLen
        BY <2>1, <2>2
      <4>3. QED
        BY <2>1, <2>2, <4>1, <4>2
    <3>5. enqueued(c).buffer[tail] = c
      BY <2>1, <3>1
    <3>6. QED
      BY <3>1, <3>2, <3>3, <3>4, <3>5
  <2>5. CASE after(tail) = head
    <3>1. ~(UnreadLen < N - 1)
      BY <2>1, <2>2, <2>3, <2>5
    <3>2. QED
      BY <2>5, <3>1 DEF enqueued
  <2>6. QED
    BY <2>4, <2>5
<1>2. QED
  BY <1>1, AlwaysInv, PTL
-----------------------------------------------------------------------------
(* The ring with its reader implements the queue: an interrupt is a Type   *)
(* or a stutter, getchar_fetch is a Take, a test that finds nothing is a   *)
(* TakeNothing, and storing the new head changes nothing that the reader   *)
(* could tell.                                                             *)
LEMMA InterruptTypes ==
    ASSUME Inv, Inv', Interrupts
    PROVE  [Queue!Next]_<<WaitingChars, ch>>
<1>. USE DEF Inv, TestNotStale
<1>0. UNCHANGED reader /\ (UNCHANGED ring \/ \E c \in AllChars : enqueue(c))
  BY InterruptRing DEF ModifiersInv
<1>1. pc' = pc /\ ch' = ch
  BY <1>0 DEF reader
<1>2. CASE UNCHANGED ring
  BY <1>1, <1>2 DEF ring, WaitingChars, Unread, UnreadLen
<1>3. ASSUME NEW c \in AllChars, UnreadLen < N - 1, Unread' = Append(Unread, c)
      PROVE  Queue!Type
  <2>. DEFINE S == AllChars \cup {0}
  <2>1. Unread \in Seq(S) /\ Len(Unread) = UnreadLen /\ (UnreadLen = 0 <=> head = tail)
        /\ UnreadLen \in Nat /\ c \in S /\ N \in Nat
    <3>1. /\ buffer \in Ring /\ head \in Slots /\ tail \in Slots
          /\ UnreadLen = CountOf(head, tail) /\ Unread = CharsOf(buffer, head, tail)
      BY UnreadIs
    <3>2. /\ CharsOf(buffer, head, tail) \in Seq(S)
          /\ Len(CharsOf(buffer, head, tail)) = CountOf(head, tail)
      BY <3>1, CharsSeq
    <3>3. N \in Nat /\ head \in 0 .. N - 1 /\ tail \in 0 .. N - 1
      BY <3>1, ModN
    <3>4. CountOf(head, tail) \in Nat /\ (CountOf(head, tail) = 0 <=> head = tail)
      BY <3>3 DEF CountOf
    <3>5. QED
      BY <3>1, <3>2, <3>3, <3>4, Zenon
  <2>2. CASE pc # "advance"
    BY <1>1, <1>3, <2>1, <2>2 DEF WaitingChars, Queue!Type, N
  <2>3. CASE pc = "advance"
    <3>1. Unread # <<>>
      BY <2>1, <2>3 DEF kbd_char_available
    <3>2. Tail(Append(Unread, c)) = Append(Tail(Unread), c)
      BY <2>1, <3>1, HeadTailAppend
    <3>3. Len(Tail(Unread)) < N - 1
      BY <1>3, <2>1, <3>1, HeadTailProperties
    <3>4. WaitingChars = Tail(Unread) /\ WaitingChars' = Append(WaitingChars, c)
      BY <1>1, <1>3, <2>3, <3>2 DEF WaitingChars
    <3>5. QED
      BY <1>1, <3>3, <3>4 DEF Queue!Type, N
  <2>4. QED
    BY <2>2, <2>3
<1>4. QED
  BY <1>0, <1>2, <1>3, EnqueueAppends DEF Queue!Next

LEMMA ReaderTakes ==
    ASSUME Inv, Inv', kbd_getchar \/ poll
    PROVE  [Queue!Next]_<<WaitingChars, ch>>
<1>. USE DEF Inv, TestNotStale
<1>1. CASE getchar_test /\ head # tail
  BY <1>1 DEF getchar_test, WaitingChars, Unread, UnreadLen, ring
<1>2. CASE getchar_test /\ head = tail
  <2>1. Unread \in Seq(AllChars \cup {0}) /\ Len(Unread) = 0
    BY <1>2, UnreadIs, CharsSeq
  <2>2. Unread = <<>>
    BY <2>1, EmptySeq
  <2>3. WaitingChars = <<>> /\ WaitingChars' = WaitingChars /\ ch' = 0
    BY <1>2, <2>2 DEF getchar_test, WaitingChars, Unread, UnreadLen, ring
  <2>4. QED
    BY <2>3 DEF Queue!Next, Queue!TakeNothing
<1>3. CASE getchar_fetch
  <2>1. head # tail /\ ch' = buffer[head] /\ UNCHANGED ring
        /\ pc = "fetch" /\ pc' = "advance"
    BY <1>3 DEF getchar_fetch, kbd_char_available
  <2>2. Unread # <<>> /\ Head(Unread) = buffer[head]
    BY <2>1, UnreadIs, CharsTail
  <2>3. WaitingChars = Unread /\ WaitingChars' = Tail(Unread)
    BY <2>1 DEF WaitingChars, Unread, UnreadLen, ring
  <2>4. QED
    BY <2>1, <2>2, <2>3 DEF Queue!Next, Queue!Take
<1>4. CASE getchar_advance
  <2>1. /\ head # tail /\ head' = after(head) /\ UNCHANGED <<buffer, tail, ch>>
        /\ pc = "advance" /\ pc' = "return"
    BY <1>4 DEF getchar_advance, kbd_char_available
  <2>2. Unread' = Tail(Unread)
    BY <2>1, UnreadIs, CharsTail
  <2>3. QED
    BY <2>1, <2>2 DEF WaitingChars
<1>5. CASE poll
  BY <1>5 DEF poll, WaitingChars, Unread, UnreadLen, ring
<1>6. QED
  BY <1>1, <1>2, <1>3, <1>4, <1>5 DEF kbd_getchar

(* What is typed comes out once and in order, as from a queue of N - 1     *)
(* characters, with interrupts between any two steps of kbd_getchar.       *)
THEOREM KeyboardRefinement == Spec => QueueSpec
<1>1. Init => Queue!Init
  <2>. SUFFICES ASSUME Init PROVE Queue!Init
    OBVIOUS
  <2>1. TypeOK
    BY InitInv DEF Inv, TestNotStale
  <2>2. UnreadLen = 0
    BY <2>1, UnreadCount, ModN DEF Init, UnreadLen, N, TypeOK
  <2>3. Unread = <<>>
    BY <2>2 DEF Unread
  <2>4. QED
    BY <2>3 DEF Init, Queue!Init, WaitingChars
<1>2. ASSUME Inv, Inv', [Next]_vars PROVE [Queue!Next]_<<WaitingChars, ch>>
  <2>1. CASE Interrupts
    BY <1>2, <2>1, InterruptTypes
  <2>2. CASE kbd_getchar \/ poll
    BY <1>2, <2>2, ReaderTakes
  <2>3. CASE UNCHANGED vars
    BY <2>3 DEF vars, ring, mods, reader, WaitingChars, Unread, UnreadLen
  <2>4. QED
    BY <1>2, <2>1, <2>2, <2>3 DEF Next
<1>3. QED
  BY <1>1, <1>2, AlwaysInv, PTL DEF Spec, QueueSpec, Queue!Spec
=============================================================================
