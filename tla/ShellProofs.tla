---------------------------- MODULE ShellProofs -----------------------------
(***************************************************************************)
(* Proofs about the shell's loop over the keyboard driver: the shell calls *)
(* the driver as the driver's specification assumes, so the driver's       *)
(* invariant holds in the kernel, and the line it executes is the one that *)
(* was typed.  Then, of every such line: shell_parse_args stays in its     *)
(* arrays and finds where the words start, and shell_execute runs the      *)
(* command that is named.  The loop of shell_parse_args is a recursive function of the  *)
(* line; induction and recursion are restated for it in first-order logic. *)
(***************************************************************************)
EXTENDS Shell, ShellLines, FiniteSetTheorems, SequenceTheorems, NaturalsInduction,
        WellFoundedInduction, TLAPS

KP == INSTANCE KeyboardProofs

(* What the two instances of Keyboard define is the same. *)
LEMMA SameDriver ==
    /\ K!Init <=> KP!Init
    /\ [K!Next]_kbd_vars <=> [KP!Next]_KP!vars
    /\ K!TypeOK <=> KP!TypeOK
    /\ K!TypeOK' <=> KP!TypeOK'
<1>1. K!Next <=> KP!Next
  BY DEF K!enqueue, KP!enqueue, K!enqueued, KP!enqueued, K!RingWith,
         KP!RingWith, K!RingAsIs, KP!RingAsIs, K!ring, KP!ring, K!reader,
         KP!reader, K!mods, KP!mods, K!kbd_handle_special_key,
         KP!kbd_handle_special_key, K!release, KP!release, K!translate,
         KP!translate, K!kbd_interrupt_handler, KP!kbd_interrupt_handler,
         K!KeyDown, KP!KeyDown, K!KeyUp, KP!KeyUp, K!Send, KP!Send,
         K!SendPending, KP!SendPending, K!RightCtrl, KP!RightCtrl, K!Pause,
         KP!Pause, K!ExtDown, KP!ExtDown, K!ExtUp, KP!ExtUp, K!RCTRL, KP!RCTRL,
         K!CTRLS, KP!CTRLS, K!PAUSE, KP!PAUSE, K!NONE, KP!NONE, K!BREAK,
         KP!BREAK, K!getchar_test,
         KP!getchar_test, K!getchar_fetch, KP!getchar_fetch,
         K!getchar_advance, KP!getchar_advance, K!kbd_getchar,
         KP!kbd_getchar, K!poll, KP!poll, K!Interrupts, KP!Interrupts,
         K!Next, KP!Next, K!after, KP!after, K!vars, KP!vars, K!Init,
         KP!Init, K!Slots, KP!Slots, K!TypeOK, KP!TypeOK, K!MODIFIERS,
         KP!MODIFIERS, K!SHIFT, KP!SHIFT, K!CTRL, KP!CTRL, K!AllChars,
         KP!AllChars, K!Chars, KP!Chars, K!UpperCase, KP!UpperCase,
         K!scancode_table, KP!scancode_table
<1>2. /\ K!Init <=> KP!Init
      /\ K!TypeOK <=> KP!TypeOK
      /\ K!TypeOK' <=> KP!TypeOK'
  BY DEF K!Init, KP!Init, K!TypeOK, KP!TypeOK, K!Slots, KP!Slots, K!AllChars,
         KP!AllChars, K!Chars, KP!Chars, K!UpperCase, KP!UpperCase, K!MODIFIERS,
         KP!MODIFIERS, K!SHIFT, KP!SHIFT, K!CTRL, KP!CTRL, K!RCTRL, KP!RCTRL,
         K!CTRLS, KP!CTRLS, K!NONE, KP!NONE, K!BREAK, KP!BREAK,
         K!scancode_table, KP!scancode_table
<1>3. UNCHANGED kbd_vars <=> UNCHANGED KP!vars
  BY Zenon DEF kbd_vars, KP!vars, KP!ring, KP!mods, KP!reader
<1>4. QED
  BY <1>1, <1>2, <1>3, Zenon

(* The assumption of KeyboardProofs holds of its instance here. *)
LEMMA KeyboardHolds == KP!KeyboardAssumption
BY ShellAssumption DEF KP!KeyboardAssumption
-----------------------------------------------------------------------------
(* Every step of the shell is a step of the driver, or leaves it alone. *)
LEMMA DriverStep == [Next]_vars => [K!Next]_kbd_vars
<1>. SUFFICES ASSUME [Next]_vars PROVE K!Next \/ UNCHANGED kbd_vars
  OBVIOUS
<1>1. CASE Interrupts
  BY <1>1, Zenon DEF Interrupts, K!Next
<1>2. CASE getchar
  BY <1>2, Zenon DEF getchar, K!Next
<1>3. CASE shell_read_line \/ run_line
  BY <1>3, Zenon DEF shell_read_line, run_line, read_nothing, read_newline,
     read_backspace, read_char, K!Next
<1>4. CASE UNCHANGED vars
  BY <1>4, Zenon DEF vars
<1>5. QED
  BY <1>1, <1>2, <1>3, <1>4, Zenon DEF Next, shell_run
-----------------------------------------------------------------------------
(* The characters that shell_read_line stores. *)
LineChars == K!AllChars \ (NEWLINE \cup {BACKSPACE})

(* While a line is read there is room for a character and the NUL after    *)
(* it, and the characters up to len are the ones that were typed.  KP!Inv, *)
(* the driver's invariant, says what kbd_getchar can return.               *)
ReadInv ==
    /\ Len(typed) = len
    /\ \A i \in 0 .. len - 1 : cmdline[i] \in LineChars /\ cmdline[i] = typed[i + 1]
    /\ mode = "read" => LineHasRoom(len)
    /\ mode = "execute" => cmdline[len] = 0
    /\ mode = "halted" => len = 0

Inv == KP!Inv /\ TypeOK /\ ReadInv

LEMMA DriverType == KP!Inv => K!TypeOK /\ ch \in K!AllChars \cup {0}
BY SameDriver, Zenon DEF KP!Inv, KP!TestNotStale, K!TypeOK

LEMMA InitInv == Init => Inv
<1>. SUFFICES ASSUME Init PROVE Inv
  OBVIOUS
<1>1. KP!Inv
  BY SameDriver, KeyboardHolds, KP!InitInv, Zenon DEF Init
<1>2. TypeOK
  <2>1. 0 \in Index
    BY ShellParseAssumption DEF Index
  <2>2. cmdline \in [Index -> K!AllChars \cup {0, GARBAGE}]
    BY DEF Init
  <2>3. <<>> \in Seq(K!AllChars)
    OBVIOUS
  <2>4. QED
    BY <1>1, <2>1, <2>2, <2>3, DriverType, Zenon DEF Init, TypeOK
<1>3. ReadInv
  BY ShellParseAssumption DEF Init, ReadInv, LineHasRoom, max_len
<1>4. QED
  BY <1>1, <1>2, <1>3 DEF Inv

LEMMA ShorterRange ==
    ASSUME NEW m \in Nat, NEW n \in Nat, m =< n
    PROVE  \A i \in 0 .. m - 1 : i \in 0 .. n - 1 /\ i + 1 \in 1 .. m
OBVIOUS

LEMMA NextInv == Inv /\ [Next]_vars => Inv'
<1>. SUFFICES ASSUME Inv, [Next]_vars PROVE Inv'
  OBVIOUS
<1>. DEFINE Lines == [Index -> K!AllChars \cup {0, GARBAGE}]
<1>1. KP!Inv' /\ K!TypeOK'
  <2>1. KP!Inv'
    BY DriverStep, SameDriver, KeyboardHolds, KP!NextInv, Zenon DEF Inv
  <2>2. KP!TypeOK'
    BY <2>1, Zenon DEF KP!Inv, KP!TestNotStale
  <2>3. QED
    BY <2>1, <2>2, SameDriver, Zenon
<1>2. /\ cmdline \in Lines /\ len \in Index /\ ReadInv
      /\ mode \in {"read", "execute", "halted"}
      /\ typed \in Seq(K!AllChars) /\ ch \in K!AllChars \cup {0}
  BY DriverType, Zenon DEF Inv, TypeOK
<1>3. SUFFICES /\ cmdline' \in Lines /\ len' \in Index
               /\ mode' \in {"read", "execute", "halted"}
               /\ typed' \in Seq(K!AllChars)
               /\ ReadInv'
  BY <1>1, Zenon DEF Inv, TypeOK
<1>4. CASE UNCHANGED <<cmdline, len, mode, typed>>
  BY <1>2, <1>4, Zenon DEF ReadInv, LineHasRoom
<1>5. /\ len \in Nat /\ len < max_len /\ max_len \in Nat /\ max_len >= 2
      /\ Index = 0 .. max_len - 1 /\ Len(typed) = len
      /\ \A i \in 0 .. len - 1 : cmdline[i] \in LineChars /\ cmdline[i] = typed[i + 1]
      /\ mode = "read" => len < max_len - 1
  <2>1. /\ Len(typed) = len
        /\ \A i \in 0 .. len - 1 : cmdline[i] \in LineChars /\ cmdline[i] = typed[i + 1]
        /\ mode = "read" => len < max_len - 1
    BY <1>2, Zenon DEF ReadInv, LineHasRoom
  <2>2. QED
    BY <1>2, <2>1, ShellParseAssumption DEF Index, max_len
<1>6. CASE read_newline
  <2>1. /\ mode = "read" /\ len' = len /\ typed' = typed
        /\ cmdline' = [cmdline EXCEPT ![len] = 0]
        /\ (mode' = "read" /\ len = 0) \/ mode' = "execute"
    BY <1>6, Zenon DEF read_newline, Returned, terminate
  <2>2. cmdline' \in Lines /\ cmdline'[len] = 0
    BY <1>2, <2>1
  <2>3. \A i \in 0 .. len - 1 : cmdline'[i] = cmdline[i]
    BY <1>2, <1>5, <2>1
  <2>4. \A i \in 0 .. len - 1 : cmdline'[i] \in LineChars /\ cmdline'[i] = typed[i + 1]
    BY <1>5, <2>3
  <2>5. mode' = "read" => LineHasRoom(len)
    BY <1>5, <2>1 DEF LineHasRoom
  <2>6. QED
    BY <1>2, <1>5, <2>1, <2>2, <2>4, <2>5, Zenon DEF ReadInv, LineHasRoom
<1>7. CASE read_backspace
  <2>1. /\ mode = "read" /\ mode' = mode /\ cmdline' = cmdline
        /\ len' = IF len > 0 THEN len - 1 ELSE len
        /\ typed' = IF typed # <<>> THEN SubSeq(typed, 1, Len(typed) - 1) ELSE typed
    BY <1>7, Zenon DEF read_backspace, Returned
  <2>2. len' \in Index /\ len' =< len /\ len' \in Nat /\ len \in Nat
    BY <1>5, <2>1
  <2>3. /\ typed' \in Seq(K!AllChars) /\ Len(typed') = len'
        /\ \A i \in 1 .. len' : typed'[i] = typed[i]
    <3>1. CASE len = 0
      <4>1. typed = <<>>
        BY <1>2, <1>5, <3>1
      <4>2. QED
        BY <1>2, <1>5, <2>1, <3>1, <4>1
    <3>2. CASE len > 0
      <4>1. typed # <<>>
        BY <1>5, <3>2
      <4>2. typed' = SubSeq(typed, 1, len - 1) /\ len' = len - 1
        BY <1>5, <2>1, <3>2, <4>1
      <4>3. 1 \in 1 .. Len(typed) + 1 /\ len - 1 \in (1 - 1) .. Len(typed)
        BY <1>5, <3>2
      <4>4. QED
        BY <1>2, <1>5, <3>2, <4>2, <4>3
    <3>3. QED
      BY <1>5, <3>1, <3>2
  <2>4. \A i \in 0 .. len' - 1 : cmdline'[i] \in LineChars /\ cmdline'[i] = typed'[i + 1]
    <3>1. \A i \in 0 .. len' - 1 : i \in 0 .. len - 1 /\ i + 1 \in 1 .. len'
      BY <2>2, ShorterRange, Zenon
    <3>2. QED
      BY <1>5, <2>1, <2>3, <3>1, Zenon
  <2>5. LineHasRoom(len')
    BY <1>5, <2>1, <2>2 DEF LineHasRoom
  <2>6. QED
    BY <1>2, <2>1, <2>2, <2>3, <2>4, <2>5, Zenon DEF ReadInv, LineHasRoom
<1>8. CASE read_char
  <2>. DEFINE stored == [cmdline EXCEPT ![len] = ch]
  <2>1. /\ mode = "read" /\ len' = len + 1 /\ typed' = Append(typed, ch)
        /\ ch \in LineChars
        /\ \/ /\ LineHasRoom(len + 1) /\ cmdline' = stored /\ mode' = mode
           \/ /\ ~LineHasRoom(len + 1) /\ mode' = "execute"
              /\ cmdline' = [stored EXCEPT ![len + 1] = 0]
    BY <1>2, <1>8, Zenon DEF read_char, Returned, terminate, LineChars
  <2>2. len + 1 \in Index
    BY <1>5, <2>1
  <2>3. /\ stored \in Lines /\ stored[len] = ch
        /\ \A i \in 0 .. len - 1 : stored[i] = cmdline[i]
    BY <1>2, <1>5, <2>1 DEF LineChars
  <2>. HIDE DEF stored
  <2>4. /\ cmdline' \in Lines /\ \A i \in 0 .. len : cmdline'[i] = stored[i]
        /\ mode' = "execute" => cmdline'[len + 1] = 0
    BY <1>5, <2>1, <2>2, <2>3
  <2>5. /\ typed' \in Seq(K!AllChars) /\ Len(typed') = len + 1
        /\ \A i \in 1 .. len : typed'[i] = typed[i]
        /\ typed'[len + 1] = ch
    <3>1. ch \in K!AllChars
      BY <2>1 DEF LineChars
    <3>2. QED
      <4>1. typed \in Seq(K!AllChars)
        BY <1>2, Zenon
      <4>2. /\ Append(typed, ch) \in Seq(K!AllChars)
            /\ Len(Append(typed, ch)) = Len(typed) + 1
            /\ \A i \in 1 .. Len(typed) : Append(typed, ch)[i] = typed[i]
            /\ Append(typed, ch)[Len(typed) + 1] = ch
        BY <3>1, <4>1, AppendProperties
      <4>3. Len(typed) = len /\ typed' = Append(typed, ch)
        BY <1>5, <2>1, Zenon
      <4>4. QED
        BY <4>2, <4>3, Zenon
  <2>6. \A i \in 0 .. len' - 1 : cmdline'[i] \in LineChars /\ cmdline'[i] = typed'[i + 1]
    <3>1. ASSUME NEW i \in 0 .. len - 1
          PROVE  cmdline'[i] \in LineChars /\ cmdline'[i] = typed'[i + 1]
      <4>1. i \in 0 .. len /\ i + 1 \in 1 .. len
        BY <1>5
      <4>2. QED
        BY <1>5, <2>3, <2>4, <2>5, <4>1, Zenon
    <3>2. cmdline'[len] \in LineChars /\ cmdline'[len] = typed'[len + 1]
      <4>1. len \in 0 .. len
        BY <1>5
      <4>2. QED
        BY <2>1, <2>3, <2>4, <2>5, <4>1, Zenon
    <3>3. \A i \in 0 .. len' - 1 : i \in 0 .. len - 1 \/ i = len
      BY <1>5, <2>1
    <3>4. QED
      BY <3>1, <3>2, <3>3, Zenon
  <2>7. mode' # "halted" /\ (mode' = "read" => LineHasRoom(len + 1))
    BY <2>1, Zenon
  <2>8. QED
    BY <1>2, <2>1, <2>2, <2>4, <2>5, <2>6, <2>7, Zenon DEF ReadInv, LineHasRoom
<1>9. CASE run_line
  <2>1. cmdline' = cmdline /\ len' = 0 /\ mode' \in {"read", "halted"} /\ typed' = <<>>
    BY <1>9, Zenon DEF run_line
  <2>2. QED
    BY <1>2, <1>5, <2>1 DEF ReadInv, LineHasRoom
<1>10. CASE Interrupts \/ getchar \/ read_nothing \/ UNCHANGED vars
  BY <1>4, <1>10, Zenon DEF Interrupts, getchar, read_nothing, vars
<1>11. QED
  BY <1>6, <1>7, <1>8, <1>9, <1>10, Zenon DEF Next, shell_run, shell_read_line
-----------------------------------------------------------------------------
Sized(n) == {r \in Seq(Nat) : Len(r) = n}

LEMMA SizedConcat ==
    ASSUME NEW m, NEW n, NEW r \in Sized(m), NEW q \in Sized(n)
    PROVE  r \o q \in Sized(m + n)
<1>1. r \in Seq(Nat) /\ q \in Seq(Nat) /\ Len(r) = m /\ Len(q) = n
  BY DEF Sized
<1>2. r \o q \in Seq(Nat) /\ Len(r \o q) = m + n
  BY <1>1, ConcatProperties, Zenon
<1>3. QED
  BY <1>2, Zenon DEF Sized

LEMMA SizedElement ==
    ASSUME NEW n, NEW r \in Sized(n), NEW i \in 1 .. n
    PROVE  r[i] \in Nat
<1>1. r \in Seq(Nat) /\ i \in 1 .. Len(r)
  BY DEF Sized
<1>2. QED
  BY <1>1, ElementOfSeq, Zenon

(* The driver delivers character codes, never NUL. *)
LEMMA CharCodes == K!AllChars \subseteq Nat \ {0}
<1>. DEFINE row0 == <<0, 27, 49, 50, 51, 52, 53, 54,
                      55, 56, 57, 48, 45, 61, 8, 9>>
            row1 == <<113, 119, 101, 114, 116, 121, 117, 105,
                      111, 112, 91, 93, 10, 0, 97, 115>>
            row2 == <<100, 102, 103, 104, 106, 107, 108, 59,
                      39, 96, 0, 92, 122, 120, 99, 118>>
            row3 == <<98, 110, 109, 44, 46, 47, 0, 42,
                      0, 32, 0, 0, 0, 0, 0, 0>>
            row4 == <<0, 0, 0, 0, 0, 0, 0, 55,
                      56, 57, 45, 52, 53, 54, 43, 49>>
            row5 == <<50, 51, 48, 46, 0, 0, 0, 0, 0, 0, 0, 0, 0, 0, 0, 0>>
            rows == row0 \o row1 \o row2 \o row3 \o row4 \o row5
<1>1. row0 \in Sized(16)
  BY DEF Sized
<1>2. row1 \in Sized(16)
  BY DEF Sized
<1>3. row2 \in Sized(16)
  BY DEF Sized
<1>4. row3 \in Sized(16)
  BY DEF Sized
<1>5. row4 \in Sized(16)
  BY DEF Sized
<1>6. row5 \in Sized(16)
  BY DEF Sized
<1>7. K!scancode_table = [s \in 0 .. 127 |-> IF s < 96 THEN rows[s + 1] ELSE 0]
  BY Zenon DEF K!scancode_table
<1>. HIDE DEF row0, row1, row2, row3, row4, row5
<1>8. rows \in Sized(96)
  <2>1. PICK n \in Nat : n = 16
    OBVIOUS
  <2>2. n + n + n + n + n + n = 96
    BY <2>1
  <2>3. rows \in Sized(n + n + n + n + n + n)
    <3>1. /\ row0 \in Sized(n) /\ row1 \in Sized(n) /\ row2 \in Sized(n)
          /\ row3 \in Sized(n) /\ row4 \in Sized(n) /\ row5 \in Sized(n)
      BY <1>1, <1>2, <1>3, <1>4, <1>5, <1>6, <2>1
    <3>2. row0 \o row1 \in Sized(n + n)
      BY <3>1, SizedConcat, Zenon
    <3>3. row0 \o row1 \o row2 \in Sized(n + n + n)
      BY <3>1, <3>2, SizedConcat, Zenon
    <3>4. row0 \o row1 \o row2 \o row3 \in Sized(n + n + n + n)
      BY <3>1, <3>3, SizedConcat, Zenon
    <3>5. row0 \o row1 \o row2 \o row3 \o row4 \in Sized(n + n + n + n + n)
      BY <3>1, <3>4, SizedConcat, Zenon
    <3>6. QED
      BY <3>1, <3>5, SizedConcat, Zenon
  <2>4. QED
    BY <2>2, <2>3
<1>. HIDE DEF rows
<1>9. \A s \in 0 .. 127 : K!scancode_table[s] \in Nat
  <2>1. \A s \in 0 .. 127 : s < 96 => s + 1 \in 1 .. 96
    OBVIOUS
  <2>2. \A i \in 1 .. 96 : rows[i] \in Nat
    BY <1>8, SizedElement, Zenon
  <2>3. QED
    BY <1>7, <2>1, <2>2
<1>10. K!Chars \subseteq Nat \ {0}
  BY <1>9, ShellAssumption DEF K!Chars
<1>11. \A c \in Nat \ {0} : K!UpperCase(c) \in Nat \ {0}
  BY DEF K!UpperCase
<1>12. QED
  BY <1>10, <1>11 DEF K!AllChars

(* shell_execute always gets the line that was typed since the last one,   *)
(* ended inside cmdline, for every size of the line and of the ring and    *)
(* every interleaving with the keyboard's interrupts.                      *)
THEOREM ShellLine == Spec => []LineAsTyped
<1>1. ASSUME Inv PROVE LineAsTyped
  <2>. SUFFICES ASSUME mode = "execute"
       PROVE  /\ Len(typed) \in Index /\ cmdline[Len(typed)] = 0
              /\ \A i \in 1 .. Len(typed) : cmdline[i - 1] = typed[i] /\ typed[i] # 0
    BY <1>1, Zenon DEF Inv, LineAsTyped
  <2>1. /\ len \in Index /\ Len(typed) = len /\ cmdline[len] = 0
        /\ \A i \in 0 .. len - 1 : cmdline[i] \in LineChars /\ cmdline[i] = typed[i + 1]
    BY <1>1, Zenon DEF Inv, TypeOK, ReadInv
  <2>2. len \in Nat
    BY <2>1, ShellParseAssumption DEF Index
  <2>3. LineChars \subseteq Nat \ {0}
    BY CharCodes DEF LineChars
  <2>4. ASSUME NEW i \in 1 .. len PROVE cmdline[i - 1] = typed[i] /\ typed[i] # 0
    <3>1. i - 1 \in 0 .. len - 1 /\ (i - 1) + 1 = i
      BY <2>2
    <3>2. cmdline[i - 1] \in LineChars /\ cmdline[i - 1] = typed[i]
      BY <2>1, <3>1, Zenon
    <3>3. QED
      BY <2>3, <3>2
  <2>5. QED
    BY <2>1, <2>4, Zenon
<1>2. QED
  BY <1>1, InitInv, NextInv, PTL DEF Spec
-----------------------------------------------------------------------------
(* Every non-empty set of natural numbers has a smallest element. *)
LEMMA Least ==
    ASSUME NEW S \in SUBSET Nat, S # {}
    PROVE  \E m \in S : \A y \in S : m =< y
<1>1. \A x, y \in Nat : x < y => <<x, y>> \in OpToRel(<, Nat)
  BY Zenon DEF OpToRel
<1>2. PICK R : IsWellFoundedOn(R, Nat) /\ \A x, y \in Nat : x < y => <<x, y>> \in R
  BY <1>1, NatLessThanWellFounded, Zenon
<1>3. PICK x \in S : \A y \in S : ~(<<y, x>> \in R)
  <2>1. S \subseteq Nat /\ S # {}
    OBVIOUS
  <2>2. \A Q, T : IsWellFoundedOn(Q, Nat) /\ T \subseteq Nat /\ T # {}
                    => \E x \in T : \A y \in T : ~(<<y, x>> \in Q)
    BY WFMin, Zenon
  <2>3. QED
    BY <1>2, <2>1, <2>2, Zenon
<1>4. ASSUME NEW y \in S PROVE x =< y
  <2>1. x \in Nat /\ y \in Nat
    OBVIOUS
  <2>2. ~(y < x)
    BY <1>2, <1>3, <2>1, Zenon
  <2>3. QED
    BY <2>1, <2>2, SMT
<1>5. QED
  BY <1>4

(* Induction up to N, for a set in the place of a predicate. *)
LEMMA Induction ==
    ASSUME NEW N \in Nat, NEW S, 0 \in S,
           \A n \in 0 .. N - 1 : n \in S => n + 1 \in S
    PROVE  0 .. N \subseteq S
<1>. DEFINE Bad == {n \in 0 .. N : n \notin S}
<1>1. SUFFICES ASSUME Bad # {} PROVE FALSE
  OBVIOUS
<1>2. Bad \in SUBSET Nat
  OBVIOUS
<1>3. PICK m \in Bad : \A y \in Bad : m =< y
  BY <1>1, <1>2, Least
<1>4. m \in 1 .. N /\ m - 1 \in 0 .. N - 1 /\ (m - 1) + 1 = m
  OBVIOUS
<1>5. m - 1 \in S
  BY <1>3, <1>4
<1>6. QED
  BY <1>4, <1>5

(* The functions that a step function defines by primitive recursion. *)
Steps(S, N) == [1 .. N -> [S -> S]]
Iterates(S, e, N, g) ==
    {f \in [0 .. N -> S] : f[0] = e /\ \A i \in 1 .. N : f[i] = g[i][f[i - 1]]}

LEMMA Recursion ==
    ASSUME NEW S, NEW e \in S, NEW N \in Nat, NEW g \in Steps(S, N)
    PROVE  Iterates(S, e, N, g) # {}
<1>. DEFINE Good == {n \in 0 .. N : Iterates(S, e, n, g) # {}}
<1>. USE DEF Iterates, Steps
<1>1. 0 \in Good
  <2>1. [i \in 0 .. 0 |-> e] \in Iterates(S, e, 0, g)
    OBVIOUS
  <2>2. QED
    BY <2>1
<1>2. ASSUME NEW n \in 0 .. N - 1, n \in Good PROVE n + 1 \in Good
  <2>1. PICK f \in Iterates(S, e, n, g) : TRUE
    BY <1>2
  <2>. DEFINE h == [i \in 0 .. n + 1 |-> IF i = n + 1 THEN g[n + 1][f[n]] ELSE f[i]]
  <2>2. n + 1 \in 1 .. N /\ f[n] \in S /\ g[n + 1][f[n]] \in S
    OBVIOUS
  <2>3. h \in [0 .. n + 1 -> S] /\ h[0] = e
    BY <2>2
  <2>4. ASSUME NEW i \in 1 .. n + 1 PROVE h[i] = g[i][h[i - 1]]
    <3>1. CASE i = n + 1
      <4>1. h[n + 1] = g[n + 1][f[n]] /\ h[n] = f[n] /\ i - 1 = n
        BY <3>1
      <4>2. QED
        BY <3>1, <4>1, Zenon
    <3>2. CASE i # n + 1
      <4>1. i \in 1 .. n /\ h[i] = f[i] /\ h[i - 1] = f[i - 1]
        BY <3>2
      <4>2. f[i] = g[i][f[i - 1]]
        BY <4>1
      <4>3. QED
        BY <4>1, <4>2, Zenon
    <3>3. QED
      BY <3>1, <3>2
  <2>. HIDE DEF h
  <2>5. h \in Iterates(S, e, n + 1, g)
    BY <2>3, <2>4
  <2>6. QED
    BY <2>5
<1>. HIDE DEF Good
<1>3. 0 .. N \subseteq Good
  BY <1>1, <1>2, Induction
<1>4. QED
  BY <1>3 DEF Good
-----------------------------------------------------------------------------
A == SHELL_MAX_ARGS

(* The locals of shell_parse_args, before the loop and after a turn of it  *)
(* that finds character c at offset i - 1.                                 *)
Locals == [arg_idx : 0 .. A, in_arg : BOOLEAN, buf_idx : Nat, argv : [0 .. A - 1 -> Int]]

Start == [arg_idx |-> 0, in_arg |-> FALSE, buf_idx |-> 0,
          argv |-> [k \in 0 .. A - 1 |-> UNSET]]

Turn(p, i, c) ==
    CASE ~ArgsLeft(p) -> p
      [] ArgsLeft(p) /\ ~IsBlank(c) -> in_word(p, i - 1)
      [] ArgsLeft(p) /\ IsBlank(c) ->
             IF p.in_arg THEN end_arg(p, i - 1) ELSE p

(* A turn from p to t, case by case. *)
Turned(p, t, i, c) ==
    /\ t \in Locals
    /\ ~(p.arg_idx < A) => t = p
    /\ p.arg_idx < A /\ IsBlank(c) /\ ~p.in_arg => t = p
    /\ p.arg_idx < A /\ IsBlank(c) /\ p.in_arg =>
          /\ t.arg_idx = p.arg_idx + 1 /\ t.in_arg = FALSE /\ t.buf_idx = 0
          /\ t.argv = [p.argv EXCEPT ![p.arg_idx] = (i - 1) - p.buf_idx]
    /\ p.arg_idx < A /\ ~IsBlank(c) =>
          /\ t.arg_idx = p.arg_idx /\ t.in_arg = TRUE /\ t.buf_idx = p.buf_idx + 1
          /\ p.in_arg => t.argv = p.argv
          /\ ~p.in_arg => t.argv = [p.argv EXCEPT ![p.arg_idx] = i - 1]

LEMMA Turns ==
    ASSUME NEW p \in Locals, NEW i \in Nat \ {0}, NEW c
    PROVE  Turned(p, Turn(p, i, c), i, c)
<1>. DEFINE t == Turn(p, i, c)
<1>1. PICK n \in 0 .. A, w \in BOOLEAN, b \in Nat, a \in [0 .. A - 1 -> Int] :
         p = [arg_idx |-> n, in_arg |-> w, buf_idx |-> b, argv |-> a]
  BY DEF Locals
<1>2. p.arg_idx = n /\ p.in_arg = w /\ p.buf_idx = b /\ p.argv = a
  BY <1>1
<1>3. A \in Nat \ {0}
  BY ShellParseAssumption DEF A
<1>4. CASE ~(n < A)
  <2>1. t = p
    BY <1>2, <1>4 DEF Turn, ArgsLeft, A
  <2>2. QED
    BY <1>2, <1>4, <2>1, Zenon DEF Turned
<1>5. CASE n < A /\ IsBlank(c) /\ ~w
  <2>1. t = p
    BY <1>2, <1>5 DEF Turn, ArgsLeft, A
  <2>2. QED
    BY <1>2, <1>5, <2>1, Zenon DEF Turned
<1>6. CASE n < A /\ IsBlank(c) /\ w
  <2>. DEFINE d == [a EXCEPT ![n] = (i - 1) - b]
  <2>1. t = end_arg(p, i - 1)
    BY <1>2, <1>6 DEF Turn, ArgsLeft, A
  <2>2. (i - 1) - (b + 1) + 1 = (i - 1) - b
    OBVIOUS
  <2>3. t = [arg_idx |-> n + 1, in_arg |-> FALSE, buf_idx |-> 0, argv |-> d]
    BY <1>1, <2>1, <2>2 DEF end_arg
  <2>4. d \in [0 .. A - 1 -> Int] /\ n + 1 \in 0 .. A
    BY <1>3, <1>6
  <2>. HIDE DEF d, t
  <2>5. /\ t \in Locals /\ t.arg_idx = n + 1 /\ t.in_arg = FALSE /\ t.buf_idx = 0 /\ t.argv = d
    BY <2>3, <2>4 DEF Locals
  <2>6. QED
    BY <1>2, <1>6, <2>5, Zenon DEF d, t, Turned
<1>7. CASE n < A /\ ~IsBlank(c)
  <2>. DEFINE d == IF w THEN a ELSE [a EXCEPT ![n] = i - 1]
  <2>1. t = in_word(p, i - 1)
    BY <1>2, <1>7 DEF Turn, ArgsLeft, A
  <2>2. t = [arg_idx |-> n, in_arg |-> TRUE, buf_idx |-> b + 1, argv |-> d]
    BY <1>1, <2>1 DEF in_word
  <2>3. d \in [0 .. A - 1 -> Int]
    BY <1>3, <1>7
  <2>. HIDE DEF d, t
  <2>4. /\ t \in Locals /\ t.arg_idx = n /\ t.in_arg = TRUE /\ t.buf_idx = b + 1 /\ t.argv = d
    BY <2>2, <2>3 DEF Locals
  <2>5. (w => d = a) /\ (~w => d = [a EXCEPT ![n] = i - 1])
    BY DEF d
  <2>6. QED
    BY <1>2, <1>7, <2>4, <2>5, Zenon DEF t, Turned
<1>8. QED
  BY <1>2, <1>4, <1>5, <1>6, <1>7, Zenon

(* The loop that parse_loop defines. *)
LEMMA Loop ==
    ASSUME NEW s, NEW N \in Nat, Len(s) = N
    PROVE  /\ parse_loop(s) \in [0 .. N -> Locals]
           /\ parse_loop(s)[0] = Start
           /\ \A i \in 1 .. N :
                 parse_loop(s)[i] = Turn(parse_loop(s)[i - 1], i, s[i])
<1>. DEFINE e(f, i) == IF i = 0 THEN Start ELSE Turn(f[i - 1], i, s[i])
            g == [i \in 1 .. N |-> [p \in Locals |-> Turn(p, i, s[i])]]
            P == parse_loop(s)
<1>1. Start \in Locals
  BY ShellParseAssumption DEF Start, Locals, UNSET, A
<1>2. \A i \in 1 .. N : \A p \in Locals : Turn(p, i, s[i]) \in Locals
  <2>1. \A i \in 1 .. N : i \in Nat \ {0}
    OBVIOUS
  <2>2. QED
    BY <2>1, Turns, Zenon DEF Turned
<1>3. PICK f \in [0 .. N -> Locals] :
         f[0] = Start /\ \A i \in 1 .. N : f[i] = Turn(f[i - 1], i, s[i])
  <2>1. g \in Steps(Locals, N)
    BY <1>2 DEF Steps
  <2>. HIDE DEF g
  <2>2. Iterates(Locals, Start, N, g) # {}
    BY <1>1, <2>1, Recursion, Zenon
  <2>3. PICK f \in [0 .. N -> Locals] :
           f[0] = Start /\ \A i \in 1 .. N : f[i] = g[i][f[i - 1]]
    BY <2>2 DEF Iterates
  <2>4. \A i \in 1 .. N : f[i - 1] \in Locals
    OBVIOUS
  <2>5. \A i \in 1 .. N : \A p \in Locals : g[i][p] = Turn(p, i, s[i])
    BY DEF g
  <2>6. QED
    BY <2>3, <2>4, <2>5
<1>4. f = [i \in 0 .. N |-> e(f, i)]
  <2>1. \A i \in 0 .. N : i = 0 \/ i \in 1 .. N
    OBVIOUS
  <2>2. \A i \in 0 .. N : f[i] = e(f, i)
    BY <1>3, <2>1, Zenon
  <2>3. QED
    BY <2>2
<1>5. P = CHOOSE loop : loop = [i \in 0 .. N |-> e(loop, i)]
  BY Zenon DEF parse_loop, Start, Turn, A
<1>6. P = [i \in 0 .. N |-> e(P, i)]
  <2>. HIDE DEF P, e
  <2>1. QED
    BY <1>4, <1>5, Zenon
<1>. HIDE DEF P
<1>7. P[0] = Start /\ \A i \in 1 .. N : P[i] = Turn(P[i - 1], i, s[i])
  BY <1>6
<1>8. \A i \in 0 .. N : P[i] \in Locals
  <2>. DEFINE S == {i \in 0 .. N : P[i] \in Locals}
  <2>1. 0 \in S
    BY <1>1, <1>7
  <2>2. ASSUME NEW n \in 0 .. N - 1, n \in S PROVE n + 1 \in S
    <3>1. n + 1 \in 1 .. N /\ n + 1 \in 0 .. N /\ (n + 1) - 1 = n
      OBVIOUS
    <3>2. P[n + 1] = Turn(P[n], n + 1, s[n + 1]) /\ P[n] \in Locals
      BY <1>7, <2>2, <3>1
    <3>3. P[n + 1] \in Locals
      BY <1>2, <3>1, <3>2, Zenon
    <3>4. QED
      BY <3>1, <3>3
  <2>. HIDE DEF S
  <2>3. 0 .. N \subseteq S
    BY <2>1, <2>2, Induction
  <2>4. QED
    BY <2>3 DEF S
<1>9. P \in [0 .. N -> Locals]
  BY <1>6, <1>8
<1>10. QED
  BY <1>7, <1>9 DEF P

LEMMA Bounds ==
    ASSUME NEW s, NEW N \in Nat, Len(s) = N, NEW i \in 0 .. N
    PROVE  LET p == parse_loop(s)[i]
           IN  p \in Locals /\ p.buf_idx =< i /\ (p.in_arg => p.arg_idx < A)
<1>. DEFINE P == parse_loop(s)
            Good == {j \in 0 .. N : P[j].buf_idx =< j /\ (P[j].in_arg => P[j].arg_idx < A)}
<1>1. /\ P[0] = Start /\ \A j \in 0 .. N : P[j] \in Locals
      /\ \A j \in 1 .. N : P[j] = Turn(P[j - 1], j, s[j])
  BY Loop
<1>. HIDE DEF P
<1>2. 0 \in Good
  BY <1>1 DEF Start
<1>3. ASSUME NEW n \in 0 .. N - 1, n \in Good PROVE n + 1 \in Good
  <2>. DEFINE p == P[n]
              t == P[n + 1]
              c == s[n + 1]
  <2>1. /\ n + 1 \in 1 .. N /\ n + 1 \in 0 .. N /\ (n + 1) - 1 = n
        /\ n \in 0 .. N /\ n + 1 \in Nat \ {0}
    OBVIOUS
  <2>2. t = Turn(p, n + 1, c) /\ p \in Locals /\ t \in Locals
    BY <1>1, <2>1
  <2>3. p.buf_idx =< n /\ (p.in_arg => p.arg_idx < A)
    BY <1>3
  <2>. HIDE DEF p, t, c
  <2>4. Turned(p, t, n + 1, c)
    BY <2>1, <2>2, Turns, Zenon
  <2>5. p.buf_idx \in Nat
    BY <2>2 DEF Locals
  <2>6. t.buf_idx =< n + 1
    <3>1. p.buf_idx =< n + 1 /\ p.buf_idx + 1 =< n + 1 /\ 0 =< n + 1
      BY <2>3, <2>5
    <3>2. QED
      BY <2>4, <3>1, Zenon DEF Turned
  <2>7. t.in_arg => t.arg_idx < A
    BY <2>3, <2>4, Zenon DEF Turned
  <2>8. QED
    BY <2>1, <2>6, <2>7 DEF t
<1>. HIDE DEF Good
<1>4. 0 .. N \subseteq Good
  BY <1>2, <1>3, Induction
<1>5. QED
  BY <1>1, <1>4 DEF Good, P

LEMMA InBounds ==
    ASSUME NEW s \in Seq(Nat), Len(s) < SHELL_MAX_CMD_LEN
    PROVE  StaysInBounds(s)
<1>1. SUFFICES ASSUME NEW i \in 0 .. Len(s)
               PROVE  LET p == parse_loop(s)[i]
                      IN  /\ p.buf_idx < SHELL_MAX_CMD_LEN
                          /\ DOMAIN p.argv = 0 .. SHELL_MAX_ARGS - 1
                          /\ p.in_arg => p.arg_idx < SHELL_MAX_ARGS
  BY Zenon DEF StaysInBounds
<1>. DEFINE p == parse_loop(s)[i]
<1>2. Len(s) \in Nat
  OBVIOUS
<1>3. p \in Locals /\ p.buf_idx =< i /\ (p.in_arg => p.arg_idx < A)
  BY <1>2, Bounds
<1>. HIDE DEF p
<1>4. p.buf_idx < SHELL_MAX_CMD_LEN
  <2>1. p.buf_idx \in Nat
    BY <1>3 DEF Locals
  <2>2. QED
    BY <1>2, <1>3, <2>1, ShellParseAssumption
<1>5. DOMAIN p.argv = 0 .. A - 1
  BY <1>3 DEF Locals
<1>6. QED
  BY <1>3, <1>4, <1>5, Zenon DEF p, A
-----------------------------------------------------------------------------
(* The words that start before offset i, and one more. *)
Before(s, i) == {j \in WordStarts(s) : j < i}

LEMMA WordCount ==
    ASSUME NEW s, NEW N \in Nat, Len(s) = N
    PROVE  /\ Before(s, 1) = {} /\ Before(s, N + 1) = WordStarts(s)
           /\ \A i \in 1 .. N + 1 : Cardinality(Before(s, i)) \in Nat
           /\ \A i \in 1 .. N :
                 Cardinality(Before(s, i + 1)) =
                     Cardinality(Before(s, i)) + (IF i \in WordStarts(s) THEN 1 ELSE 0)
           /\ \A i, j \in WordStarts(s) :
                 i < j => Cardinality(Before(s, i)) < Cardinality(Before(s, j))
           /\ Cardinality({}) = 0
<1>. DEFINE W == WordStarts(s)
            B(i) == Before(s, i)
<1>1. W \subseteq 1 .. N
  BY DEF WordStarts
<1>. HIDE DEF W
<1>2. B(1) = {} /\ B(N + 1) = W
  BY <1>1 DEF Before, W
<1>3. IsFiniteSet(W)
  <2>1. IsFiniteSet(1 .. N)
    BY FS_Interval
  <2>. DEFINE T == 1 .. N
  <2>. HIDE DEF T
  <2>2. IsFiniteSet(T) /\ W \in SUBSET T
    BY <1>1, <2>1 DEF T
  <2>3. QED
    BY <2>2, FS_Subset, Zenon
<1>4. \A i \in Nat : IsFiniteSet(B(i)) /\ Cardinality(B(i)) \in Nat
  <2>1. \A i \in Nat : B(i) \subseteq W
    BY DEF Before, W
  <2>2. \A i \in Nat : IsFiniteSet(B(i))
    BY <1>3, <2>1, FS_Subset
  <2>. HIDE DEF B
  <2>3. QED
    BY <2>2, FS_CardinalityType
<1>5. \A i \in 1 .. N : IF i \in W THEN B(i + 1) = B(i) \cup {i} /\ i \notin B(i)
                        ELSE B(i + 1) = B(i)
  BY <1>1 DEF Before, W
<1>6. ASSUME NEW i \in 1 .. N
      PROVE  Cardinality(B(i + 1)) = Cardinality(B(i)) + (IF i \in W THEN 1 ELSE 0)
  <2>1. IsFiniteSet(B(i)) /\ Cardinality(B(i)) \in Nat
    BY <1>4
  <2>2. CASE i \in W
    <3>. DEFINE b == B(i)
    <3>1. B(i + 1) = b \cup {i} /\ i \notin b
      BY <1>5, <2>2
    <3>. HIDE DEF b, B
    <3>2. Cardinality(b \cup {i}) = Cardinality(b) + 1
      BY <2>1, <3>1, FS_AddElement DEF b
    <3>3. QED
      BY <2>2, <3>1, <3>2 DEF b
  <2>3. CASE i \notin W
    <3>1. B(i + 1) = B(i)
      BY <1>5, <2>3
    <3>. HIDE DEF B
    <3>2. QED
      BY <2>1, <2>3, <3>1
  <2>4. QED
    BY <2>2, <2>3
<1>7. ASSUME NEW i \in W, NEW j \in W, i < j
      PROVE  Cardinality(B(i)) < Cardinality(B(j))
  <2>1. i \in 1 .. N /\ j \in 1 .. N /\ i + 1 \in Nat /\ i \in Nat /\ j \in Nat
    BY <1>1
  <2>2. B(i + 1) \subseteq B(j)
    BY <1>1, <1>7 DEF Before, W
  <2>3. Cardinality(B(i + 1)) = Cardinality(B(i)) + 1
    BY <1>6, <2>1
  <2>. HIDE DEF B
  <2>4. Cardinality(B(i + 1)) =< Cardinality(B(j))
    BY <1>4, <2>1, <2>2, FS_Subset
  <2>5. QED
    BY <1>4, <2>1, <2>3, <2>4
<1>8. Cardinality({}) = 0
  BY FS_EmptySet
<1>9. QED
  BY <1>2, <1>4, <1>6, <1>7, <1>8 DEF W

(* The words that start among the first i characters of s; how many        *)
(* elements of argv are assigned; and whether one of them is right.        *)
Count(s, i) == Cardinality(Before(s, i + 1))
Found(p) == IF p.in_arg THEN p.arg_idx + 1 ELSE p.arg_idx
PointsTo(s, a, k) == a + 1 \in WordStarts(s) /\ Cardinality(Before(s, a + 1)) = k

(* What holds of the locals after i turns: as long as argv has room they   *)
(* tell whether the scan is inside a word, buf_idx is the length of the    *)
(* part of it that was passed, and argv has an element for each word.      *)
Scanned(s, i, p) ==
    \/ ~(p.arg_idx < A) /\ ~p.in_arg /\ Count(s, i) >= A
    \/ /\ p.arg_idx < A
       /\ p.in_arg <=> (i > 0 /\ ~IsBlank(s[i]))
       /\ Found(p) = Count(s, i)
       /\ p.in_arg => p.argv[p.arg_idx] = i - p.buf_idx
       /\ ~p.in_arg => p.buf_idx = 0
       /\ \A k \in 0 .. Found(p) - 1 : PointsTo(s, p.argv[k], k)

(* A turn keeps it. *)
LEMMA ScanTurn ==
    ASSUME NEW s, NEW N \in Nat, Len(s) = N, NEW i \in 0 .. N - 1,
           NEW p \in Locals, NEW t, Turned(p, t, i + 1, s[i + 1]), Scanned(s, i, p)
    PROVE  Scanned(s, i + 1, t)
<1>. DEFINE c == s[i + 1]
            W == WordStarts(s)
            n == p.arg_idx
            b == p.buf_idx
            a == p.argv
            C == Count(s, i)
            D == Count(s, i + 1)
            first == i + 1 \in W
<1>1. /\ n \in 0 .. A /\ p.in_arg \in BOOLEAN /\ b \in Nat /\ a \in [0 .. A - 1 -> Int]
      /\ A \in Nat \ {0} /\ i \in Nat /\ i + 1 \in 1 .. N /\ (i + 1) - 1 = i
  BY ShellParseAssumption DEF Locals, A
<1>2. C \in Nat /\ D \in Nat /\ (first => D = C + 1) /\ (~first => D = C)
  <2>1. i + 1 \in 1 .. N + 1 /\ (i + 1) + 1 \in 1 .. N + 1
    BY <1>1
  <2>2. /\ \A k \in 1 .. N + 1 : Cardinality(Before(s, k)) \in Nat
        /\ \A k \in 1 .. N :
              Cardinality(Before(s, k + 1)) =
                  Cardinality(Before(s, k)) + (IF k \in W THEN 1 ELSE 0)
    BY WordCount, Zenon
  <2>. HIDE DEF W
  <2>3. D = C + (IF first THEN 1 ELSE 0) /\ C \in Nat /\ D \in Nat
    BY <1>1, <2>1, <2>2, Zenon DEF Count
  <2>. HIDE DEF C, D, first
  <2>4. QED
    BY <2>3
<1>3. /\ first <=> ~IsBlank(c) /\ ~(i > 0 /\ ~IsBlank(s[i]))
      /\ i + 1 > 0
  <2>1. first <=> ~IsBlank(c) /\ (i + 1 = 1 \/ IsBlank(s[(i + 1) - 1]))
    BY <1>1 DEF WordStarts
  <2>2. (i + 1 = 1 <=> ~(i > 0)) /\ i + 1 > 0
    BY <1>1
  <2>3. QED
    BY <1>1, <2>1, <2>2, Zenon
<1>. HIDE DEF W, C, D, first, c, n, b, a
<1>4. CASE ~(n < A)
  <2>1. t = p
    BY <1>4, Zenon DEF Turned, n
  <2>2. ~p.in_arg /\ C >= A
    BY <1>4, Zenon DEF Scanned, C, n, b, a
  <2>3. D >= A
    BY <1>1, <1>2, <2>2
  <2>4. QED
    BY <1>4, <2>1, <2>2, <2>3, Zenon DEF Scanned, D, n
<1>5. CASE n < A
  <2>1. /\ p.in_arg <=> (i > 0 /\ ~IsBlank(s[i]))
        /\ Found(p) = C
        /\ p.in_arg => a[n] = i - b
        /\ ~p.in_arg => b = 0
        /\ \A k \in 0 .. Found(p) - 1 : PointsTo(s, a[k], k)
    BY <1>5, Zenon DEF Scanned, C, n, b, a
  <2>2. CASE IsBlank(c) /\ ~p.in_arg
    <3>1. t = p
      BY <1>5, <2>2, Zenon DEF Turned, c, n, b, a
    <3>2. D = C
      BY <1>2, <1>3, <2>2, Zenon
    <3>3. QED
      BY <1>5, <2>1, <2>2, <3>1, <3>2, Zenon DEF Scanned, D, c, n, b, a
  <2>3. CASE IsBlank(c) /\ p.in_arg
    <3>1. /\ t.arg_idx = n + 1 /\ t.in_arg = FALSE /\ t.buf_idx = 0
          /\ t.argv = [a EXCEPT ![n] = ((i + 1) - 1) - b]
      BY <1>5, <2>3, Zenon DEF Turned, c, n, b, a
    <3>2. D = C
      BY <1>2, <1>3, <2>3, Zenon
    <3>3. t.argv = a
      <4>1. ((i + 1) - 1) - b = a[n]
        BY <1>1, <2>1, <2>3, Zenon
      <4>2. [a EXCEPT ![n] = a[n]] = a
        BY <1>1
      <4>3. QED
        BY <3>1, <4>1, <4>2, Zenon
    <3>4. Found(t) = n + 1 /\ Found(p) = n + 1
      BY <2>3, <3>1 DEF Found, n
    <3>5. CASE n + 1 < A
      BY <2>1, <2>3, <3>1, <3>2, <3>3, <3>4, <3>5, Zenon DEF Scanned, D, c, n, b, a
    <3>6. CASE ~(n + 1 < A)
      <4>1. D >= A
        BY <1>1, <2>1, <3>2, <3>4, <3>6
      <4>2. QED
        BY <3>1, <3>6, <4>1, Zenon DEF Scanned, D, n
    <3>7. QED
      BY <3>5, <3>6
  <2>4. CASE ~IsBlank(c) /\ p.in_arg
    <3>1. /\ t.arg_idx = n /\ t.in_arg = TRUE /\ t.buf_idx = b + 1 /\ t.argv = a
      BY <1>5, <2>4, Zenon DEF Turned, c, n, b, a
    <3>2. D = C
      BY <1>2, <1>3, <2>1, <2>4, Zenon
    <3>3. Found(t) = Found(p)
      BY <2>4, <3>1, Zenon DEF Found, n
    <3>4. a[n] = (i + 1) - (b + 1)
      <4>1. a[n] = i - b
        BY <2>1, <2>4, Zenon
      <4>2. i - b = (i + 1) - (b + 1)
        BY <1>1
      <4>3. QED
        BY <4>1, <4>2, Zenon
    <3>5. QED
      BY <1>3, <1>5, <2>1, <2>4, <3>1, <3>2, <3>3, <3>4, Zenon DEF Scanned, D, c, n, b, a
  <2>5. CASE ~IsBlank(c) /\ ~p.in_arg
    <3>1. /\ t.arg_idx = n /\ t.in_arg = TRUE /\ t.buf_idx = b + 1
          /\ t.argv = [a EXCEPT ![n] = (i + 1) - 1]
      BY <1>5, <2>5, Zenon DEF Turned, c, n, b, a
    <3>2. D = C + 1 /\ first
      BY <1>2, <1>3, <2>1, <2>5, Zenon
    <3>3. Found(t) = n + 1 /\ Found(p) = n
      BY <2>5, <3>1, Zenon DEF Found, n
    <3>4. /\ t.argv[n] = i /\ t.argv[n] = (i + 1) - (b + 1)
          /\ \A k \in 0 .. n - 1 : t.argv[k] = a[k]
      <4>1. b = 0 /\ (i + 1) - (0 + 1) = i
        <5>1. b = 0
          BY <2>1, <2>5, Zenon
        <5>2. QED
          BY <1>1, <5>1
      <4>2. n \in 0 .. A - 1 /\ \A k \in 0 .. n - 1 : k \in 0 .. A - 1 /\ k # n
        BY <1>1, <1>5
      <4>. DEFINE d == [a EXCEPT ![n] = i]
      <4>3. d[n] = i /\ \A k \in 0 .. n - 1 : d[k] = a[k]
        BY <1>1, <4>2
      <4>4. t.argv = d
        BY <1>1, <3>1, Zenon
      <4>5. QED
        BY <4>1, <4>3, <4>4, Zenon
    <3>5. PointsTo(s, i, n)
      BY <2>1, <3>2, <3>3 DEF PointsTo, C, Count, first, W
    <3>6. \A k \in 0 .. Found(t) - 1 : PointsTo(s, t.argv[k], k)
      <4>1. \A k \in 0 .. (n + 1) - 1 : k \in 0 .. n - 1 \/ k = n
        BY <1>1
      <4>2. QED
        BY <2>1, <3>3, <3>4, <3>5, <4>1, Zenon
    <3>7. Found(t) = D
      BY <2>1, <3>2, <3>3
    <3>8. QED
      BY <1>3, <1>5, <2>5, <3>1, <3>4, <3>6, <3>7, Zenon DEF Scanned, D, c, n, b, a
  <2>6. QED
    BY <2>2, <2>3, <2>4, <2>5, Zenon
<1>6. QED
  BY <1>4, <1>5

LEMMA Scan ==
    ASSUME NEW s, NEW N \in Nat, Len(s) = N, NEW i \in 0 .. N
    PROVE  parse_loop(s)[i] \in Locals /\ Scanned(s, i, parse_loop(s)[i])
<1>. DEFINE P == parse_loop(s)
            Good == {j \in 0 .. N : Scanned(s, j, P[j])}
<1>1. /\ P[0] = Start /\ \A j \in 0 .. N : P[j] \in Locals
      /\ \A j \in 1 .. N : P[j] = Turn(P[j - 1], j, s[j])
  BY Loop
<1>. HIDE DEF P
<1>2. 0 \in Good
  <2>1. Start.arg_idx = 0 /\ Start.in_arg = FALSE /\ Start.buf_idx = 0 /\ 0 < A
    BY ShellParseAssumption DEF Start, A
  <2>2. Found(Start) = 0 /\ Count(s, 0) = 0
    <3>1. Before(s, 1) = {} /\ Cardinality({}) = 0 /\ 0 + 1 = 1
      BY WordCount
    <3>2. QED
      BY <2>1, <3>1, Zenon DEF Found, Count
  <2>3. 0 .. 0 - 1 = {} /\ ~(0 > 0) /\ 0 \in 0 .. N
    OBVIOUS
  <2>4. Scanned(s, 0, Start)
    BY <2>1, <2>2, <2>3, Zenon DEF Scanned
  <2>5. QED
    BY <1>1, <2>3, <2>4
<1>3. ASSUME NEW n \in 0 .. N - 1, n \in Good PROVE n + 1 \in Good
  <2>1. /\ n + 1 \in 1 .. N /\ n + 1 \in 0 .. N /\ (n + 1) - 1 = n
        /\ n \in 0 .. N /\ n + 1 \in Nat \ {0}
    OBVIOUS
  <2>2. P[n + 1] = Turn(P[n], n + 1, s[n + 1]) /\ P[n] \in Locals /\ Scanned(s, n, P[n])
    BY <1>1, <1>3, <2>1
  <2>3. Turned(P[n], P[n + 1], n + 1, s[n + 1])
    BY <2>1, <2>2, Turns, Zenon
  <2>4. Scanned(s, n + 1, P[n + 1])
    BY <2>2, <2>3, ScanTurn, Zenon
  <2>5. QED
    BY <2>1, <2>4
<1>. HIDE DEF Good
<1>4. 0 .. N \subseteq Good
  BY <1>2, <1>3, Induction
<1>5. QED
  BY <1>1, <1>4 DEF Good, P

LEMMA WordStartIs ==
    ASSUME NEW s, NEW N \in Nat, Len(s) = N, NEW a, NEW k, PointsTo(s, a, k)
    PROVE  WordStart(s, k) = a + 1
<1>. DEFINE W == WordStarts(s)
            B(i) == Before(s, i)
            w == WordStart(s, k)
<1>1. a + 1 \in W /\ Cardinality(B(a + 1)) = k
  BY DEF PointsTo
<1>2. w \in W /\ Cardinality(B(w)) = k
  <2>1. w = CHOOSE i \in W : k = Cardinality(B(i))
    BY Zenon DEF WordStart, Before
  <2>. HIDE DEF w, W, B
  <2>2. QED
    BY <1>1, <2>1, Zenon
<1>. HIDE DEF w
<1>3. /\ W \subseteq 1 .. N
      /\ \A i \in 1 .. N + 1 : Cardinality(B(i)) \in Nat
      /\ \A i, j \in W : i < j => Cardinality(B(i)) < Cardinality(B(j))
  BY WordCount DEF WordStarts
<1>. HIDE DEF W, B
<1>4. w \in 1 .. N /\ a + 1 \in 1 .. N
  BY <1>1, <1>2, <1>3
<1>5. k \in Nat
  BY <1>2, <1>3, <1>4
<1>6. ~(w < a + 1) /\ ~(a + 1 < w)
  <2>1. ~(k < k)
    BY <1>5
  <2>2. QED
    BY <1>1, <1>2, <1>3, <2>1, Zenon
<1>7. QED
  BY <1>4, <1>6 DEF w

(* What shell_parse_args returns, for any line. *)
LEMMA ParsedWords ==
    ASSUME NEW s, NEW N \in Nat, Len(s) = N
    PROVE  LET r == shell_parse_args(s)
               n == Cardinality(WordStarts(s))
           IN  /\ n \in Nat /\ r.argv \in [0 .. A - 1 -> Int]
               /\ r.ok <=> n < A
               /\ r.ok => /\ r.argc = n
                          /\ \A k \in 0 .. n - 1 : PointsTo(s, r.argv[k], k)
<1>. DEFINE p == parse_loop(s)[N]
            n == Cardinality(WordStarts(s))
            r == shell_parse_args(s)
<1>1. p \in Locals /\ Scanned(s, N, p)
  BY Scan
<1>2. Count(s, N) = n /\ n \in Nat
  <2>1. N + 1 \in 1 .. N + 1
    OBVIOUS
  <2>2. QED
    BY <2>1, WordCount, Zenon DEF Count
<1>3. r = [argc |-> Found(p), argv |-> p.argv, ok |-> Found(p) < A]
  BY Zenon DEF shell_parse_args, Found, A
<1>. HIDE DEF p, r, n
<1>4. r.argc = Found(p) /\ r.argv = p.argv /\ (r.ok <=> Found(p) < A)
  BY <1>3
<1>5. p.arg_idx \in 0 .. A /\ p.argv \in [0 .. A - 1 -> Int] /\ A \in Nat
  BY <1>1, ShellParseAssumption DEF Locals, A
<1>6. CASE ~(p.arg_idx < A)
  <2>1. ~p.in_arg /\ n >= A
    BY <1>1, <1>2, <1>6, Zenon DEF Scanned
  <2>2. Found(p) = p.arg_idx
    BY <2>1 DEF Found
  <2>3. ~(Found(p) < A) /\ ~(n < A)
    BY <1>2, <1>5, <1>6, <2>1, <2>2
  <2>4. QED
    BY <1>2, <1>4, <1>5, <2>3, Zenon DEF r, n
<1>7. CASE p.arg_idx < A
  <2>1. /\ Found(p) = n
        /\ \A k \in 0 .. Found(p) - 1 : PointsTo(s, p.argv[k], k)
    BY <1>1, <1>2, <1>7, Zenon DEF Scanned
  <2>2. QED
    BY <1>2, <1>4, <1>5, <2>1, Zenon DEF r, n
<1>8. QED
  BY <1>6, <1>7

LEMMA ArgvFound ==
    ASSUME NEW s \in Seq(Nat)
    PROVE  ArgvAtStarts(s)
<1>. DEFINE args == shell_parse_args(s)
<1>1. Len(s) \in Nat
  OBVIOUS
<1>2. /\ args.ok <=> Words(s) < A
      /\ args.ok => /\ args.argc = Words(s)
                    /\ \A k \in 0 .. Words(s) - 1 : PointsTo(s, args.argv[k], k)
  BY <1>1, ParsedWords, Zenon DEF Words
<1>3. \A k : PointsTo(s, args.argv[k], k) =>
                WordStart(s, k) = args.argv[k] + 1
  BY <1>1, WordStartIs, Zenon
<1>4. /\ Words(s) < SHELL_MAX_ARGS => args.ok
      /\ Words(s) > SHELL_MAX_ARGS => ~args.ok
  <2>1. Words(s) \in Nat
    BY <1>1, ParsedWords, Zenon DEF Words
  <2>2. QED
    BY <1>2, <2>1, ShellParseAssumption DEF A
<1>5. QED
  BY <1>2, <1>3, <1>4, Zenon DEF ArgvAtStarts

LEMMA Greatest ==
    ASSUME NEW N \in Nat, NEW S \in SUBSET (0 .. N), S # {}
    PROVE  \E m \in S : \A y \in S : y =< m
<1>. DEFINE T == {N - y : y \in S}
<1>1. T \in SUBSET Nat /\ T # {}
  <2>1. \A y \in S : N - y \in Nat
    OBVIOUS
  <2>2. PICK y \in S : TRUE
    OBVIOUS
  <2>3. N - y \in T
    OBVIOUS
  <2>4. T \subseteq Nat
    BY <2>1
  <2>5. QED
    BY <2>3, <2>4
<1>. HIDE DEF T
<1>2. PICK t \in T : \A y \in T : t =< y
  BY <1>1, Least
<1>3. PICK m \in S : t = N - m
  BY DEF T
<1>4. ASSUME NEW y \in S PROVE y =< m
  <2>1. N - m =< N - y
    BY <1>2, <1>3 DEF T
  <2>2. QED
    BY <2>1
<1>5. QED
  BY <1>4

(* A word begins with the character at its start. *)
LEMMA FirstLetter ==
    ASSUME NEW s \in Seq(Nat), NEW w \in WordStarts(s)
    PROVE  WordAt(s, w)[1] = s[w] /\ ArgString(s, w - 1)[1] = s[w]
<1>. DEFINE N == Len(s)
            ends == {j \in w .. N : \A k \in w .. j : ~IsBlank(s[k])}
            e == CHOOSE j \in ends : \A k \in ends : k =< j
<1>1. N \in Nat /\ w \in 1 .. N /\ ~IsBlank(s[w])
  BY DEF WordStarts
<1>2. w \in ends
  BY <1>1
<1>3. ends \in SUBSET (0 .. N)
  BY <1>1
<1>4. e \in ends
  <2>. HIDE DEF ends
  <2>1. \E m \in ends : \A k \in ends : k =< m
    BY <1>1, <1>2, <1>3, Greatest
  <2>2. QED
    BY <2>1
<1>5. WordAt(s, w) = SubSeq(s, w, e)
  BY DEF WordAt
<1>. HIDE DEF e
<1>6. e \in w .. N
  BY <1>4
<1>7. SubSeq(s, w, e)[1] = s[w] /\ SubSeq(s, (w - 1) + 1, N)[1] = s[w]
  BY <1>1, <1>6
<1>8. QED
  BY <1>5, <1>7 DEF ArgString

LEMMA NamesRun ==
    ASSUME NEW s \in Seq(Nat)
    PROVE  RunsNamed(s)
<1>. DEFINE a == shell_parse_args(s)
            w == WordStart(s, 0)
            arg0 == ArgString(s, a.argv[0])
            Heard(c) == commands[c].name[1]
<1>1. SUFFICES ASSUME NEW c \in DOMAIN commands, Words(s) > 0, a.ok,
                      WordAt(s, w) = commands[c].name
               PROVE  shell_execute(s) = commands[c].handler
  BY Zenon DEF RunsNamed
<1>2. Len(s) \in Nat
  OBVIOUS
<1>3. /\ Words(s) \in Nat /\ Words(s) < A /\ a.argc = Words(s)
      /\ a.argv \in [0 .. A - 1 -> Int]
      /\ \A k \in 0 .. Words(s) - 1 : PointsTo(s, a.argv[k], k)
  BY <1>1, <1>2, ParsedWords, Zenon DEF Words
<1>4. 0 \in 0 .. Words(s) - 1 /\ A \in Nat /\ 0 \in 0 .. A - 1
  BY <1>1, <1>3, ShellParseAssumption DEF A
<1>. HIDE DEF a
<1>5. PointsTo(s, a.argv[0], 0) /\ a.argv[0] \in Int
  BY <1>3, <1>4
<1>6. w = a.argv[0] + 1 /\ w \in WordStarts(s)
  <2>1. WordStart(s, 0) = a.argv[0] + 1
    BY <1>2, <1>5, WordStartIs, Zenon
  <2>2. QED
    BY <1>5, <2>1, Zenon DEF PointsTo
<1>. HIDE DEF w
<1>7. w - 1 = a.argv[0]
  BY <1>5, <1>6
<1>8. WordAt(s, w)[1] = s[w] /\ arg0[1] = s[w]
  BY <1>6, <1>7, FirstLetter, Zenon
<1>. HIDE DEF arg0
<1>9. arg0[1] = Heard(c)
  BY <1>1, <1>8, Zenon
<1>10. \A d \in DOMAIN commands : Heard(d) = Heard(c) => d = c
  <2>1. DOMAIN commands = 1 .. 9
    BY DEF commands
  <2>2. Heard(1) = 104 /\ Heard(2) = 101 /\ Heard(3) = 99
    BY DEF commands
  <2>3. Heard(4) = 109 /\ Heard(5) = 112 /\ Heard(6) = 117
    BY DEF commands
  <2>4. Heard(7) = 114 /\ Heard(8) = 108 /\ Heard(9) = 105
    BY DEF commands
  <2>. HIDE DEF Heard
  <2>. DEFINE code(d) == CASE d = 1 -> 104 [] d = 2 -> 101 [] d = 3 -> 99
                           [] d = 4 -> 109 [] d = 5 -> 112 [] d = 6 -> 117
                           [] d = 7 -> 114 [] d = 8 -> 108 [] d = 9 -> 105
  <2>5. ASSUME NEW d \in 1 .. 9 PROVE Heard(d) = code(d)
    <3>1. \/ d = 1 \/ d = 2 \/ d = 3 \/ d = 4 \/ d = 5 \/ d = 6 \/ d = 7 \/ d = 8 \/ d = 9
      OBVIOUS
    <3>2. QED
      BY <2>2, <2>3, <2>4, <3>1
  <2>6. \A d, f \in 1 .. 9 : code(d) = code(f) => d = f
    OBVIOUS
  <2>. HIDE DEF code
  <2>7. QED
    BY <2>1, <2>5, <2>6, Zenon
<1>. DEFINE found == {i \in DOMAIN commands : Matches(commands[i], arg0)}
<1>11. found = {c}
  <2>. HIDE DEF Heard
  <2>1. \A d \in DOMAIN commands :
           Matches(commands[d], arg0) <=> Heard(d) = Heard(c)
    BY <1>9, Zenon DEF Matches, Heard
  <2>2. QED
    BY <1>10, <2>1
<1>12. s # <<>> /\ a.argc # 0
  <2>1. s # <<>>
    BY <1>6 DEF WordStarts
  <2>2. QED
    BY <1>1, <1>3, <2>1
<1>13. (CHOOSE i \in found : \A j \in found : i =< j) = c
  <2>1. c \in Int
    BY DEF commands
  <2>. HIDE DEF found
  <2>2. QED
    BY <1>11, <2>1
<1>14. shell_execute(s) =
         IF s = <<>> THEN "nothing"
         ELSE IF ~a.ok THEN "too many arguments"
         ELSE IF a.argc = 0 THEN "nothing"
         ELSE IF found = {} THEN "not found"
         ELSE commands[CHOOSE i \in found : \A j \in found : i =< j].handler
  BY Zenon DEF shell_execute, a, arg0
<1>. HIDE DEF found
<1>15. found # {}
  BY <1>11
<1>16. QED
  BY <1>1, <1>12, <1>13, <1>14, <1>15, Zenon
-----------------------------------------------------------------------------
(* The string that shell_execute gets is the len characters that were read. *)
LEMMA ExecutedLine ==
    ASSUME Inv, mode = "execute"
    PROVE  CString \in Seq(Nat) /\ Len(CString) = len /\ len < SHELL_MAX_CMD_LEN
<1>. DEFINE first(i) == cmdline[i] = 0 /\ \A j \in 0 .. i - 1 : cmdline[j] # 0
            nul == CHOOSE i \in Index : first(i)
<1>1. /\ len \in Index /\ cmdline[len] = 0
      /\ \A i \in 0 .. len - 1 : cmdline[i] \in LineChars
  BY Zenon DEF Inv, TypeOK, ReadInv
<1>2. LineChars \subseteq Nat \ {0}
  BY CharCodes DEF LineChars
<1>3. len \in Nat /\ len < SHELL_MAX_CMD_LEN /\ Index \subseteq Nat
  BY <1>1, ShellParseAssumption DEF Index
<1>4. \A i \in 0 .. len - 1 : cmdline[i] \in Nat /\ cmdline[i] # 0
  BY <1>1, <1>2
<1>5. first(len)
  BY <1>1, <1>4
<1>6. \A i \in Index : first(i) => i = len
  <2>. SUFFICES ASSUME NEW i \in Index, first(i), i # len PROVE FALSE
    OBVIOUS
  <2>1. i \in 0 .. len - 1 \/ len \in 0 .. i - 1
    BY <1>3
  <2>2. QED
    BY <1>1, <1>4, <2>1
<1>. HIDE DEF first
<1>7. nul = len
  BY <1>1, <1>5, <1>6, Zenon
<1>8. CString = [i \in 1 .. len |-> cmdline[i - 1]]
  BY <1>7, Zenon DEF CString, first
<1>9. \A i \in 1 .. len : cmdline[i - 1] \in Nat
  <2>1. \A i \in 1 .. len : i - 1 \in 0 .. len - 1
    BY <1>3
  <2>2. QED
    BY <1>4, <2>1
<1>10. QED
  BY <1>3, <1>8, <1>9

(* Every line that reaches shell_execute, whatever keys were pressed while *)
(* it was read, is parsed inside the arrays with argv at the starts of its *)
(* words, and runs the command it names; for every size of the line, of the ring and of    *)
(* argv.                                                                   *)
THEOREM ShellParses ==
    Spec => [](mode = "execute" =>
                  StaysInBounds(CString) /\ ArgvAtStarts(CString) /\ RunsNamed(CString))
<1>1. ASSUME Inv, mode = "execute"
      PROVE  StaysInBounds(CString) /\ ArgvAtStarts(CString) /\ RunsNamed(CString)
  <2>1. CString \in Seq(Nat) /\ Len(CString) < SHELL_MAX_CMD_LEN
    BY <1>1, ExecutedLine
  <2>2. QED
    BY <2>1, InBounds, ArgvFound, NamesRun
<1>2. QED
  BY <1>1, InitInv, NextInv, PTL DEF Spec
-----------------------------------------------------------------------------
(* The same of every line over any alphabet, which is what ShellLines      *)
(* states.                                                                 *)
LinesInv == line \in Seq(Alphabet) /\ Len(line) <= MaxLen

LEMMA LinesInvariant == LinesSpec => []LinesInv
<1>1. LinesInit => LinesInv
  BY LinesAssumption DEF LinesInit, LinesInv
<1>2. LinesInv /\ [LinesNext]_line => LinesInv'
  <2>. SUFFICES ASSUME LinesInv, [LinesNext]_line PROVE LinesInv'
    OBVIOUS
  <2>1. CASE Type
    <3>1. PICK c \in Alphabet : line' = Append(line, c)
      BY <2>1 DEF Type
    <3>2. line \in Seq(Alphabet) /\ Len(line) < MaxLen
      BY <2>1 DEF Type, LinesInv
    <3>3. line' \in Seq(Alphabet) /\ Len(line') = Len(line) + 1
      BY <3>1, <3>2, AppendProperties, Zenon
    <3>4. Len(line) \in Nat
      BY <3>2
    <3>5. QED
      BY <3>2, <3>3, <3>4, LinesAssumption DEF LinesInv
  <2>2. CASE Enter
    BY <2>2, LinesAssumption DEF Enter, LinesInv
  <2>3. CASE UNCHANGED line
    BY <2>3 DEF LinesInv
  <2>4. QED
    BY <2>1, <2>2, <2>3 DEF LinesNext
<1>3. QED
  BY <1>1, <1>2, PTL DEF LinesSpec

LEMMA LineFits ==
    ASSUME LinesInv PROVE line \in Seq(Nat) /\ Len(line) < SHELL_MAX_CMD_LEN
<1>1. line \in Seq(Alphabet) /\ Len(line) <= MaxLen /\ Len(line) \in Nat
  BY DEF LinesInv
<1>2. \A i \in 1 .. Len(line) : line[i] \in Nat
  <2>1. \A i \in 1 .. Len(line) : line[i] \in Alphabet
    BY <1>1, ElementOfSeq, Zenon
  <2>2. QED
    BY <2>1, LinesAssumption
<1>3. line = [i \in 1 .. Len(line) |-> line[i]]
  BY <1>1
<1>4. line \in Seq(Nat)
  BY <1>1, <1>2, <1>3
<1>5. QED
  BY <1>1, <1>4, LinesAssumption, ShellParseAssumption

(* No turn of shell_parse_args' loop leaves its scratch buffer or argv,    *)
(* for any line that fits in cmdline.                                      *)
THEOREM LinesBounds == LinesSpec => []ParseInBounds
<1>1. LinesInv => ParseInBounds
  BY LineFits, InBounds, Zenon DEF ParseInBounds
<1>2. QED
  BY <1>1, LinesInvariant, PTL

(* argc that shell_parse_args computes from a line is the number of its    *)
(* words and argv is where they start; fewer words than SHELL_MAX_ARGS are *)
(* accepted and more are refused.                                          *)
THEOREM LinesWords == LinesSpec => []ArgvStartsAtWords
<1>1. LinesInv => ArgvStartsAtWords
  BY LineFits, ArgvFound, Zenon DEF ArgvStartsAtWords
<1>2. QED
  BY <1>1, LinesInvariant, PTL

(* A line that begins with the name of a command runs that command, though *)
(* shell_execute compares first letters only.                              *)
THEOREM LinesNames == LinesSpec => []NamesRunTheirHandler
<1>1. LinesInv => NamesRunTheirHandler
  BY LineFits, NamesRun, Zenon DEF NamesRunTheirHandler
<1>2. QED
  BY <1>1, LinesInvariant, PTL
=============================================================================
