------------------------------- MODULE Shell --------------------------------
(***************************************************************************)
(* The shell's loop over the keyboard driver: shell_run, shell_read_line   *)
(* and the dispatch of shell_execute, src/kernel/shell/shell.c, reading    *)
(* characters through kbd_getchar while keyboard interrupts come.          *)
(*                                                                         *)
(* The keyboard's variables and steps are those of the module Keyboard;    *)
(* the caller it leaves open is shell_read_line here.  What the handlers   *)
(* print is left out; cmd_reboot disables interrupts and never returns.    *)
(* typed is a history variable: no step depends on it.                     *)
(***************************************************************************)
EXTENDS ShellParse

CONSTANTS KBD_BUFFER_SIZE, Keys, ExtKeys   \* the keyboard driver's

ASSUME ShellAssumption ==
    /\ KBD_BUFFER_SIZE \in Nat /\ KBD_BUFFER_SIZE >= 2
    /\ Keys \subseteq 0 .. 127
    /\ ExtKeys \subseteq 0 .. 127 /\ ExtKeys \cap {42, 54} = {}

VARIABLES buffer, head, tail, shift_pressed, ctrl_pressed, down, fake_shift,
          pending, pc, ch,
          cmdline,   \* shell_run's array of SHELL_MAX_CMD_LEN characters
          len,       \* shell_read_line's local, then its result
          mode,      \* "read", "execute", or "halted" in cmd_reboot
          typed      \* what the user typed since the last line, corrected

K == INSTANCE Keyboard

kbd_vars == <<buffer, head, tail, shift_pressed, ctrl_pressed, down, fake_shift,
              pending, pc, ch>>
vars == <<kbd_vars, cmdline, len, mode, typed>>

Index    == 0 .. SHELL_MAX_CMD_LEN - 1
max_len  == SHELL_MAX_CMD_LEN
NEWLINE  == {10, 13}
BACKSPACE == 8
GARBAGE  == 1     \* what the stack held before shell_run

(* cmdline is not initialized. *)
Init ==
    /\ K!Init
    /\ cmdline \in [Index -> {0, GARBAGE}]
    /\ len = 0 /\ mode = "read" /\ typed = <<>>

(* shell_read_line sees what kbd_getchar returned. *)
Returned == mode = "read" /\ pc = "return"

read_nothing ==
    /\ Returned /\ ch = 0
    /\ K!poll
    /\ UNCHANGED <<cmdline, len, mode, typed>>

(* buffer[len] = '\0' *)
terminate(line, n) == [line EXCEPT ![n] = 0]

(* The line is finished; an empty one is not executed. *)
read_newline ==
    /\ Returned /\ ch \in NEWLINE
    /\ cmdline' = terminate(cmdline, len)
    /\ \/ len > 0 /\ mode' = "execute" /\ UNCHANGED kbd_vars
       \/ len = 0 /\ K!poll /\ UNCHANGED mode
    /\ UNCHANGED <<len, typed>>

read_backspace ==
    /\ Returned /\ ch = BACKSPACE
    /\ len' = IF len > 0 THEN len - 1 ELSE len
    /\ typed' = IF typed # <<>> THEN SubSeq(typed, 1, Len(typed) - 1) ELSE typed
    /\ K!poll
    /\ UNCHANGED <<cmdline, mode>>

(* The test of the while loop. *)
LineHasRoom(n) == n < max_len - 1

(* A character is stored; when the line is full the loop ends. *)
read_char ==
    /\ Returned /\ ch \notin NEWLINE \cup {0, BACKSPACE}
    /\ len' = len + 1
    /\ typed' = Append(typed, ch)
    /\ LET stored == [cmdline EXCEPT ![len] = ch]
       IN  \/ /\ LineHasRoom(len + 1)
              /\ cmdline' = stored
              /\ K!poll /\ UNCHANGED mode
           \/ /\ ~LineHasRoom(len + 1)
              /\ cmdline' = terminate(stored, len + 1)
              /\ mode' = "execute" /\ UNCHANGED kbd_vars

shell_read_line ==
    read_nothing \/ read_newline \/ read_backspace \/ read_char

(* The C string in cmdline: the characters before the first NUL. *)
CString ==
    LET nul == CHOOSE i \in Index : cmdline[i] = 0 /\ \A j \in 0 .. i - 1 : cmdline[j] # 0
    IN  [i \in 1 .. nul |-> cmdline[i - 1]]

(* Mutant: the command never returns. *)
run_line_stay ==
    /\ mode = "execute"
    /\ UNCHANGED vars

(* Mutant: the next line starts where this one ended. *)
run_line_keeps ==
    /\ mode = "execute"
    /\ mode' = IF shell_execute(CString) = "cmd_reboot" THEN "halted" ELSE "read"
    /\ typed' = <<>>
    /\ K!poll
    /\ UNCHANGED <<cmdline, len>>

(* shell_run: execute the line and prompt for the next one. *)
run_line ==
    /\ mode = "execute"
    /\ mode' = IF shell_execute(CString) = "cmd_reboot" THEN "halted" ELSE "read"
    /\ len' = 0 /\ typed' = <<>>
    /\ K!poll
    /\ UNCHANGED cmdline

(* kbd_getchar and the keyboard's interrupts; cmd_reboot disables them. *)
getchar ==
    /\ mode = "read" /\ K!kbd_getchar
    /\ UNCHANGED <<cmdline, len, mode, typed>>

Interrupts ==
    /\ mode # "halted" /\ K!Interrupts
    /\ UNCHANGED <<cmdline, len, mode, typed>>

shell_run == getchar \/ shell_read_line \/ run_line
Next == Interrupts \/ shell_run

(* shell_run is an endless loop that no interrupt handler leaves. *)
Spec == Init /\ [][Next]_vars /\ WF_vars(shell_run)
-----------------------------------------------------------------------------
TypeOK ==
    /\ K!TypeOK
    /\ cmdline \in [Index -> K!AllChars \cup {0, GARBAGE}]
    /\ len \in Index
    /\ mode \in {"read", "execute", "halted"}
    /\ typed \in Seq(K!AllChars)

(* When shell_execute gets the line, the C string in cmdline is what was   *)
(* typed since the line before it was executed, each backspace taking back *)
(* one character: no NUL among the characters, whatever the driver         *)
(* delivered, one after them inside the array, and nothing of an earlier   *)
(* or uninitialized line.                                                  *)
LineAsTyped ==
    /\ TypeOK
    /\ mode = "execute" =>
        /\ Len(typed) \in Index /\ cmdline[Len(typed)] = 0
        /\ \A i \in 1 .. Len(typed) : cmdline[i - 1] = typed[i] /\ typed[i] # 0

(* An Enter that waits in the keyboard buffer reaches shell_read_line,     *)
(* past the commands that are executed before it, unless the machine is    *)
(* rebooted first.                                                         *)
EnterArrives ==
    (\E i \in 1 .. K!UnreadLen : K!Unread[i] = 10)
        ~> ((Returned /\ ch = 10) \/ mode = "halted")
=============================================================================
