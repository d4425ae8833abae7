----------------------------- MODULE ShellLines -----------------------------
(* What must hold of how the shell takes a command line apart, and every   *)
(* line of up to MaxLen characters, typed one at a time.                   *)
EXTENDS ShellParse

CONSTANTS Alphabet,   \* the characters of the lines
          MaxLen      \* the longest line, SHELL_MAX_CMD_LEN - 1

ASSUME LinesAssumption ==
    /\ Alphabet \subseteq Nat
    /\ MaxLen \in Nat /\ MaxLen < SHELL_MAX_CMD_LEN

VARIABLE line

LinesInit == line = <<>>
Type == Len(line) < MaxLen /\ \E c \in Alphabet : line' = Append(line, c)
Enter == line # <<>> /\ line' = <<>>
LinesNext == Type \/ Enter
LinesSpec == LinesInit /\ [][LinesNext]_line
-----------------------------------------------------------------------------
Words(s) == Cardinality(WordStarts(s))

ArgvAtStarts(s) ==
    LET args == shell_parse_args(s)
    IN  /\ Words(s) < SHELL_MAX_ARGS => args.ok
        /\ Words(s) > SHELL_MAX_ARGS => ~args.ok
        /\ args.ok => /\ args.argc = Words(s)
                      /\ \A k \in 0 .. Words(s) - 1 :
                            args.argv[k] + 1 = WordStart(s, k)

StaysInBounds(s) ==
    \A i \in 0 .. Len(s) :
        LET p == parse_loop(s)[i]
        IN  /\ p.buf_idx < SHELL_MAX_CMD_LEN
            /\ DOMAIN p.argv = 0 .. SHELL_MAX_ARGS - 1
            /\ p.in_arg => p.arg_idx < SHELL_MAX_ARGS

RunsNamed(s) ==
    \A i \in DOMAIN commands :
        (/\ Words(s) > 0 /\ shell_parse_args(s).ok
         /\ WordAt(s, WordStart(s, 0)) = commands[i].name)
            => shell_execute(s) = commands[i].handler

(* argc counts the words of the line and argv points to where they start,  *)
(* in order, though the pointers are computed by subtracting buf_idx from  *)
(* the scan pointer.  A line of fewer than SHELL_MAX_ARGS words is taken   *)
(* apart and one of more is refused.  This is about where the strings      *)
(* start: the NUL behind a word goes to the scratch buffer, so every one   *)
(* of them runs to the end of the line.  Nothing is claimed of a line of   *)
(* exactly SHELL_MAX_ARGS words, which the code refuses and shell.h:19     *)
(* allows.                                                                 *)
ArgvStartsAtWords == ArgvAtStarts(line)

(* No line overruns the scratch buffer or argv: at every turn of the loop  *)
(* the next character, and the NUL after the last one, have a place.       *)
ParseInBounds == StaysInBounds(line)

(* A word that is a command's name runs that command, with any arguments   *)
(* that fit: the first-letter comparison never picks another command.      *)
NamesRunTheirHandler == RunsNamed(line)
=============================================================================
