----------------------------- MODULE ShellParse -----------------------------
(***************************************************************************)
(* How the shell takes a command line apart and chooses a handler:         *)
(* shell_parse_args and shell_execute of src/kernel/shell/shell.c.         *)
(*                                                                         *)
(* A command line is the sequence of its ASCII codes without the final     *)
(* NUL.  argv[k] is a pointer into the command line, represented by the    *)
(* offset it points to; the C string found there runs to the end of the    *)
(* line.  The scratch buffer is represented by buf_idx, how much of it is  *)
(* used.                                                                   *)
(***************************************************************************)
EXTENDS Integers, Sequences, FiniteSets

CONSTANTS SHELL_MAX_CMD_LEN,   \* 256 in shell.h
          SHELL_MAX_ARGS       \* 16 in shell.h

ASSUME ShellParseAssumption ==
    /\ SHELL_MAX_CMD_LEN \in Nat /\ SHELL_MAX_CMD_LEN >= 2
    /\ SHELL_MAX_ARGS \in Nat \ {0}

IsBlank(c) == c = 32 \/ c = 9

commands ==
    << [name |-> <<104, 101, 108, 112>>,           handler |-> "cmd_help"],
       [name |-> <<101, 99, 104, 111>>,            handler |-> "cmd_echo"],
       [name |-> <<99, 108, 101, 97, 114>>,        handler |-> "cmd_clear"],
       [name |-> <<109, 101, 109>>,                handler |-> "cmd_mem"],
       [name |-> <<112, 115>>,                     handler |-> "cmd_ps"],
       [name |-> <<117, 110, 97, 109, 101>>,       handler |-> "cmd_uname"],
       [name |-> <<114, 101, 98, 111, 111, 116>>,  handler |-> "cmd_reboot"],
       [name |-> <<108, 115>>,                     handler |-> "cmd_ls"],
       [name |-> <<105, 110, 102, 111>>,           handler |-> "cmd_info"] >>

(* Mutant: the pointer is computed before buf_idx counts the NUL. *)
end_arg_early(p, pos) ==
    [p EXCEPT !.argv[p.arg_idx] = pos - p.buf_idx + 1,
              !.arg_idx = @ + 1, !.in_arg = FALSE, !.buf_idx = 0]

(* A blank at offset pos ends an argument. *)
end_arg(p, pos) ==
    [p EXCEPT !.argv[p.arg_idx] = pos - (p.buf_idx + 1) + 1,
              !.arg_idx = @ + 1, !.in_arg = FALSE, !.buf_idx = 0]

(* Any other character at offset pos starts or continues one. *)
in_word(p, pos) ==
    [p EXCEPT !.argv = IF p.in_arg THEN @ ELSE [@ EXCEPT ![p.arg_idx] = pos],
              !.in_arg = TRUE, !.buf_idx = @ + 1]

(* Mutant: the loop goes on when argv is full. *)
ArgsLeft_late(p) == p.arg_idx <= SHELL_MAX_ARGS

(* The loop goes on while argv has room. *)
ArgsLeft(p) == p.arg_idx < SHELL_MAX_ARGS

UNSET == -1    \* an element of argv that is not assigned

(* parse_loop(s)[i]: the locals after i turns of the while loop. *)
parse_loop(s) ==
    LET loop[i \in 0 .. Len(s)] ==
          IF i = 0
          THEN [arg_idx |-> 0, in_arg |-> FALSE, buf_idx |-> 0,
                argv |-> [k \in 0 .. SHELL_MAX_ARGS - 1 |-> UNSET]]
          ELSE LET p == loop[i - 1]
               IN  CASE ~ArgsLeft(p) -> p
                     [] ArgsLeft(p) /\ ~IsBlank(s[i]) -> in_word(p, i - 1)
                     [] ArgsLeft(p) /\ IsBlank(s[i]) ->
                            IF p.in_arg THEN end_arg(p, i - 1) ELSE p
    IN  loop

shell_parse_args(s) ==
    LET p == parse_loop(s)[Len(s)]
        n == IF p.in_arg THEN p.arg_idx + 1 ELSE p.arg_idx
    IN  [argc |-> n, argv |-> p.argv, ok |-> n < SHELL_MAX_ARGS]

(* The C string an element of argv points to. *)
ArgString(s, offset) == SubSeq(s, offset + 1, Len(s))

(* Mutant: the table is searched by the last letter of the name. *)
Matches_last(cmd, arg0) == cmd.name[Len(cmd.name)] = arg0[1]

(* Only the first letters are compared. *)
Matches(cmd, arg0) == cmd.name[1] = arg0[1]

(* What shell_execute does with a line: the handler it calls, or why none. *)
shell_execute(s) ==
    LET a == shell_parse_args(s)
        found == {i \in DOMAIN commands :
                     Matches(commands[i], ArgString(s, a.argv[0]))}
    IN  IF s = <<>> THEN "nothing"
        ELSE IF ~a.ok THEN "too many arguments"
        ELSE IF a.argc = 0 THEN "nothing"
        ELSE IF found = {} THEN "not found"
        ELSE commands[CHOOSE i \in found : \A j \in found : i <= j].handler
-----------------------------------------------------------------------------
(* Reference: where the words of a line start, and the words. *)
WordStarts(s) ==
    {i \in 1 .. Len(s) : ~IsBlank(s[i]) /\ (i = 1 \/ IsBlank(s[i - 1]))}

WordAt(s, i) ==
    LET ends == {j \in i .. Len(s) : \A k \in i .. j : ~IsBlank(s[k])}
    IN  SubSeq(s, i, CHOOSE j \in ends : \A k \in ends : k <= j)

(* The k-th word start, k from 0. *)
WordStart(s, k) ==
    CHOOSE i \in WordStarts(s) : k = Cardinality({j \in WordStarts(s) : j < i})
=============================================================================
