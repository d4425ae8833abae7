---------------------------- MODULE MCShellParse ----------------------------
EXTENDS ShellLines

(* l, p, s (for "ls" and "ps" and words that are neither), space and tab. *)
MCAlphabet == {108, 112, 115, 32, 9}
=============================================================================
