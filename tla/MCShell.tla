------------------------------ MODULE MCShell -------------------------------
(* The keys r (reboot), l (ls), Enter and Backspace; no prefixed keys.     *)
EXTENDS Shell

MCKeys == {19, 38, 28, 14}
MCExtKeys == {}
=============================================================================
