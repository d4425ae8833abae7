----------------------------- MODULE MCKeyboard -----------------------------
(* A letter, both shift keys and left Ctrl; right Ctrl, Delete and Pause.  *)
EXTENDS Keyboard

MCKeys == {30, 42, 54, 29}
MCExtKeys == {29, 83, 69}
=============================================================================
