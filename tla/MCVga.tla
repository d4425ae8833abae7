------------------------------- MODULE MCVga --------------------------------
(* A screen of three rows of two: a letter, a byte above 127 and newlines. *)
EXTENDS Vga

MCChars == {97, 200, 10}
MCMessages == {<<69, 10>>, <<80, 70>>}
=============================================================================
