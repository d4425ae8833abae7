------------------------------ MODULE MCSerial ------------------------------
(* Two bytes, sent alone and in a string, through FIFOs of two. *)
EXTENDS Serial

MCStrings == {<<>>, <<1>>, <<2, 1, 2>>}
=============================================================================
