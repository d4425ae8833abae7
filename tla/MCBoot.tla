------------------------------- MODULE MCBoot -------------------------------
(* The controllers as a PC's firmware leaves them, or remapped already by  *)
(* the loader.                                                             *)
EXTENDS Boot

MCFirmwareBases == {<<8, 112>>, <<32, 40>>}
=============================================================================
