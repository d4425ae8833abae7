-------------------------------- MODULE MCVmm --------------------------------
(* Six directory entries and tables of three pages, two of them the        *)
(* kernel's, mapped at 0 and at 4.  The identity map covers frames 0 to 5  *)
(* of seven, of which 2 to 4 are the kernel.  Pages 6 and 7 share the      *)
(* table of entry 2, page 9 needs the table of entry 3, and pages 0 and 12 *)
(* are aliases.  Page 1 is in the identity map, and frames 1 and 5 can be  *)
(* tables.                                                                 *)
EXTENDS Vmm

MCKernelFrames == {2, 3, 4}
MCMapPages     == {0, 1, 6, 7, 9, 12}
MCMapFrames    == {5}
=============================================================================
