-------------------------------- MODULE MCPmm --------------------------------
(* Nine pages: the bitmap has a full byte and a byte with one page in it.  *)
EXTENDS Pmm

MCStrayAddrs == {1, 4097, TotalPages * PAGE_SIZE, 20 * PAGE_SIZE}
=============================================================================
