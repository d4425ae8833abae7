------------------------------- MODULE MCHeap -------------------------------
(* The code's header and minimum; room for four smallest blocks.  Requests *)
(* of 0, below and at the minimum, one past it, half the heap, the whole   *)
(* heap, one more than the heap, and the largest size_t.  The stray pointers  *)
(* point before the first payload and into the middle of blocks.           *)
EXTENDS Heap

MCRequests == {0, 1, 20, 21, 52, 128, 129, SizeMod - 1}
MCStrayPtrs == {0, 13, 40}
=============================================================================
