--------------------------- MODULE FrameAllocator ---------------------------
(***************************************************************************)
(* What the physical memory manager promises the code that calls it: a     *)
(* frame belongs to at most one caller at a time.  A caller is granted     *)
(* some frame that nobody holds, and gives back a frame that it holds.     *)
(***************************************************************************)
CONSTANTS Callers,   \* the code that asks for frames
          Frames     \* the addresses that may be granted

VARIABLE granted     \* granted[c] is the set of frames that c holds

Init == granted = [c \in Callers |-> {}]

Grant(c) ==
    \E f \in Frames :
        /\ \A d \in Callers : f \notin granted[d]
        /\ granted' = [granted EXCEPT ![c] = @ \cup {f}]

Release(c) ==
    \E f \in granted[c] : granted' = [granted EXCEPT ![c] = @ \ {f}]

Next == \E c \in Callers : Grant(c) \/ Release(c)

Spec == Init /\ [][Next]_granted
=============================================================================
