------------------------------ MODULE Regions -------------------------------
(***************************************************************************)
(* What the kernel heap promises: a caller that asks for n bytes is given  *)
(* n bytes of the heap that nobody else has been given, or nothing, and    *)
(* gives back what it was given.                                           *)
(***************************************************************************)
EXTENDS Naturals

CONSTANTS Size,     \* the bytes of the heap are 0 .. Size - 1
          Requests  \* the sizes that are asked for

VARIABLE live       \* the regions given out: a first byte and a length

Disjoint(r, s) == r.ptr + r.size <= s.ptr \/ s.ptr + s.size <= r.ptr

Init == live = {}

Give ==
    \E n \in Requests, p \in 0 .. Size :
        LET r == [ptr |-> p, size |-> n]
        IN  /\ n > 0 /\ p + n <= Size
            /\ \A s \in live : Disjoint(r, s)
            /\ live' = live \cup {r}

TakeBack == \E r \in live : live' = live \ {r}

Next == Give \/ TakeBack

Spec == Init /\ [][Next]_live
=============================================================================
