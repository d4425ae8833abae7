------------------------------ MODULE KbdQueue ------------------------------
(***************************************************************************)
(* What the keyboard driver promises its reader: the characters typed come *)
(* out once each, in the order they were typed, and a character typed      *)
(* while Capacity characters wait is dropped.                              *)
(***************************************************************************)
EXTENDS Sequences, Naturals

CONSTANTS Chars,      \* the characters that can be typed
          Capacity    \* how many characters can wait

VARIABLES queue,      \* the characters typed and not yet taken
          taken       \* the last answer to the reader

Init == queue = <<>> /\ taken = 0

Type ==
    /\ Len(queue) < Capacity
    /\ \E c \in Chars : queue' = Append(queue, c)
    /\ UNCHANGED taken

Take ==
    /\ queue # <<>>
    /\ taken' = Head(queue)
    /\ queue' = Tail(queue)

(* With nothing to take, the reader is told so by the character 0. *)
TakeNothing ==
    /\ queue = <<>>
    /\ taken' = 0
    /\ UNCHANGED queue

Next == Type \/ Take \/ TakeNothing

Spec == Init /\ [][Next]_<<queue, taken>>
=============================================================================
