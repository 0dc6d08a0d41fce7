------------------------------- MODULE Stream -------------------------------
(***************************************************************************)
(* What the loop buffer promises to the demuxer: a byte stream with a read *)
(* position.  Byte x of the stream is written as the number x.             *)
(***************************************************************************)
EXTENDS Naturals, Sequences

VARIABLES at,       \* position of the next byte
          data      \* the bytes that the last step handed out

\* The next n bytes of the stream are handed out.
Deliver(n) == /\ data' = [i \in 1 .. n |-> at + i - 1]
              /\ at' = at + n

\* The position is moved: by a seek, or by reading bytes that nobody wants.
Move(x) == /\ data' = <<>>
           /\ at' = x
=============================================================================
