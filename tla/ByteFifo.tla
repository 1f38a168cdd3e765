------------------------------ MODULE ByteFifo ------------------------------
(***************************************************************************)
(* What one direction of the shared space promises to its two users: a     *)
(* bounded first-in first-out byte stream.  A writer hands over a whole    *)
(* message, which is appended in one piece and only while it fits; a       *)
(* reader takes some bytes from the front.                                 *)
(*                                                                         *)
(* `fifo` is what has been written and not yet read, `offered` the message *)
(* of the write in progress, `taken` what the last read returned.          *)
(***************************************************************************)
EXTENDS Naturals, Sequences

CONSTANTS Byte,         \* the values of a byte
          Capacity      \* the stream always holds fewer than Capacity bytes

VARIABLES fifo, offered, taken

vars == <<fifo, offered, taken>>

Init == fifo = << >> /\ offered = << >> /\ taken = << >>

Offer == /\ offered = << >>
         /\ offered' \in Seq(Byte) \ {<< >>}
         /\ UNCHANGED <<fifo, taken>>

Accept == /\ offered # << >>
          /\ Len(fifo) + Len(offered) < Capacity
          /\ fifo' = fifo \o offered
          /\ offered' = << >>
          /\ UNCHANGED taken

Take(n) == /\ taken' = SubSeq(fifo, 1, n)
           /\ fifo' = SubSeq(fifo, n + 1, Len(fifo))
           /\ UNCHANGED offered

\* The reader reuses its buffer for something else.
Forget == taken' = << >> /\ UNCHANGED <<fifo, offered>>

Next == Offer \/ Accept \/ Forget \/ \E n \in 1 .. Len(fifo) : Take(n)

Spec == Init /\ [][Next]_vars
=============================================================================
