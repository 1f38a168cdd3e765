---------------------------- MODULE BoundedQueue ----------------------------
(***************************************************************************)
(* What a queue promises to everyone who uses it: it holds up to Capacity  *)
(* items; an item is added at the back or at the front, or replaces the    *)
(* one item of a queue of length one; the item at the front is taken by    *)
(* one caller, or looked at; a reset empties the queue.  Each of these     *)
(* happens at one instant.                                                 *)
(***************************************************************************)
EXTENDS Naturals, Sequences

CONSTANTS Item, Caller, Capacity

VARIABLES buf,          \* the items
          got           \* what each caller received, or saw, last

vars == <<buf, got>>

Init == buf = << >> /\ got \in [Caller -> Item \cup {"nothing"}]

Call(c) == got' = [got EXCEPT ![c] = "nothing"] /\ UNCHANGED buf

SendToBack(x) == Len(buf) < Capacity /\ buf' = Append(buf, x) /\ UNCHANGED got

SendToFront(x) == Len(buf) < Capacity /\ buf' = <<x>> \o buf /\ UNCHANGED got

Overwrite(x) == Capacity = 1 /\ buf' = <<x>> /\ UNCHANGED got

Peek(c) == buf # << >> /\ got' = [got EXCEPT ![c] = Head(buf)] /\ UNCHANGED buf

Receive(c) == buf # << >> /\ got' = [got EXCEPT ![c] = Head(buf)] /\ buf' = Tail(buf)

Reset == buf' = << >> /\ UNCHANGED got

Next == \/ \E x \in Item : SendToBack(x) \/ SendToFront(x) \/ Overwrite(x)
        \/ \E c \in Caller : Call(c) \/ Peek(c) \/ Receive(c)
        \/ Reset

Spec == Init /\ [][Next]_vars
=============================================================================
