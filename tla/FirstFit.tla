------------------------------ MODULE FirstFit ------------------------------
(***************************************************************************)
(* What a first-fit heap promises, told without lists or headers.  The     *)
(* blocks in use lie in Lo .. Hi - 1; the gaps are the runs of free memory *)
(* between them, as long as they can be.  An allocation takes the start of *)
(* the lowest gap that is long enough, and fails only if no gap is.        *)
(***************************************************************************)
EXTENDS Integers, FiniteSets

CONSTANTS Lo, Hi,       \* the heap
          Unit,         \* blocks start and end at multiples of it
          MinSplit,     \* a remainder must be longer than this to stay free
          Size          \* the sizes of blocks that may be asked for

VARIABLES live,         \* the blocks in use
          refused       \* the size asked for last, if there was no room, or 0

vars == <<live, refused>>

Block == [at : Lo .. Hi - 1, size : 1 .. Hi - Lo]

End(b) == b.at + b.size

\* A block may start or end at these places.
Edge == {a \in Lo .. Hi : (a - Lo) % Unit = 0}

Free(a) == \A b \in live : a < b.at \/ a >= End(b)

Gap == {g \in {[at |-> a, size |-> e - a] : a \in Edge, e \in Edge} :
          /\ g.size > 0
          /\ \A a \in g.at .. End(g) - 1 : Free(a)
          /\ g.at = Lo \/ ~Free(g.at - 1)
          /\ End(g) = Hi \/ ~Free(End(g))}

Init == live = {} /\ refused = 0

Malloc(size) ==
    \E g \in Gap :
        /\ g.size >= size
        /\ \A h \in Gap : h.size >= size => g.at <= h.at
        /\ live' = live \cup
             {[at |-> g.at, size |-> IF g.size - size > MinSplit THEN size ELSE g.size]}
    /\ refused' = 0

\* Failing shows, so that a request that could be served cannot fail.
Fail(size) ==
    /\ \A g \in Gap : g.size < size
    /\ refused' = size
    /\ UNCHANGED live

\* Who asks for nothing gets nothing.
AskNothing == refused' = 0 /\ UNCHANGED live

FreeBlock(b) == live' = live \ {b} /\ refused' = 0

Next ==
    \/ \E size \in Size : Malloc(size) \/ Fail(size)
    \/ AskNothing
    \/ \E b \in live : FreeBlock(b)

Spec == Init /\ [][Next]_vars
=============================================================================
