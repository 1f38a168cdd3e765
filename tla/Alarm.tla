------------------------------- MODULE Alarm -------------------------------
(***************************************************************************)
(* What a kernel promises to those that wait for a time: a sleeper that    *)
(* nothing else wakes sleeps for exactly the ticks it asked for, through   *)
(* the wrap of the clock and through any stretch in which ticks are only   *)
(* counted and made up for later, several at once.                         *)
(***************************************************************************)
EXTENDS Naturals

CONSTANTS Sleeper

VARIABLES now, left     \* the ticks that are left to each; 0 when awake

vars == <<now, left>>

Init == now \in Nat /\ left = [s \in Sleeper |-> 0]

\* One falls asleep, for as long as it likes.
Sleep(s) ==
    /\ left[s] = 0
    /\ left' \in [Sleeper -> Nat] /\ \A r \in Sleeper \ {s} : left'[r] = left[r]
    /\ UNCHANGED now

\* Something other than time wakes some of them.
Rouse ==
    /\ \A s \in Sleeper : left'[s] \in {0, left[s]}
    /\ UNCHANGED now

Pass(n) ==
    /\ n > 0
    /\ left' = [s \in Sleeper |-> IF left[s] > n THEN left[s] - n ELSE 0]

Next == (\E s \in Sleeper : Sleep(s)) \/ Rouse \/ Pass(now' - now)

Spec == Init /\ [][Next]_vars
=============================================================================
