------------------------------ MODULE MCHeap4 ------------------------------
(***************************************************************************)
(* An instance of Heap4 for TLC: a heap that starts at an odd address and  *)
(* has room for ten units, five headers without payload, and requests of   *)
(* nothing, of one to four units, of all but too much, and of sizes with   *)
(* the top bit set, one of which wraps around when the header is added.    *)
(***************************************************************************)
EXTENDS Heap4, TLC

CONSTANTS t1, t2

MCTask == {t1, t2}
TaskSymmetry == Permutations(MCTask)
=============================================================================
