------------------------------- MODULE Heap4 -------------------------------
(***************************************************************************)
(* The kernel's heap (kernel/MemMang/heap_4.c).  Free blocks are kept in a *)
(* list ordered by address, each with a header in its first bytes; a block *)
(* in use has its header in front of what the application got.  The        *)
(* scheduler is suspended while the list is walked or changed, so that is  *)
(* one step; vPortFree looks at the header and clears its mark before      *)
(* that.                                                                   *)
(*                                                                         *)
(* The application is external: its tasks allocate, overwrite all they     *)
(* asked for, and free each block once.                                    *)
(*                                                                         *)
(* A size_t has W bits.  Definitions with a suffix (FitsIfLess, ...)       *)
(* are mistakes, kept to show which property sees them.                    *)
(***************************************************************************)
EXTENDS Integers, FiniteSets, FiniteSetsExt

CONSTANTS Task,
          Request,      \* the sizes that are asked for
          W,            \* bits of a size_t
          ucHeap,       \* the address of the array
          configTOTAL_HEAP_SIZE,
          portBYTE_ALIGNMENT,
          xHeapStructSize

ASSUME HeapAssumption ==
    /\ {W, ucHeap, configTOTAL_HEAP_SIZE, portBYTE_ALIGNMENT, xHeapStructSize} \subseteq Nat \ {0}
    /\ xHeapStructSize % portBYTE_ALIGNMENT = 0
    /\ Request \subseteq 0 .. 2 ^ W - 1
    /\ ucHeap > 1 /\ ucHeap + configTOTAL_HEAP_SIZE < 2 ^ (W - 1)

NULL == 0
xStart == 1

heapMINIMUM_BLOCK_SIZE == 2 * xHeapStructSize
xBlockAllocatedBit == 2 ^ (W - 1)

Down(a) == a - (a % portBYTE_ALIGNMENT)
Up(a) == Down(a + portBYTE_ALIGNMENT - 1)

\* prvHeapInit: the first block, and the end marker behind it.
pucAlignedHeap == Up(ucHeap)
End == Down(ucHeap + configTOTAL_HEAP_SIZE - xHeapStructSize)

Node == {xStart} \cup {a \in pucAlignedHeap .. End : a % portBYTE_ALIGNMENT = 0}

Header(next, size, allocated) == [next |-> next, size |-> size, allocated |-> allocated]

\* What memory holds that is no header.
Data == Header(NULL, 0, FALSE)

VARIABLES mem,          \* the headers, and xStart
          pxEnd,
          xFreeBytesRemaining,
          xMinimumEverFreeBytesRemaining,
          owned,        \* what the application may free
          freeing,      \* for each task, the block it is freeing, or NULL
          refused       \* the last request, if it has got NULL and no block
                        \* has gone back since, or 0

vars == <<mem, pxEnd, xFreeBytesRemaining, xMinimumEverFreeBytesRemaining, owned, freeing, refused>>

Init ==
    /\ mem = [a \in Node |-> Data]
    /\ pxEnd = NULL
    /\ xFreeBytesRemaining = 0
    /\ xMinimumEverFreeBytesRemaining = 0
    /\ owned = {}
    /\ freeing = [t \in Task |-> NULL]
    /\ refused = 0

-----------------------------------------------------------------------------
HeapInit ==
    [mem EXCEPT ![xStart] = Header(pucAlignedHeap, 0, FALSE),
                ![End] = Header(NULL, 0, FALSE),
                ![pucAlignedHeap] = Header(End, End - pucAlignedHeap, FALSE)]

(***************************************************************************)
(* prvInsertBlockIntoFreeList: memory m with block b put into the list     *)
(* behind the last block below it, and merged with its neighbours.         *)
(***************************************************************************)
Before(m, b) ==
    LET walk[a \in Node] == IF m[a].next < b THEN walk[m[a].next] ELSE a
    IN  walk[xStart]

InsertBlockIntoFreeList(m, b) ==
    LET it == Before(m, b)
        low == IF it + m[it].size = b THEN it ELSE b
        size == IF low = it THEN m[it].size + m[b].size ELSE m[b].size
        high == m[it].next
        joins == low + size = high /\ high # End
        merged == [m EXCEPT ![low].size = IF joins THEN size + m[high].size ELSE size,
                            ![low].next = IF joins THEN m[high].next ELSE high]
    IN  IF low = it THEN merged ELSE [merged EXCEPT ![it].next = low]

-----------------------------------------------------------------------------
(***************************************************************************)
(* pvPortMalloc.  The size of the block that is needed, or 0 if the        *)
(* request is refused out of hand.                                         *)
(***************************************************************************)
Wanted(n) ==
    IF n = 0 \/ n >= xBlockAllocatedBit THEN 0 ELSE Up(n + xHeapStructSize) % (2 ^ W)

\* The list's last block that is followed by one of adequate size, or by End.
BeforeFit(m, wanted) ==
    LET walk[a \in Node] ==
          LET b == m[a].next
          IN  IF m[b].size < wanted /\ m[b].next # NULL THEN walk[b] ELSE a
    IN  walk[xStart]

Splits(size, wanted) == size - wanted > heapMINIMUM_BLOCK_SIZE

TakeKeepsNext(m, prev, wanted) ==
    LET b == m[prev].next
        rest == b + wanted
        out == [m EXCEPT ![prev].next = m[b].next]
        split == InsertBlockIntoFreeList([out EXCEPT ![rest].size = m[b].size - wanted,
                                                     ![b].size = wanted], rest)
        taken == IF Splits(m[b].size, wanted) THEN split ELSE out
    IN  [taken EXCEPT ![b].allocated = TRUE]

\* Memory with b taken from behind prev, and the rest of it put back.
Take(m, prev, wanted) ==
    LET b == m[prev].next
        rest == b + wanted
        out == [m EXCEPT ![prev].next = m[b].next]
        split == InsertBlockIntoFreeList([out EXCEPT ![rest].size = m[b].size - wanted,
                                                     ![b].size = wanted], rest)
        taken == IF Splits(m[b].size, wanted) THEN split ELSE out
    IN  [taken EXCEPT ![b].next = NULL, ![b].allocated = TRUE]

FitsIfLess(wanted, free) == wanted > 0 /\ wanted < free

\* What is tried at all.
Fits(wanted, free) == wanted > 0 /\ wanted <= free

Least(left, least) == IF left < least THEN left ELSE least

Malloc(t, n) ==
    LET m == IF pxEnd = NULL THEN HeapInit ELSE mem
        free == IF pxEnd = NULL THEN End - pucAlignedHeap ELSE xFreeBytesRemaining
        least == IF pxEnd = NULL THEN End - pucAlignedHeap ELSE xMinimumEverFreeBytesRemaining
        wanted == Wanted(n)
        prev == BeforeFit(m, wanted)
        b == m[prev].next
        taken == Take(m, prev, wanted)
        left == free - taken[b].size
        pv == b + xHeapStructSize
    IN  /\ freeing[t] = NULL
        /\ pxEnd' = End
        /\ IF Fits(wanted, free) /\ b # End
             THEN /\ mem' = [a \in Node |-> IF a \in pv .. pv + n - 1 THEN Data ELSE taken[a]]
                  /\ xFreeBytesRemaining' = left
                  /\ xMinimumEverFreeBytesRemaining' = Least(left, least)
                  /\ owned' = owned \cup {pv}
                  /\ refused' = 0
             ELSE /\ mem' = m
                  /\ xFreeBytesRemaining' = free
                  /\ xMinimumEverFreeBytesRemaining' = least
                  /\ refused' = n
                  /\ UNCHANGED owned
        /\ UNCHANGED freeing

(***************************************************************************)
(* vPortFree: the header is checked and its mark cleared, then the block   *)
(* is put into the list with the scheduler suspended.                      *)
(***************************************************************************)
FreeCheck(t, pv) ==
    LET link == pv - xHeapStructSize  IN
    /\ freeing[t] = NULL /\ pv \in owned
    /\ owned' = owned \ {pv}
    /\ IF mem[link].allocated /\ mem[link].next = NULL
         THEN mem' = [mem EXCEPT ![link].allocated = FALSE] /\ freeing' = [freeing EXCEPT ![t] = link]
         ELSE UNCHANGED <<mem, freeing>>
    /\ UNCHANGED <<pxEnd, xFreeBytesRemaining, xMinimumEverFreeBytesRemaining, refused>>

FreeInsertMerged(t) ==
    LET m == InsertBlockIntoFreeList(mem, freeing[t])  IN
    /\ freeing[t] # NULL
    /\ mem' = m
    /\ xFreeBytesRemaining' = xFreeBytesRemaining + m[freeing[t]].size
    /\ freeing' = [freeing EXCEPT ![t] = NULL]
    /\ refused' = 0
    /\ UNCHANGED <<pxEnd, xMinimumEverFreeBytesRemaining, owned>>

FreeInsert(t) ==
    /\ freeing[t] # NULL
    /\ mem' = InsertBlockIntoFreeList(mem, freeing[t])
    /\ xFreeBytesRemaining' = xFreeBytesRemaining + mem[freeing[t]].size
    /\ freeing' = [freeing EXCEPT ![t] = NULL]
    /\ refused' = 0
    /\ UNCHANGED <<pxEnd, xMinimumEverFreeBytesRemaining, owned>>

Next == \E t \in Task :
    \/ \E n \in Request : Malloc(t, n)
    \/ \E pv \in owned : FreeCheck(t, pv)
    \/ FreeInsert(t)

Spec == Init /\ [][Next]_vars

-----------------------------------------------------------------------------
TypeOK ==
    /\ mem \in [Node -> [next : {NULL} \cup Node, size : 0 .. End - pucAlignedHeap, allocated : BOOLEAN]]
    /\ pxEnd \in {NULL, End}
    /\ xFreeBytesRemaining \in 0 .. End - pucAlignedHeap
    /\ xMinimumEverFreeBytesRemaining \in 0 .. End - pucAlignedHeap
    /\ \A pv \in owned : pv - xHeapStructSize \in Node \ {xStart, End}
    /\ freeing \in [Task -> {NULL} \cup (Node \ {xStart, End})]
    /\ refused \in {0} \cup Request

\* The headers of the blocks that are in use or on their way back.
InUse == {pv - xHeapStructSize : pv \in owned} \cup ({freeing[t] : t \in Task} \ {NULL})

(***************************************************************************)
(* The heap is a first-fit heap: blocks do not overlap, what the           *)
(* application writes into its own harms no other and no free one, and an  *)
(* allocation gets the lowest run of free memory that is long enough, and  *)
(* NULL only if none is (a failure is a step of FirstFit, not a stutter).  *)
(* So every two neighbours that are free have been merged, in whatever     *)
(* order they were freed.                                                  *)
(***************************************************************************)
BlockSize(n) == IF n = 0 THEN 0 ELSE Up(n + xHeapStructSize)

Abstract == INSTANCE FirstFit WITH
    Lo <- pucAlignedHeap, Hi <- End, Unit <- portBYTE_ALIGNMENT,
    MinSplit <- heapMINIMUM_BLOCK_SIZE,
    Size <- {BlockSize(n) : n \in Request \ {0}}, refused <- BlockSize(refused),
    live <- {[at |-> a, size |-> mem[a].size] : a \in InUse}

IsFirstFit == Abstract!Spec

(***************************************************************************)
(* The free byte counter is what is neither in use nor on its way back,    *)
(* and the lowest value it has had is kept.                                *)
(***************************************************************************)
Accounting ==
    /\ TypeOK
    /\ pxEnd # NULL =>
        /\ xFreeBytesRemaining + MapThenSumSet(LAMBDA a : mem[a].size, InUse) = End - pucAlignedHeap
        /\ xMinimumEverFreeBytesRemaining <= xFreeBytesRemaining

(***************************************************************************)
(* The assertions of vPortFree hold for every block the application owns,  *)
(* whatever it has written to its memory.                                  *)
(***************************************************************************)
MayBeFreed ==
    \A pv \in owned :
        mem[pv - xHeapStructSize].allocated /\ mem[pv - xHeapStructSize].next = NULL
=============================================================================
