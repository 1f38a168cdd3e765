--------------------------- MODULE SharespaceRing ---------------------------
(***************************************************************************)
(* The address arithmetic of the two one-way shared-memory buffers between *)
(* the DSP and the ARM (src/sharespace.c, src/sharespace.h).               *)
(*                                                                         *)
(* A buffer region of BUFFER_SIZE bytes is laid out as                     *)
(*                                                                         *)
(*     0 .. MIN_ADDR-1          never used                                 *)
(*     MIN_ADDR .. MAX_ADDR-1   the data ring                              *)
(*     MAX_ADDR ..              the MsgHead (read, write, init_state)      *)
(*                                                                         *)
(* so a copy that runs one byte too far lands in the MsgHead.  Addresses   *)
(* here are offsets in the region, as they are in the code.                *)
(*                                                                         *)
(* The operators with a suffix (FreeSizeUnwrapped, ...) are plausible      *)
(* mistakes in the operator they precede, kept to show which property      *)
(* would notice them; nothing else uses them.                              *)
(***************************************************************************)
EXTENDS Integers, Sequences

CONSTANTS MIN_ADDR,     \* offset of the first data byte
          MAX_ADDR      \* offset of the MsgHead, one past the last data byte

ASSUME AddrAssumption ==
    /\ MIN_ADDR \in Nat
    /\ MAX_ADDR \in Nat
    /\ MIN_ADDR < MAX_ADDR

Addr == MIN_ADDR .. (MAX_ADDR - 1)

\* The cells of a region the model keeps; MAX_ADDR stands for the MsgHead.
Cells == 0 .. MAX_ADDR

RingSize == MAX_ADDR - MIN_ADDR

(***************************************************************************)
(* free_size in sharespace_write: r is the peer's read position, w the     *)
(* local write position.                                                   *)
(***************************************************************************)
FreeSizeUnwrapped(r, w) == RingSize - (w - r)

FreeSizeInclusive(r, w) ==
    IF r <= w THEN RingSize - (w - r) + 1 ELSE r - w

FreeSize(r, w) == IF r <= w THEN RingSize - (w - r) ELSE r - w

(***************************************************************************)
(* msg_size in sharespace_read: r is the local read position, w the peer's *)
(* write position; equal positions mean an empty ring.                     *)
(***************************************************************************)
MsgSizeFromZero(r, w) ==
    IF r = w THEN 0 ELSE IF r < w THEN w - r ELSE (MAX_ADDR - r) + w

MsgSize(r, w) ==
    IF r = w THEN 0
    ELSE IF r < w THEN w - r ELSE (MAX_ADDR - r) + (w - MIN_ADDR)

(***************************************************************************)
(* Both functions copy len bytes at offset a with one memcpy when they fit *)
(* below MAX_ADDR and with two otherwise.  FirstLen is the length of the   *)
(* first copy, Advance the position stored afterwards.                     *)
(***************************************************************************)
FirstLenPastEnd(a, len) == IF a + len <= MAX_ADDR + 1 THEN len ELSE MAX_ADDR - a

FirstLen(a, len) == IF a + len <= MAX_ADDR THEN len ELSE MAX_ADDR - a

AdvanceUnwrapped(a, len) ==
    IF a + len <= MAX_ADDR THEN a + len ELSE MIN_ADDR + (len - FirstLen(a, len))

Advance(a, len) ==
    IF a + len <= MAX_ADDR
      THEN IF a + len >= MAX_ADDR THEN MIN_ADDR ELSE a + len
      ELSE MIN_ADDR + (len - FirstLen(a, len))

\* memcpy of the bytes of s into a region, and of n bytes out of it.
Store(mem, a, s) ==
    [c \in Cells |-> IF c \in a .. (a + Len(s) - 1) THEN s[c - a + 1] ELSE mem[c]]

Load(mem, a, n) == [i \in 1 .. n |-> mem[a + i - 1]]

-----------------------------------------------------------------------------
(***************************************************************************)
(* What the arithmetic is for.  At(r, i) is the cell i bytes after r around*)
(* the ring, Contents the bytes between two positions in stream order.     *)
(***************************************************************************)
At(r, i) == IF r + i < MAX_ADDR THEN r + i ELSE r + i - RingSize

Span(r, n) == {At(r, i) : i \in 0 .. (n - 1)}

Contents(mem, r, w) == [i \in 1 .. MsgSize(r, w) |-> mem[At(r, i - 1)]]
=============================================================================
