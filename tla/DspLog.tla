------------------------------- MODULE DspLog -------------------------------
(***************************************************************************)
(* The text log in shared memory (src/log.c).  The first four bytes of the *)
(* area hold the write position, the rest the text; a message that does    *)
(* not fit before the end goes to the start of the area, over the oldest   *)
(* text.  The ARM may look at any time, so the copy, the terminator and    *)
(* the position are steps of their own.                                    *)
(*                                                                         *)
(* A message is a name and its length, the newline included; a cell holds  *)
(* a byte of a message, a NUL, or a byte of the position.  lprintf formats *)
(* into 256 bytes: messages are shorter than that, and shorter than the    *)
(* area by far.  An area of four bytes or fewer is not used at all.        *)
(*                                                                         *)
(* WrapsLate and PositionAtNul are mistakes, kept to show                  *)
(* which property sees them.                                               *)
(***************************************************************************)
EXTENDS Naturals, Sequences

CONSTANTS Msg,          \* the messages that are logged
          MsgLen,       \* their lengths
          Size          \* log_buffer_size

ASSUME LogAssumption ==
    /\ MsgLen \in [Msg -> Nat \ {0}]
    /\ Size \in Nat /\ Size > 4
    /\ \A m \in Msg : 4 + MsgLen[m] + 1 < Size

VARIABLES area,         \* the bytes at log_buffer, and a few behind them
          write_ptr,    \* *log_write_ptr, or 0 while log_write_ptr is NULL
          call,         \* the lprintf in progress
          lap           \* the messages logged since the last wrap, and where

vars == <<area, write_ptr, call, lap>>

Nul == <<"nul", 0>>
PosByte == <<"position", 0>>
Foreign == <<"foreign", 0>>

\* The area and what lies behind it.
Around == 0 .. Size + 3

Idle == [pc |-> "idle"]

Init ==
    /\ area = [c \in Around |-> Foreign]
    /\ write_ptr = 0
    /\ call = Idle
    /\ lap = << >>

(***************************************************************************)
(* log_init, with the device tree's entry open, calls log_clear.           *)
(***************************************************************************)
LogInit ==
    /\ write_ptr = 0
    /\ write_ptr' = 4
    /\ area' = [c \in Around |-> IF c < 4 THEN PosByte ELSE IF c < Size THEN Nul ELSE area[c]]
    /\ UNCHANGED <<call, lap>>

(***************************************************************************)
(* lprintf returns at once before log_init.  It reads the position and     *)
(* decides where the message goes.                                         *)
(***************************************************************************)
WrapsLate(pos, len) == pos + len > Size

Wraps(pos, len) == pos + len + 1 >= Size

Lprintf(m) ==
    /\ call.pc = "idle"
    /\ write_ptr # 0
    /\ call' = [pc |-> "text", msg |-> m,
                pos |-> IF Wraps(write_ptr, MsgLen[m]) THEN 4 ELSE write_ptr]
    /\ UNCHANGED <<area, write_ptr, lap>>

Text ==
    /\ call.pc = "text"
    /\ area' = [c \in Around |->
                  IF c \in call.pos .. call.pos + MsgLen[call.msg] - 1
                    THEN <<call.msg, c - call.pos + 1>> ELSE area[c]]
    /\ call' = [call EXCEPT !.pc = "terminator"]
    /\ UNCHANGED <<write_ptr, lap>>

Terminator ==
    /\ call.pc = "terminator"
    /\ area' = [area EXCEPT ![call.pos + MsgLen[call.msg]] = Nul]
    /\ call' = [call EXCEPT !.pc = "position"]
    /\ UNCHANGED <<write_ptr, lap>>

\* What is remembered of the message in `lap`.
Entry == [msg |-> call.msg, at |-> call.pos]

PositionAtNul ==
    /\ call.pc = "position"
    /\ write_ptr' = call.pos + MsgLen[call.msg]
    /\ lap' = IF call.pos = 4 THEN <<Entry>> ELSE Append(lap, Entry)
    /\ call' = Idle
    /\ UNCHANGED area

Position ==
    /\ call.pc = "position"
    /\ write_ptr' = call.pos + MsgLen[call.msg] + 1
    /\ lap' = IF call.pos = 4 THEN <<Entry>> ELSE Append(lap, Entry)
    /\ call' = Idle
    /\ UNCHANGED area

Next == LogInit \/ (\E m \in Msg : Lprintf(m)) \/ Text \/ Terminator \/ Position

Spec == Init /\ [][Next]_vars

-----------------------------------------------------------------------------
\* The offset behind a message and its NUL.
Behind(e) == e.at + MsgLen[e.msg] + 1

\* A message and its NUL are in the area.
Written(e) ==
    /\ \A i \in 1 .. MsgLen[e.msg] : area[e.at + i - 1] = <<e.msg, i>>
    /\ area[e.at + MsgLen[e.msg]] = Nul

(***************************************************************************)
(* lprintf writes no byte of the position's four and none behind the area. *)
(***************************************************************************)
StaysInside ==
    /\ \A c \in Size .. Size + 3 : area[c] = Foreign
    /\ write_ptr # 0 => \A c \in 0 .. 3 : area[c] = PosByte

(***************************************************************************)
(* From the start of the area up to the position there are exactly the     *)
(* messages of this lap, whole, in order, each with its NUL; while a       *)
(* message is being added behind them a reader still finds them so, and    *)
(* only the message that wraps is written over them.                       *)
(***************************************************************************)
LapIsReadable ==
    write_ptr # 0 /\ (call.pc = "idle" \/ call.pos # 4) =>
        /\ \A i \in 1 .. Len(lap) :
             /\ Written(lap[i])
             /\ lap[i].at = IF i = 1 THEN 4 ELSE Behind(lap[i - 1])
        /\ write_ptr = IF lap = << >> THEN 4 ELSE Behind(lap[Len(lap)])
=============================================================================
