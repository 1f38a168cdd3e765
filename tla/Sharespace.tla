----------------------------- MODULE Sharespace -----------------------------
(***************************************************************************)
(* sharespace_write and sharespace_read (src/sharespace.c) running on the  *)
(* DSP's only thread against an ARM that reads and writes at the same time.*)
(*                                                                         *)
(* Each side owns one MsgHead and writes no other: dspHead holds the DSP's *)
(* read position in the ARM->DSP ring and its write position in the        *)
(* DSP->ARM ring, armHead the ARM's.  A call of the DSP is several steps:  *)
(* it snapshots both heads, copies with one or two memcpys, and publishes  *)
(* its own head; the ARM moves between any two of them.                    *)
(*                                                                         *)
(* The ARM's side is outside the repository.  It is modelled as the peer   *)
(* the code assumes: the same ring discipline, mirrored, with its reader   *)
(* and its writer independent of each other.                               *)
(*                                                                         *)
(* WritePublishClobber and ReadableUnwrapped are mistakes, kept to show    *)
(* which property sees them.                                               *)
(***************************************************************************)
EXTENDS SharespaceRing

CONSTANTS Byte,         \* the values of a byte
          Junk,         \* what a cell holds before anything is written to it
          DspMsgs,      \* the messages sharespace_write is called with
          ReadMax,      \* the max_len values sharespace_read is called with
          ArmMsgs       \* the messages the ARM writes

ASSUME MsgAssumption ==
    /\ Junk \notin Byte
    /\ DspMsgs \subseteq Seq(Byte) \ {<< >>}
    /\ ArmMsgs \subseteq Seq(Byte) \ {<< >>}
    /\ ReadMax \subseteq Nat \ {0}

VARIABLES toArm,        \* dsp_writes_to_arm, the DSP->ARM region
          toDsp,        \* dsp_reads_from_arm, the ARM->DSP region
          dspHead,      \* *dsp_head_ptr
          armHead,      \* *arm_head_ptr
          dsp,          \* the DSP's call in progress, or the last one's result
          armR,         \* the ARM's reader
          armW          \* the ARM's writer

vars == <<toArm, toDsp, dspHead, armHead, dsp, armR, armW>>

Empty == [c \in Cells |-> Junk]

Init ==
    /\ toArm = Empty /\ toDsp = Empty
    /\ dspHead = [read_addr |-> MIN_ADDR, write_addr |-> MIN_ADDR]
    /\ armHead = [read_addr |-> MIN_ADDR, write_addr |-> MIN_ADDR]
    /\ dsp = [op |-> "none", pc |-> "idle", buf |-> << >>, n |-> 0]
    /\ armR = [pc |-> "idle", buf |-> << >>, n |-> 0]
    /\ armW = [pc |-> "idle", buf |-> << >>]

-----------------------------------------------------------------------------
(***************************************************************************)
(* sharespace_write(buf, len).  n is the call's length while it runs and   *)
(* its result once pc is back at "idle": len, or -1 for a full ring.       *)
(***************************************************************************)
WriteRefuse(msg) ==
    /\ dsp.pc = "idle"
    /\ FreeSize(armHead.read_addr, dspHead.write_addr) <= Len(msg)
    /\ dsp' = [op |-> "write", pc |-> "idle", buf |-> msg, n |-> -1]
    /\ UNCHANGED <<toArm, toDsp, dspHead, armHead, armR, armW>>

WriteBegin(msg) ==
    /\ dsp.pc = "idle"
    /\ FreeSize(armHead.read_addr, dspHead.write_addr) > Len(msg)
    /\ dsp' = [op |-> "write", pc |-> "copy1", buf |-> msg, n |-> Len(msg)]
    /\ UNCHANGED <<toArm, toDsp, dspHead, armHead, armR, armW>>

\* What remains to do after the first memcpy.
AfterCopy1(a, n) == IF FirstLen(a, n) < n THEN "copy2" ELSE "publish"

WriteCopy1 ==
    LET a == dspHead.write_addr  IN
    /\ dsp.op = "write" /\ dsp.pc = "copy1"
    /\ toArm' = Store(toArm, a, SubSeq(dsp.buf, 1, FirstLen(a, dsp.n)))
    /\ dsp' = [dsp EXCEPT !.pc = AfterCopy1(a, dsp.n)]
    /\ UNCHANGED <<toDsp, dspHead, armHead, armR, armW>>

WriteCopy2 ==
    LET a == dspHead.write_addr  IN
    /\ dsp.op = "write" /\ dsp.pc = "copy2"
    /\ toArm' = Store(toArm, MIN_ADDR,
                      SubSeq(dsp.buf, FirstLen(a, dsp.n) + 1, dsp.n))
    /\ dsp' = [dsp EXCEPT !.pc = "publish"]
    /\ UNCHANGED <<toDsp, dspHead, armHead, armR, armW>>

WritePublishClobber ==
    /\ dsp.op = "write" /\ dsp.pc = "publish"
    /\ dspHead' = [read_addr |-> MIN_ADDR,
                   write_addr |-> Advance(dspHead.write_addr, dsp.n)]
    /\ dsp' = [dsp EXCEPT !.pc = "idle"]
    /\ UNCHANGED <<toArm, toDsp, armHead, armR, armW>>

WritePublish ==
    /\ dsp.op = "write" /\ dsp.pc = "publish"
    /\ dspHead' = [dspHead EXCEPT !.write_addr = Advance(@, dsp.n)]
    /\ dsp' = [dsp EXCEPT !.pc = "idle"]
    /\ UNCHANGED <<toArm, toDsp, armHead, armR, armW>>

(***************************************************************************)
(* sharespace_read(buf, max_len).                                          *)
(***************************************************************************)
ReadableUnwrapped ==
    IF dspHead.read_addr < armHead.write_addr
      THEN MsgSize(dspHead.read_addr, armHead.write_addr) ELSE 0

Readable == MsgSize(dspHead.read_addr, armHead.write_addr)

ReadEmpty ==
    /\ dsp.pc = "idle"
    /\ Readable = 0
    /\ dsp' = [op |-> "read", pc |-> "idle", buf |-> << >>, n |-> 0]
    /\ UNCHANGED <<toArm, toDsp, dspHead, armHead, armR, armW>>

ReadBegin(max_len) ==
    /\ dsp.pc = "idle"
    /\ Readable > 0
    /\ dsp' = [op |-> "read", pc |-> "copy1", buf |-> << >>,
               n |-> IF Readable < max_len THEN Readable ELSE max_len]
    /\ UNCHANGED <<toArm, toDsp, dspHead, armHead, armR, armW>>

ReadCopy1 ==
    LET a == dspHead.read_addr  IN
    /\ dsp.op = "read" /\ dsp.pc = "copy1"
    /\ dsp' = [dsp EXCEPT !.pc = AfterCopy1(a, dsp.n),
                          !.buf = Load(toDsp, a, FirstLen(a, dsp.n))]
    /\ UNCHANGED <<toArm, toDsp, dspHead, armHead, armR, armW>>

ReadCopy2 ==
    LET a == dspHead.read_addr  IN
    /\ dsp.op = "read" /\ dsp.pc = "copy2"
    /\ dsp' = [dsp EXCEPT !.pc = "publish",
                          !.buf = @ \o Load(toDsp, MIN_ADDR, dsp.n - FirstLen(a, dsp.n))]
    /\ UNCHANGED <<toArm, toDsp, dspHead, armHead, armR, armW>>

ReadPublish ==
    /\ dsp.op = "read" /\ dsp.pc = "publish"
    /\ dspHead' = [dspHead EXCEPT !.read_addr = Advance(@, dsp.n)]
    /\ dsp' = [dsp EXCEPT !.pc = "idle"]
    /\ UNCHANGED <<toArm, toDsp, armHead, armR, armW>>

-----------------------------------------------------------------------------
(***************************************************************************)
(* The ARM, external.  Its reader takes any part of what it sees published.*)
(***************************************************************************)
ArmReadBegin ==
    /\ armR.pc = "idle"
    /\ \E n \in 1 .. MsgSize(armHead.read_addr, dspHead.write_addr) :
         armR' = [pc |-> "copy", buf |-> << >>, n |-> n]
    /\ UNCHANGED <<toArm, toDsp, dspHead, armHead, dsp, armW>>

ArmReadCopy ==
    /\ armR.pc = "copy"
    /\ armR' = [armR EXCEPT !.pc = "publish",
                  !.buf = [i \in 1 .. armR.n |-> toArm[At(armHead.read_addr, i - 1)]]]
    /\ UNCHANGED <<toArm, toDsp, dspHead, armHead, dsp, armW>>

ArmReadPublish ==
    /\ armR.pc = "publish"
    /\ armHead' = [armHead EXCEPT !.read_addr = At(@, armR.n)]
    /\ armR' = [armR EXCEPT !.pc = "idle"]
    /\ UNCHANGED <<toArm, toDsp, dspHead, dsp, armW>>

ArmWriteBegin ==
    /\ armW.pc = "idle"
    /\ \E msg \in ArmMsgs :
         /\ FreeSize(dspHead.read_addr, armHead.write_addr) > Len(msg)
         /\ armW' = [pc |-> "copy", buf |-> msg]
    /\ UNCHANGED <<toArm, toDsp, dspHead, armHead, dsp, armR>>

ArmWriteCopy ==
    LET a == armHead.write_addr
        Put(c) == {i \in 1 .. Len(armW.buf) : c = At(a, i - 1)}  IN
    /\ armW.pc = "copy"
    /\ toDsp' = [c \in Cells |-> IF Put(c) # {} THEN armW.buf[CHOOSE i \in Put(c) : TRUE]
                                               ELSE toDsp[c]]
    /\ armW' = [armW EXCEPT !.pc = "publish"]
    /\ UNCHANGED <<toArm, dspHead, armHead, dsp, armR>>

ArmWritePublish ==
    /\ armW.pc = "publish"
    /\ armHead' = [armHead EXCEPT !.write_addr = At(@, Len(armW.buf))]
    /\ armW' = [pc |-> "idle", buf |-> << >>]
    /\ UNCHANGED <<toArm, toDsp, dspHead, dsp, armR>>

-----------------------------------------------------------------------------
Write == \E msg \in DspMsgs : WriteRefuse(msg) \/ WriteBegin(msg)

Read == \E max_len \in ReadMax : ReadEmpty \/ ReadBegin(max_len)

\* The steps of a call after its first.
DspStep == WriteCopy1 \/ WriteCopy2 \/ WritePublish
             \/ ReadCopy1 \/ ReadCopy2 \/ ReadPublish

ArmReader == ArmReadBegin \/ ArmReadCopy \/ ArmReadPublish

ArmWriter == ArmWriteBegin \/ ArmWriteCopy \/ ArmWritePublish

Next == Write \/ Read \/ DspStep \/ ArmReader \/ ArmWriter

Spec == Init /\ [][Next]_vars

-----------------------------------------------------------------------------
Heads == [read_addr : Addr, write_addr : Addr]

(***************************************************************************)
(* The variables' types: positions stay inside the data ring.              *)
(***************************************************************************)
TypeOK ==
    /\ toArm \in [Cells -> Byte \cup {Junk}]
    /\ toDsp \in [Cells -> Byte \cup {Junk}]
    /\ dspHead \in Heads
    /\ armHead \in Heads
    /\ dsp \in [op : {"none", "write", "read"}, n : -1 .. RingSize - 1,
                pc : {"idle", "copy1", "copy2", "publish"},
                buf : Seq(Byte \cup {Junk})]
    /\ armR \in [pc : {"idle", "copy", "publish"}, n : 0 .. RingSize - 1,
                 buf : Seq(Byte \cup {Junk})]
    /\ armW \in [pc : {"idle", "copy", "publish"}, buf : Seq(Byte)]

(***************************************************************************)
(* What a call or the ARM found free or readable in its snapshot stays so  *)
(* until it publishes, whatever the other side does meanwhile.             *)
(***************************************************************************)
Reserved ==
    /\ dsp.pc # "idle" => dsp.op \in {"write", "read"} /\ dsp.n > 0
    /\ dsp.op = "write" /\ dsp.pc # "idle" =>
         /\ dsp.buf \in Seq(Byte) /\ dsp.n = Len(dsp.buf)
         /\ dsp.n < FreeSize(armHead.read_addr, dspHead.write_addr)
    /\ dsp.op = "read" /\ dsp.pc # "idle" => dsp.n <= Readable
    /\ armR.pc # "idle" =>
         armR.n <= MsgSize(armHead.read_addr, dspHead.write_addr)
    /\ armW.pc # "idle" =>
         Len(armW.buf) < FreeSize(dspHead.read_addr, armHead.write_addr)

(***************************************************************************)
(* The cells the DSP's next memcpy of a call op touches, with a the call's *)
(* position in the ring.                                                   *)
(***************************************************************************)
DspCells(op, a) ==
    IF dsp.op # op THEN {}
    ELSE CASE dsp.pc = "copy1" -> a .. (a + FirstLen(a, dsp.n) - 1)
           [] dsp.pc = "copy2" -> MIN_ADDR .. (MIN_ADDR + dsp.n - FirstLen(a, dsp.n) - 1)
           [] OTHER -> {}

ArmReadCells  == IF armR.pc = "copy" THEN Span(armHead.read_addr, armR.n) ELSE {}
ArmWriteCells == IF armW.pc = "copy" THEN Span(armHead.write_addr, Len(armW.buf)) ELSE {}

(***************************************************************************)
(* The memcpys of the two processors never touch a cell at the same time   *)
(* when one of them writes it: the heads snapshotted at a call's start may *)
(* be stale when it copies, and are stale only on the safe side.           *)
(***************************************************************************)
NoCopyRace ==
    /\ DspCells("write", dspHead.write_addr) \cap ArmReadCells = {}
    /\ DspCells("read", dspHead.read_addr) \cap ArmWriteCells = {}

(***************************************************************************)
(* No copy leaves the data ring: the bytes below MIN_ADDR and the MsgHead  *)
(* at MAX_ADDR are never overwritten with data.                            *)
(***************************************************************************)
HeadsNotOverwritten ==
    \A c \in Cells \ Addr : toArm[c] = Junk /\ toDsp[c] = Junk

(***************************************************************************)
(* The two directions are the bounded byte streams of ByteFifo.            *)
(***************************************************************************)
ToArm == INSTANCE ByteFifo WITH
    Capacity <- RingSize,
    fifo <- Contents(toArm, armHead.read_addr, dspHead.write_addr),
    offered <- IF dsp.op = "write" /\ dsp.pc # "idle" THEN dsp.buf ELSE << >>,
    taken <- IF armR.pc = "idle" THEN armR.buf ELSE << >>

ToDsp == INSTANCE ByteFifo WITH
    Capacity <- RingSize,
    fifo <- Contents(toDsp, dspHead.read_addr, armHead.write_addr),
    offered <- armW.buf,
    taken <- IF dsp.op = "read" /\ dsp.pc = "idle" THEN dsp.buf ELSE << >>

(***************************************************************************)
(* Every byte sharespace_write accepted reaches the ARM once, in order, and*)
(* a message is appended whole or not at all.                              *)
(***************************************************************************)
ToArmIsFifo == ToArm!Spec

(***************************************************************************)
(* sharespace_read returns the bytes the ARM wrote, once, in order,        *)
(* whatever part of them each call asks for.                               *)
(***************************************************************************)
ToDspIsFifo == ToDsp!Spec
=============================================================================
