-------------------------- MODULE SharespaceProofs --------------------------
(***************************************************************************)
(* What holds of Sharespace for every ring size, every set of messages and *)
(* every set of read lengths, and of main() over it for all greetings,     *)
(* scripts and sizes of its buffer.                                        *)
(***************************************************************************)
EXTENDS EchoMain, SequenceTheorems, TLAPS

-----------------------------------------------------------------------------
(***************************************************************************)
(* The ring arithmetic of sharespace_write and sharespace_read.            *)
(***************************************************************************)

\* Advancing a position by less than the ring's size keeps it in the ring,
\* and is the position that many bytes further around.
LEMMA AdvanceInRing ==
    ASSUME NEW a \in Addr, NEW n \in 0 .. (RingSize - 1)
    PROVE  /\ At(a, n) \in Addr
           /\ Advance(a, n) = At(a, n)
  BY AddrAssumption DEF Addr, RingSize, At, Advance, FirstLen

\* free_size and msg_size are complementary.
LEMMA FreePlusUsed ==
    ASSUME NEW r \in Addr, NEW w \in Addr
    PROVE  /\ MsgSize(r, w) \in 0 .. (RingSize - 1)
           /\ FreeSize(r, w) = RingSize - MsgSize(r, w)
           /\ MsgSize(r, w) \in Nat /\ FreeSize(r, w) \in Nat
  BY AddrAssumption DEF Addr, RingSize, MsgSize, FreeSize

\* The writer's position moves: the bytes in the ring grow by as much.
LEMMA WriterAdvances ==
    ASSUME NEW r \in Addr, NEW w \in Addr, NEW n \in Nat,
           n < FreeSize(r, w)
    PROVE  MsgSize(r, At(w, n)) = MsgSize(r, w) + n
  BY AddrAssumption DEF Addr, RingSize, MsgSize, FreeSize, At

\* The reader's position moves: the bytes in the ring shrink by as much.
LEMMA ReaderAdvances ==
    ASSUME NEW r \in Addr, NEW w \in Addr, NEW n \in Nat,
           n <= MsgSize(r, w)
    PROVE  MsgSize(At(r, n), w) = MsgSize(r, w) - n
  BY AddrAssumption DEF Addr, RingSize, MsgSize, At

\* and the free space grows by as much.
LEMMA FreeGrows ==
    ASSUME NEW r \in Addr, NEW w \in Addr, NEW n \in Nat,
           n <= MsgSize(r, w)
    PROVE  FreeSize(At(r, n), w) = FreeSize(r, w) + n
  BY AddrAssumption DEF Addr, RingSize, MsgSize, FreeSize, At

\* Every byte of a message has its cell in the region.
LEMMA AtInCells ==
    ASSUME NEW a \in Addr, NEW n \in 0 .. (RingSize - 1), NEW i \in 1 .. n
    PROVE  At(a, i - 1) \in Cells
  BY AddrAssumption DEF At, Addr, Cells, RingSize

\* The bytes to be read and the bytes to be written are different bytes.
LEMMA ReadAndWriteDisjoint ==
    ASSUME NEW r \in Addr, NEW w \in Addr, NEW m \in Nat, NEW n \in Nat,
           m <= MsgSize(r, w), n < FreeSize(r, w)
    PROVE  Span(r, m) \cap Span(w, n) = {}
  <1>1. \A i \in 0 .. (m - 1), j \in 0 .. (n - 1) : At(r, i) # At(w, j)
    BY AddrAssumption DEF Addr, RingSize, MsgSize, FreeSize, At
  <1> QED BY <1>1 DEF Span
-----------------------------------------------------------------------------
(***************************************************************************)
(* Types and reservations: the inductive invariant.                        *)
(***************************************************************************)
IInv == TypeOK /\ Reserved

\* The cells of the ring are cells of the region.
LEMMA AddrInCells == Addr \subseteq Cells
  BY AddrAssumption DEF Addr, Cells

\* A memcpy into a region leaves a region.
LEMMA StoreType ==
    ASSUME NEW S, NEW mem \in [Cells -> S], NEW a \in Nat, NEW s \in Seq(S)
    PROVE  Store(mem, a, s) \in [Cells -> S]
  <1>1. \A c \in Cells : c \in a .. (a + Len(s) - 1) => s[c - a + 1] \in S
    <2> SUFFICES ASSUME NEW c \in Cells, c \in a .. (a + Len(s) - 1)
                 PROVE  s[c - a + 1] \in S
      OBVIOUS
    <2>1. c - a + 1 \in 1 .. Len(s)
      BY AddrAssumption DEF Cells
    <2> QED BY <2>1
  <1> QED BY <1>1 DEF Store

\* A function on 1 .. n with values in S is a sequence of n elements of S.
LEMMA FunctionIsSeq ==
    ASSUME NEW S, NEW n \in Nat, NEW f \in [1 .. n -> S]
    PROVE  f \in Seq(S) /\ Len(f) = n
  OBVIOUS

\* A memcpy out of a region gives bytes.
LEMMA LoadType ==
    ASSUME NEW S, NEW mem \in [Cells -> S], NEW a \in Addr, NEW n \in Nat,
           a + n <= MAX_ADDR
    PROVE  Load(mem, a, n) \in Seq(S) /\ Len(Load(mem, a, n)) = n
  <1>1. \A i \in 1 .. n : a + i - 1 \in Cells
    BY AddrAssumption DEF Addr, Cells
  <1>2. Load(mem, a, n) \in [1 .. n -> S]
    BY <1>1 DEF Load
  <1> QED BY <1>2, FunctionIsSeq

\* The lengths of the two memcpys of a copy, and where they end.
LEMMA FirstLenBounds ==
    ASSUME NEW a \in Addr, NEW n \in 0 .. (RingSize - 1)
    PROVE  /\ FirstLen(a, n) \in 0 .. n
           /\ a + FirstLen(a, n) <= MAX_ADDR
           /\ n > 0 => FirstLen(a, n) > 0
           /\ n - FirstLen(a, n) \in Nat
           /\ MIN_ADDR + (n - FirstLen(a, n)) <= MAX_ADDR
  BY AddrAssumption DEF Addr, RingSize, FirstLen
\* Advance by a number of bytes no greater than the ring's free space or
\* contents stays inside the ring.
LEMMA AdvanceStays ==
    ASSUME NEW a \in Addr, NEW r \in Addr, NEW w \in Addr, NEW n \in Nat,
           n < FreeSize(r, w) \/ n <= MsgSize(r, w)
    PROVE  /\ n \in 0 .. (RingSize - 1)
           /\ Advance(a, n) = At(a, n)
           /\ At(a, n) \in Addr
  <1>1. n \in 0 .. (RingSize - 1)
    BY AddrAssumption, FreePlusUsed DEF RingSize
  <1> QED BY <1>1, AdvanceInRing

LEMMA InitIInv == Init => IInv
  <1> SUFFICES ASSUME Init PROVE IInv
    OBVIOUS
  <1>1. MIN_ADDR \in Addr /\ -1 <= RingSize - 1 /\ 0 \in 0 .. (RingSize - 1)
        /\ 0 \in -1 .. (RingSize - 1)
    BY AddrAssumption DEF Addr, RingSize
  <1>2. << >> \in Seq(Byte) /\ << >> \in Seq(Byte \cup {Junk})
    OBVIOUS
  <1> QED BY <1>1, <1>2 DEF IInv, Init, TypeOK, Reserved, Empty, Heads

\* A write found room: from here on Reserved protects it.
LEMMA CallWriteKeepsIInv ==
    ASSUME IInv, NEW msg \in Seq(Byte) \ {<< >>}, WriteRefuse(msg) \/ WriteBegin(msg)
    PROVE  IInv'
  <1>1. msg \in Seq(Byte) /\ msg # << >> /\ msg \in Seq(Byte \cup {Junk})
    OBVIOUS
  <1>2. Len(msg) \in Nat /\ Len(msg) > 0
    BY <1>1
  <1>3. armHead.read_addr \in Addr /\ dspHead.write_addr \in Addr
    BY DEF IInv, TypeOK, Heads
  <1>4. CASE WriteRefuse(msg)
    BY <1>1, <1>4, AddrAssumption DEF WriteRefuse, IInv, TypeOK, Reserved, RingSize, Readable
  <1>5. CASE WriteBegin(msg)
    <2>1. Len(msg) \in -1 .. (RingSize - 1)
      BY <1>2, <1>3, <1>5, AdvanceStays, AddrAssumption DEF WriteBegin, RingSize
    <2> QED BY <1>1, <1>2, <1>5, <2>1 DEF WriteBegin, IInv, TypeOK, Reserved, Readable
  <1> QED BY <1>4, <1>5

LEMMA WriteKeepsIInv ==
    ASSUME IInv, Write
    PROVE  IInv'
  <1> PICK msg \in DspMsgs : WriteRefuse(msg) \/ WriteBegin(msg)
    BY DEF Write
  <1>1. msg \in Seq(Byte) \ {<< >>}
    BY MsgAssumption
  <1> QED BY <1>1, CallWriteKeepsIInv

LEMMA CallReadKeepsIInv ==
    ASSUME IInv, NEW max_len \in Nat \ {0}, ReadEmpty \/ ReadBegin(max_len)
    PROVE  IInv'
  <1>1. max_len \in Nat /\ max_len > 0
    OBVIOUS
  <1>2. Readable \in 0 .. (RingSize - 1)
    BY FreePlusUsed DEF IInv, TypeOK, Heads, Readable
  <1>3. << >> \in Seq(Byte \cup {Junk})
    OBVIOUS
  <1>4. CASE ReadEmpty
    BY <1>3, <1>4, AddrAssumption DEF ReadEmpty, IInv, TypeOK, Reserved, RingSize, Readable
  <1>5. CASE ReadBegin(max_len)
    <2> DEFINE n == IF Readable < max_len THEN Readable ELSE max_len
    <2>1. n \in -1 .. (RingSize - 1) /\ n > 0 /\ n <= Readable
      BY <1>1, <1>2, <1>5, AddrAssumption DEF ReadBegin, RingSize
    <2>2. Readable' = Readable
      BY <1>5 DEF ReadBegin, Readable
    <2>3. dsp' = [op |-> "read", pc |-> "copy1", buf |-> << >>, n |-> n]
      BY <1>5 DEF ReadBegin
    <2> HIDE DEF n
    <2> QED BY <1>3, <1>5, <2>1, <2>2, <2>3 DEF ReadBegin, IInv, TypeOK, Reserved
  <1> QED BY <1>4, <1>5

LEMMA ReadKeepsIInv ==
    ASSUME IInv, Read
    PROVE  IInv'
  <1> PICK max_len \in ReadMax : ReadEmpty \/ ReadBegin(max_len)
    BY DEF Read
  <1>1. max_len \in Nat \ {0}
    BY MsgAssumption
  <1> QED BY <1>1, CallReadKeepsIInv

\* The four snapshots a call and the ARM work with are lengths of the ring.
LEMMA PositionsAndLengths ==
    ASSUME IInv
    PROVE  /\ armHead.read_addr \in Addr /\ armHead.write_addr \in Addr
           /\ dspHead.read_addr \in Addr /\ dspHead.write_addr \in Addr
           /\ dsp.pc # "idle" => dsp.n \in 1 .. (RingSize - 1)
           /\ armR.n \in 0 .. (RingSize - 1)
           /\ Len(armW.buf) \in Nat
           /\ RingSize \in Nat
  <1>1. dsp.n \in -1 .. (RingSize - 1) /\ (dsp.pc # "idle" => dsp.n > 0)
    BY DEF IInv, TypeOK, Reserved
  <1>2. RingSize \in Nat
    BY AddrAssumption DEF RingSize
  <1> QED BY <1>1, <1>2 DEF IInv, TypeOK, Heads

\* A part of a sequence is a sequence.
LEMMA PartOfSeq ==
    ASSUME NEW S, NEW T, S \subseteq T, NEW s \in Seq(S),
           NEW i \in Nat, i > 0, NEW j \in Nat, j <= Len(s)
    PROVE  SubSeq(s, i, j) \in Seq(T)
  <1>1. s \in Seq(T)
    OBVIOUS
  <1> QED BY <1>1, SubSeqProperties

LEMMA DspStepKeepsIInv ==
    ASSUME IInv, DspStep
    PROVE  IInv'
  <1> DEFINE w == dspHead.write_addr
             r == dspHead.read_addr
             B == Byte \cup {Junk}
  <1>p. /\ armHead.read_addr \in Addr /\ armHead.write_addr \in Addr
        /\ dspHead.read_addr \in Addr /\ dspHead.write_addr \in Addr
        /\ dsp.pc # "idle" => dsp.n \in 1 .. (RingSize - 1)
        /\ armR.n \in 0 .. (RingSize - 1)
        /\ Len(armW.buf) \in Nat
        /\ RingSize \in Nat
    BY PositionsAndLengths
  <1> USE <1>p
  <1>0. dsp.pc # "idle" =>
          /\ FirstLen(w, dsp.n) \in 0 .. dsp.n /\ FirstLen(r, dsp.n) \in 0 .. dsp.n
          /\ r + FirstLen(r, dsp.n) <= MAX_ADDR
          /\ dsp.n - FirstLen(r, dsp.n) \in Nat
          /\ MIN_ADDR + (dsp.n - FirstLen(r, dsp.n)) <= MAX_ADDR
    <2> SUFFICES ASSUME dsp.pc # "idle" PROVE <1>0!2
      OBVIOUS
    <2>1. dsp.n \in 0 .. (RingSize - 1)
      BY AddrAssumption DEF RingSize
    <2> QED BY <2>1, FirstLenBounds
  <1>1. CASE WriteCopy1
    <2>1. dsp.buf \in Seq(Byte) /\ dsp.n = Len(dsp.buf)
      BY <1>1 DEF WriteCopy1, IInv, Reserved
    <2>2. SubSeq(dsp.buf, 1, FirstLen(w, dsp.n)) \in Seq(Byte \cup {Junk})
      BY <1>0, <1>1, <2>1, PartOfSeq DEF WriteCopy1
    <2>3. toArm' \in [Cells -> Byte \cup {Junk}]
      <3>1. w \in Nat /\ toArm \in [Cells -> B]
        BY AddrAssumption DEF Addr, IInv, TypeOK
      <3> QED BY <1>1, <2>2, <3>1, StoreType DEF WriteCopy1
    <2>4. AfterCopy1(w, dsp.n) \in {"copy2", "publish"}
      BY DEF AfterCopy1
    <2>5. Reserved'
      BY <1>1, <2>1, <2>4 DEF WriteCopy1, IInv, TypeOK, Reserved, Readable
    <2> QED BY <1>1, <2>3, <2>4, <2>5 DEF WriteCopy1, IInv, TypeOK
  <1>2. CASE WriteCopy2
    <2>1. dsp.buf \in Seq(Byte) /\ dsp.n = Len(dsp.buf)
      BY <1>2 DEF WriteCopy2, IInv, Reserved
    <2>2. SubSeq(dsp.buf, FirstLen(w, dsp.n) + 1, dsp.n) \in Seq(Byte \cup {Junk})
      BY <1>0, <1>2, <2>1, PartOfSeq DEF WriteCopy2
    <2>3. toArm' \in [Cells -> Byte \cup {Junk}]
      <3>1. MIN_ADDR \in Nat /\ toArm \in [Cells -> B]
        BY AddrAssumption DEF IInv, TypeOK
      <3> QED BY <1>2, <2>2, <3>1, StoreType DEF WriteCopy2
    <2>5. Reserved'
      BY <1>2, <2>1 DEF WriteCopy2, IInv, TypeOK, Reserved, Readable
    <2> QED BY <1>2, <2>3, <2>5 DEF WriteCopy2, IInv, TypeOK
  <1>3. CASE WritePublish
    <2>1. /\ dsp.n \in Nat /\ dsp.n < FreeSize(armHead.read_addr, w)
      BY <1>3 DEF WritePublish, IInv, Reserved
    <2>2. /\ dspHead' = [read_addr |-> r, write_addr |-> At(w, dsp.n)]
          /\ At(w, dsp.n) \in Addr
      BY <1>3, <2>1, AdvanceStays DEF WritePublish, IInv, TypeOK, Heads
    <2>3. MsgSize(armHead.read_addr, At(w, dsp.n)) = MsgSize(armHead.read_addr, w) + dsp.n
      BY <2>1, WriterAdvances
    <2>4. armR.pc # "idle" => armR.n <= MsgSize(armHead.read_addr, At(w, dsp.n))
      <3>1. armR.pc # "idle" => armR.n <= MsgSize(armHead.read_addr, w)
        BY DEF IInv, Reserved
      <3>2. MsgSize(armHead.read_addr, w) \in Nat
        BY FreePlusUsed
      <3> QED BY <2>1, <2>3, <3>1, <3>2
    <2>5. TypeOK'
      <3>1. dspHead' \in Heads
        BY <2>2 DEF Heads
      <3> QED BY <1>3, <3>1 DEF WritePublish, IInv, TypeOK
    <2>6. Reserved'
      BY <1>3, <2>2, <2>4 DEF WritePublish, IInv, Reserved
    <2> QED BY <2>5, <2>6 DEF IInv
  <1>4. CASE ReadCopy1
    <2>1. Load(toDsp, r, FirstLen(r, dsp.n)) \in Seq(Byte \cup {Junk})
      <3>1. toDsp \in [Cells -> B] /\ FirstLen(r, dsp.n) \in Nat
        BY <1>0, <1>4 DEF ReadCopy1, IInv, TypeOK
      <3> QED BY <1>0, <1>4, <3>1, LoadType DEF ReadCopy1
    <2>2. AfterCopy1(r, dsp.n) \in {"copy2", "publish"}
      BY DEF AfterCopy1
    <2> QED BY <1>4, <2>1, <2>2 DEF ReadCopy1, IInv, TypeOK, Reserved, Readable
  <1>5. CASE ReadCopy2
    <2>1. MIN_ADDR \in Addr
      BY AddrAssumption DEF Addr
    <2>2. Load(toDsp, MIN_ADDR, dsp.n - FirstLen(r, dsp.n)) \in Seq(Byte \cup {Junk})
      <3>1. toDsp \in [Cells -> B]
        BY DEF IInv, TypeOK
      <3> QED BY <1>0, <1>5, <2>1, <3>1, LoadType DEF ReadCopy2
    <2>3. dsp.buf \o Load(toDsp, MIN_ADDR, dsp.n - FirstLen(r, dsp.n)) \in Seq(Byte \cup {Junk})
      BY <2>2 DEF IInv, TypeOK
    <2> QED BY <1>5, <2>3 DEF ReadCopy2, IInv, TypeOK, Reserved, Readable
  <1>6. CASE ReadPublish
    <2>1. /\ dsp.n \in Nat /\ dsp.n <= MsgSize(r, armHead.write_addr)
      BY <1>6 DEF ReadPublish, IInv, Reserved, Readable
    <2>2. /\ dspHead' = [read_addr |-> At(r, dsp.n), write_addr |-> w]
          /\ At(r, dsp.n) \in Addr
      BY <1>6, <2>1, AdvanceStays DEF ReadPublish, IInv, TypeOK, Heads
    <2>4. armW.pc # "idle" => Len(armW.buf) < FreeSize(At(r, dsp.n), armHead.write_addr)
      <3>1. armW.pc # "idle" => Len(armW.buf) < FreeSize(r, armHead.write_addr)
        BY DEF IInv, Reserved
      <3>2. FreeSize(r, armHead.write_addr) \in Nat
        BY FreePlusUsed
      <3>3. FreeSize(At(r, dsp.n), armHead.write_addr)
              = FreeSize(r, armHead.write_addr) + dsp.n
        BY <2>1, FreeGrows
      <3> QED BY <2>1, <3>1, <3>2, <3>3
    <2>5. TypeOK'
      <3>1. dspHead' \in Heads
        BY <2>2 DEF Heads
      <3>2. dsp' \in [op : {"none", "write", "read"}, n : -1 .. RingSize - 1,
                      pc : {"idle", "copy1", "copy2", "publish"},
                      buf : Seq(Byte \cup {Junk})]
        BY <1>6 DEF ReadPublish, IInv, TypeOK
      <3> QED BY <1>6, <3>1, <3>2 DEF ReadPublish, IInv, TypeOK
    <2>6. Reserved'
      BY <1>6, <2>2, <2>4 DEF ReadPublish, IInv, Reserved
    <2> QED BY <2>5, <2>6 DEF IInv
  <1> QED BY <1>1, <1>2, <1>3, <1>4, <1>5, <1>6 DEF DspStep
LEMMA ArmReaderKeepsIInv ==
    ASSUME IInv, ArmReader
    PROVE  IInv'
  <1> DEFINE r == armHead.read_addr
             w == dspHead.write_addr
             B == Byte \cup {Junk}
  <1>p. /\ armHead.read_addr \in Addr /\ armHead.write_addr \in Addr
        /\ dspHead.read_addr \in Addr /\ dspHead.write_addr \in Addr
        /\ dsp.pc # "idle" => dsp.n \in 1 .. (RingSize - 1)
        /\ armR.n \in 0 .. (RingSize - 1)
        /\ Len(armW.buf) \in Nat
        /\ RingSize \in Nat
    BY PositionsAndLengths
  <1> USE <1>p
  <1>0. MsgSize(r, w) \in 0 .. (RingSize - 1)
    BY FreePlusUsed
  <1>1. CASE ArmReadBegin
    <2>1. PICK n \in 1 .. MsgSize(r, w) : armR' = [pc |-> "copy", buf |-> << >>, n |-> n]
      BY <1>1 DEF ArmReadBegin
    <2>2. n \in 0 .. (RingSize - 1) /\ n <= MsgSize(r, w)
      BY <1>0, AddrAssumption DEF RingSize
    <2>3. << >> \in Seq(Byte \cup {Junk})
      OBVIOUS
    <2>4. TypeOK'
      BY <1>1, <2>1, <2>2, <2>3 DEF ArmReadBegin, IInv, TypeOK
    <2>5. Reserved'
      BY <1>1, <2>1, <2>2 DEF ArmReadBegin, IInv, Reserved, Readable
    <2> QED BY <2>4, <2>5 DEF IInv
  <1>2. CASE ArmReadCopy
    <2> DEFINE piece == [i \in 1 .. armR.n |-> toArm[At(r, i - 1)]]
    <2>1. \A i \in 1 .. armR.n : At(r, i - 1) \in Cells
      BY AtInCells
    <2>2. toArm \in [Cells -> B]
      BY DEF IInv, TypeOK
    <2>3. piece \in [1 .. armR.n -> B]
      BY <2>1, <2>2
    <2>4. piece \in Seq(B)
      <3>1. armR.n \in Nat
        BY AddrAssumption DEF RingSize
      <3> HIDE DEF piece
      <3> QED BY <2>3, <3>1, FunctionIsSeq
    <2>5. armR' = [armR EXCEPT !.pc = "publish", !.buf = piece]
      BY <1>2 DEF ArmReadCopy
    <2> HIDE DEF piece
    <2>6. TypeOK'
      BY <1>2, <2>4, <2>5 DEF ArmReadCopy, IInv, TypeOK
    <2>7. Reserved'
      BY <1>2, <2>5 DEF ArmReadCopy, IInv, TypeOK, Reserved, Readable
    <2> QED BY <2>6, <2>7 DEF IInv
  <1>3. CASE ArmReadPublish
    <2>1. armR.n \in Nat /\ armR.n <= MsgSize(r, w)
      BY <1>3, AddrAssumption DEF ArmReadPublish, IInv, Reserved, RingSize
    <2>2. At(r, armR.n) \in Addr
      BY <2>1, AdvanceStays
    <2>3. armHead' = [read_addr |-> At(r, armR.n), write_addr |-> armHead.write_addr]
      BY <1>3 DEF ArmReadPublish, IInv, TypeOK, Heads
    <2>5. dsp.op = "write" /\ dsp.pc # "idle" => dsp.n < FreeSize(At(r, armR.n), w)
      <3>1. dsp.op = "write" /\ dsp.pc # "idle" => dsp.n < FreeSize(r, w)
        BY DEF IInv, Reserved
      <3>2. FreeSize(r, w) \in Nat
        BY FreePlusUsed
      <3>3. FreeSize(At(r, armR.n), w) = FreeSize(r, w) + armR.n
        BY <2>1, FreeGrows
      <3> QED BY <2>1, <3>1, <3>2, <3>3
    <2>6. TypeOK'
      BY <1>3, <2>2, <2>3 DEF ArmReadPublish, IInv, TypeOK, Heads
    <2>7. Reserved'
      BY <1>3, <2>3, <2>5 DEF ArmReadPublish, IInv, TypeOK, Reserved, Readable
    <2> QED BY <2>6, <2>7 DEF IInv
  <1> QED BY <1>1, <1>2, <1>3 DEF ArmReader

LEMMA ArmWriterKeepsIInv ==
    ASSUME IInv, ArmWriter
    PROVE  IInv'
  <1> DEFINE r == dspHead.read_addr
             w == armHead.write_addr
             B == Byte \cup {Junk}
  <1>p. /\ armHead.read_addr \in Addr /\ armHead.write_addr \in Addr
        /\ dspHead.read_addr \in Addr /\ dspHead.write_addr \in Addr
        /\ dsp.pc # "idle" => dsp.n \in 1 .. (RingSize - 1)
        /\ armR.n \in 0 .. (RingSize - 1)
        /\ Len(armW.buf) \in Nat
        /\ RingSize \in Nat
    BY PositionsAndLengths
  <1> USE <1>p
  <1>1. CASE ArmWriteBegin
    <2>1. PICK msg \in ArmMsgs : /\ FreeSize(r, w) > Len(msg)
                                 /\ armW' = [pc |-> "copy", buf |-> msg]
      BY <1>1 DEF ArmWriteBegin
    <2>2. msg \in Seq(Byte) /\ Len(msg) \in Nat
      BY MsgAssumption
    <2>3. FreeSize(r, w) \in Nat
      BY FreePlusUsed
    <2>4. TypeOK'
      BY <1>1, <2>1, <2>2 DEF ArmWriteBegin, IInv, TypeOK
    <2>5. Reserved'
      BY <1>1, <2>1, <2>2, <2>3 DEF ArmWriteBegin, IInv, Reserved, Readable
    <2> QED BY <2>4, <2>5 DEF IInv
  <1>2. CASE ArmWriteCopy
    <2> DEFINE Put(c) == {i \in 1 .. Len(armW.buf) : c = At(w, i - 1)}
               val(c) == armW.buf[CHOOSE i \in Put(c) : TRUE]
    <2>1. \A c \in Cells : Put(c) # {} => val(c) \in Byte
      <3> SUFFICES ASSUME NEW c \in Cells, Put(c) # {} PROVE val(c) \in Byte
        OBVIOUS
      <3>1. (CHOOSE i \in Put(c) : TRUE) \in Put(c)
        OBVIOUS
      <3>2. (CHOOSE i \in Put(c) : TRUE) \in 1 .. Len(armW.buf)
        BY <3>1
      <3>3. armW.buf \in Seq(Byte)
        BY DEF IInv, TypeOK
      <3> QED BY <3>2, <3>3
    <2>2. toDsp' = [c \in Cells |-> IF Put(c) # {} THEN val(c) ELSE toDsp[c]]
      BY <1>2 DEF ArmWriteCopy
    <2>3. toDsp \in [Cells -> B]
      BY DEF IInv, TypeOK
    <2> HIDE DEF Put, val
    <2>4. toDsp' \in [Cells -> B]
      BY <2>1, <2>2, <2>3
    <2>5. TypeOK'
      BY <1>2, <2>4 DEF ArmWriteCopy, IInv, TypeOK
    <2>6. Reserved'
      BY <1>2 DEF ArmWriteCopy, IInv, TypeOK, Reserved, Readable
    <2> QED BY <2>5, <2>6 DEF IInv
  <1>3. CASE ArmWritePublish
    <2> DEFINE n == Len(armW.buf)
    <2>1. n \in Nat /\ n < FreeSize(r, w)
      BY <1>3 DEF ArmWritePublish, IInv, Reserved
    <2>2. At(w, n) \in Addr
      BY <2>1, AdvanceStays
    <2>3. armHead' = [read_addr |-> armHead.read_addr, write_addr |-> At(w, n)]
      BY <1>3 DEF ArmWritePublish, IInv, TypeOK, Heads
    <2>4. MsgSize(r, At(w, n)) = MsgSize(r, w) + n
      BY <2>1, WriterAdvances
    <2>5. dsp.op = "read" /\ dsp.pc # "idle" => dsp.n <= MsgSize(r, At(w, n))
      <3>1. dsp.op = "read" /\ dsp.pc # "idle" => dsp.n <= MsgSize(r, w)
        BY DEF IInv, Reserved, Readable
      <3>2. MsgSize(r, w) \in Nat
        BY FreePlusUsed
      <3> QED BY <2>1, <2>4, <3>1, <3>2
    <2>6. << >> \in Seq(Byte)
      OBVIOUS
    <2> HIDE DEF n
    <2>7. TypeOK'
      <3>1. armHead' \in Heads
        BY <2>2, <2>3 DEF Heads
      <3>2. armW' \in [pc : {"idle", "copy", "publish"}, buf : Seq(Byte)]
        BY <1>3, <2>6 DEF ArmWritePublish
      <3> QED BY <1>3, <3>1, <3>2 DEF ArmWritePublish, IInv, TypeOK
    <2>8. Reserved'
      BY <1>3, <2>3, <2>5 DEF ArmWritePublish, IInv, TypeOK, Reserved, Readable
    <2> QED BY <2>7, <2>8 DEF IInv
  <1> QED BY <1>1, <1>2, <1>3 DEF ArmWriter

LEMMA NextKeepsIInv == IInv /\ [Next]_vars => IInv'
  <1> SUFFICES ASSUME IInv, [Next]_vars PROVE IInv'
    OBVIOUS
  <1>1. CASE UNCHANGED vars
    BY <1>1 DEF vars, IInv, TypeOK, Reserved, Readable
  <1> QED BY <1>1, WriteKeepsIInv, ReadKeepsIInv, DspStepKeepsIInv,
             ArmReaderKeepsIInv, ArmWriterKeepsIInv DEF Next

(***************************************************************************)
(* In every reachable state positions are inside the rings, and what a     *)
(* call's snapshot promised it still holds (sharespace_write 191-212,      *)
(* sharespace_read 251-274).                                               *)
(***************************************************************************)
THEOREM TypesAndReservations == Spec => [](TypeOK /\ Reserved)
  <1>1. Spec => []IInv
    BY InitIInv, NextKeepsIInv, PTL DEF Spec
  <1> QED BY <1>1, PTL DEF IInv

(***************************************************************************)
(* In particular no position ever leaves MIN_ADDR .. MAX_ADDR-1 (the wrap  *)
(* of sharespace_write 214-227 and sharespace_read 277-289).               *)
(***************************************************************************)
THEOREM PositionsStayInRing == Spec => []TypeOK
  BY TypesAndReservations, PTL

-----------------------------------------------------------------------------
(***************************************************************************)
(* A memcpy of the DSP stays within the cells its call reserved.           *)
(***************************************************************************)
LEMMA DspCellsInSpan ==
    ASSUME NEW op, NEW a \in Addr, dsp.pc # "idle" => dsp.n \in 1 .. (RingSize - 1)
    PROVE  DspCells(op, a) \subseteq (IF dsp.op = op /\ dsp.pc # "idle"
                                        THEN Span(a, dsp.n) ELSE {})
  <1> SUFFICES ASSUME NEW c \in DspCells(op, a)
               PROVE  dsp.op = op /\ dsp.pc # "idle" /\ c \in Span(a, dsp.n)
    OBVIOUS
  <1>1. dsp.op = op
    BY DEF DspCells
  <1>2. dsp.pc \in {"copy1", "copy2"}
    BY <1>1 DEF DspCells
  <1>3. dsp.n \in 1 .. (RingSize - 1)
    BY <1>2
  <1>4. CASE dsp.pc = "copy1"
    <2>1. c \in a .. (a + FirstLen(a, dsp.n) - 1)
      BY <1>1, <1>4 DEF DspCells
    <2>2. c - a \in 0 .. (dsp.n - 1) /\ At(a, c - a) = c
      BY <1>3, <2>1, AddrAssumption DEF Addr, RingSize, FirstLen, At
    <2> QED BY <1>1, <1>2, <2>2 DEF Span
  <1>5. CASE dsp.pc = "copy2"
    <2> DEFINE i == c - MIN_ADDR + MAX_ADDR - a
    <2>1. c \in MIN_ADDR .. (MIN_ADDR + dsp.n - FirstLen(a, dsp.n) - 1)
      BY <1>1, <1>5 DEF DspCells
    <2>2. i \in 0 .. (dsp.n - 1) /\ At(a, i) = c
      BY <1>3, <2>1, AddrAssumption DEF Addr, RingSize, FirstLen, At
    <2> QED BY <1>1, <1>2, <2>2 DEF Span
  <1> QED BY <1>2, <1>4, <1>5

(***************************************************************************)
(* The two processors' memcpys never conflict, for any ring and any        *)
(* interleaving of a call with the ARM.                                    *)
(***************************************************************************)
THEOREM CopiesNeverRace == Spec => []NoCopyRace
  <1>1. IInv => NoCopyRace
    <2> SUFFICES ASSUME IInv PROVE NoCopyRace
      OBVIOUS
    <2>p. /\ armHead.read_addr \in Addr /\ armHead.write_addr \in Addr
          /\ dspHead.read_addr \in Addr /\ dspHead.write_addr \in Addr
          /\ dsp.pc # "idle" => dsp.n \in 1 .. (RingSize - 1)
          /\ armR.n \in 0 .. (RingSize - 1)
          /\ Len(armW.buf) \in Nat
          /\ RingSize \in Nat
      BY PositionsAndLengths
    <2> USE <2>p
    <2>1. DspCells("write", dspHead.write_addr) \cap ArmReadCells = {}
      <3>1. CASE dsp.op = "write" /\ dsp.pc # "idle" /\ armR.pc = "copy"
        <4>1. dsp.n \in Nat /\ armR.n \in Nat
          BY <3>1, AddrAssumption DEF RingSize
        <4>2. Span(armHead.read_addr, armR.n) \cap Span(dspHead.write_addr, dsp.n) = {}
          BY <3>1, <4>1, ReadAndWriteDisjoint DEF IInv, Reserved
        <4> QED BY <3>1, <4>2, DspCellsInSpan DEF ArmReadCells
      <3> QED BY <3>1, DspCellsInSpan DEF ArmReadCells
    <2>2. DspCells("read", dspHead.read_addr) \cap ArmWriteCells = {}
      <3>1. CASE dsp.op = "read" /\ dsp.pc # "idle" /\ armW.pc = "copy"
        <4>1. dsp.n \in Nat /\ Len(armW.buf) \in Nat
          BY <3>1, AddrAssumption DEF RingSize
        <4>2. Span(dspHead.read_addr, dsp.n) \cap Span(armHead.write_addr, Len(armW.buf)) = {}
          BY <3>1, <4>1, ReadAndWriteDisjoint DEF IInv, Reserved, Readable
        <4> QED BY <3>1, <4>2, DspCellsInSpan DEF ArmWriteCells
      <3> QED BY <3>1, DspCellsInSpan DEF ArmWriteCells
    <2> QED BY <2>1, <2>2 DEF NoCopyRace
  <1>2. Spec => []IInv
    BY InitIInv, NextKeepsIInv, PTL DEF Spec
  <1> QED BY <1>1, <1>2, PTL
-----------------------------------------------------------------------------
\* A memcpy into the ring that ends inside it changes no other cell.
LEMMA StoreElsewhere ==
    ASSUME NEW mem, DOMAIN mem = Cells, NEW a \in Addr, NEW s, Len(s) \in Nat,
           a + Len(s) <= MAX_ADDR, NEW c \in Cells \ Addr
    PROVE  Store(mem, a, s)[c] = mem[c]
  <1>1. c \notin a .. (a + Len(s) - 1)
    BY AddrAssumption DEF Addr, Cells
  <1> QED BY <1>1 DEF Store

\* The length of a part of a message that starts within it.
LEMMA PartLength ==
    ASSUME NEW s \in Seq(Byte), NEW i \in Nat, i > 0, NEW j \in Nat, j <= Len(s), i <= j + 1
    PROVE  Len(SubSeq(s, i, j)) = j - i + 1
  <1>1. CASE i <= j
    BY <1>1, SubSeqProperties
  <1>2. CASE i = j + 1
    BY <1>2, SubSeqProperties
  <1> QED BY <1>1, <1>2

LEMMA DspStepKeepsHeads ==
    ASSUME IInv, HeadsNotOverwritten, DspStep
    PROVE  HeadsNotOverwritten'
  <1> DEFINE w == dspHead.write_addr
             f == FirstLen(w, dsp.n)
  <1>p. w \in Addr /\ DOMAIN toArm = Cells /\ MIN_ADDR \in Addr
    BY AddrAssumption, PositionsAndLengths DEF IInv, TypeOK, Addr
  <1>b. dsp.op = "write" /\ dsp.pc # "idle" =>
          /\ dsp.buf \in Seq(Byte) /\ dsp.n = Len(dsp.buf) /\ dsp.n \in Nat
          /\ f \in 0 .. dsp.n /\ w + f <= MAX_ADDR
          /\ MIN_ADDR + (dsp.n - f) <= MAX_ADDR
    <2> SUFFICES ASSUME dsp.op = "write", dsp.pc # "idle"
                 PROVE  <1>b!2
      OBVIOUS
    <2>1. dsp.buf \in Seq(Byte) /\ dsp.n = Len(dsp.buf)
      BY DEF IInv, Reserved
    <2>2. dsp.n \in 0 .. (RingSize - 1)
      <3>1. dsp.n \in 1 .. (RingSize - 1) /\ RingSize \in Nat
        BY PositionsAndLengths
      <3> QED BY <3>1
    <2>3. dsp.n \in Nat
      BY <2>2, AddrAssumption DEF RingSize
    <2> QED BY <1>p, <2>1, <2>2, <2>3, FirstLenBounds
  <1>1. CASE WriteCopy1
    <2> DEFINE s == SubSeq(dsp.buf, 1, f)
    <2>1. Len(s) = f
      BY <1>1, <1>b, PartLength DEF WriteCopy1
    <2>2. ASSUME NEW c \in Cells \ Addr PROVE toArm'[c] = toArm[c]
      <3>1. Len(s) \in Nat /\ w + Len(s) <= MAX_ADDR
        BY <1>1, <1>b, <2>1 DEF WriteCopy1
      <3>2. toArm' = Store(toArm, w, s)
        BY <1>1 DEF WriteCopy1
      <3>3. Store(toArm, w, s)[c] = toArm[c]
        <4> HIDE DEF s, w
        <4> QED BY <1>p, <3>1, StoreElsewhere
      <3> QED BY <3>2, <3>3
    <2>3. UNCHANGED toDsp
      BY <1>1 DEF WriteCopy1
    <2> QED BY <2>2, <2>3 DEF HeadsNotOverwritten
  <1>2. CASE WriteCopy2
    <2> DEFINE s == SubSeq(dsp.buf, f + 1, dsp.n)
    <2>1. Len(s) = dsp.n - f
      BY <1>2, <1>b, PartLength DEF WriteCopy2
    <2>2. ASSUME NEW c \in Cells \ Addr PROVE toArm'[c] = toArm[c]
      <3>1. Len(s) \in Nat /\ MIN_ADDR + Len(s) <= MAX_ADDR
        BY <1>2, <1>b, <2>1 DEF WriteCopy2
      <3>2. toArm' = Store(toArm, MIN_ADDR, s)
        BY <1>2 DEF WriteCopy2
      <3>3. Store(toArm, MIN_ADDR, s)[c] = toArm[c]
        <4> HIDE DEF s
        <4> QED BY <1>p, <3>1, StoreElsewhere
      <3> QED BY <3>2, <3>3
    <2>3. UNCHANGED toDsp
      BY <1>2 DEF WriteCopy2
    <2> QED BY <2>2, <2>3 DEF HeadsNotOverwritten
  <1>3. CASE WritePublish \/ ReadCopy1 \/ ReadCopy2 \/ ReadPublish
    BY <1>3 DEF WritePublish, ReadCopy1, ReadCopy2, ReadPublish, HeadsNotOverwritten
  <1> QED BY <1>1, <1>2, <1>3 DEF DspStep

LEMMA ArmWriterKeepsHeads ==
    ASSUME IInv, HeadsNotOverwritten, ArmWriter
    PROVE  HeadsNotOverwritten'
  <1> DEFINE a == armHead.write_addr
  <1>1. CASE ArmWriteCopy
    <2>1. ASSUME NEW c \in Cells \ Addr PROVE toDsp'[c] = toDsp[c]
      <3>1. a \in Addr /\ Len(armW.buf) \in Nat /\ RingSize \in Nat
        BY PositionsAndLengths
      <3>2. Len(armW.buf) < FreeSize(dspHead.read_addr, a) /\ dspHead.read_addr \in Addr
        BY <1>1, PositionsAndLengths DEF ArmWriteCopy, IInv, Reserved
      <3>3. Len(armW.buf) < RingSize
        <4>1. /\ MsgSize(dspHead.read_addr, a) \in Nat
              /\ FreeSize(dspHead.read_addr, a) = RingSize - MsgSize(dspHead.read_addr, a)
          BY <3>1, <3>2, FreePlusUsed, Zenon
        <4> QED BY <3>1, <3>2, <4>1
      <3>4. \A i \in 1 .. Len(armW.buf) : At(a, i - 1) \in Addr
        <4> SUFFICES ASSUME NEW i \in 1 .. Len(armW.buf) PROVE At(a, i - 1) \in Addr
          OBVIOUS
        <4>1. i - 1 \in 0 .. (RingSize - 1)
          BY <3>1, <3>3
        <4> QED BY <3>1, <4>1, AdvanceInRing
      <3>5. {i \in 1 .. Len(armW.buf) : c = At(a, i - 1)} = {}
        BY <3>4
      <3> QED BY <1>1, <3>5 DEF ArmWriteCopy
    <2>2. UNCHANGED toArm
      BY <1>1 DEF ArmWriteCopy
    <2> QED BY <2>1, <2>2 DEF HeadsNotOverwritten
  <1>2. CASE ArmWriteBegin \/ ArmWritePublish
    BY <1>2 DEF ArmWriteBegin, ArmWritePublish, HeadsNotOverwritten
  <1> QED BY <1>1, <1>2 DEF ArmWriter

(***************************************************************************)
(* No memcpy of sharespace_write (214-227), nor one of the ARM, reaches the*)
(* bytes below MIN_ADDR or the MsgHead at MAX_ADDR, for any ring.          *)
(***************************************************************************)
THEOREM CopiesStayInRing == Spec => []HeadsNotOverwritten
  <1>1. Init => HeadsNotOverwritten
    BY DEF Init, Empty, HeadsNotOverwritten
  <1>2. IInv /\ HeadsNotOverwritten /\ [Next]_vars => HeadsNotOverwritten'
    <2> SUFFICES ASSUME IInv, HeadsNotOverwritten, [Next]_vars
                 PROVE  HeadsNotOverwritten'
      OBVIOUS
    <2>1. CASE Write \/ Read \/ ArmReader \/ UNCHANGED vars
      BY <2>1 DEF Write, WriteRefuse, WriteBegin, Read, ReadEmpty, ReadBegin, ArmReader,
                  ArmReadBegin, ArmReadCopy, ArmReadPublish, vars, HeadsNotOverwritten
    <2> QED BY <2>1, DspStepKeepsHeads, ArmWriterKeepsHeads DEF Next
  <1>3. Spec => []IInv
    BY InitIInv, NextKeepsIInv, PTL DEF Spec
  <1> QED BY <1>1, <1>2, <1>3, PTL DEF Spec

-----------------------------------------------------------------------------
(***************************************************************************)
(* Each direction of Sharespace implements ByteFifo, for every ring size,  *)
(* every set of messages and every set of read lengths.                    *)
(***************************************************************************)

\* The first k bytes of s are the ones in the ring from position a on.
Copied(mem, a, s, k) == \A i \in 1 .. k : mem[At(a, i - 1)] = s[i]

(***************************************************************************)
(* Where a copy in progress stands: what it has copied is in the ring, or  *)
(* is what the ring still holds, and only whole copies are published.      *)
(***************************************************************************)
DspWriteInFlight ==
    /\ dsp.op = "write" /\ dsp.pc = "copy2" =>
         Copied(toArm, dspHead.write_addr, dsp.buf, FirstLen(dspHead.write_addr, dsp.n))
    /\ dsp.op = "write" /\ dsp.pc = "publish" =>
         Copied(toArm, dspHead.write_addr, dsp.buf, dsp.n)

DspReadInFlight ==
    /\ dsp.op = "read" /\ dsp.pc = "copy2" =>
         /\ Len(dsp.buf) = FirstLen(dspHead.read_addr, dsp.n)
         /\ Copied(toDsp, dspHead.read_addr, dsp.buf, Len(dsp.buf))
    /\ dsp.op = "read" /\ dsp.pc = "publish" =>
         /\ Len(dsp.buf) = dsp.n
         /\ Copied(toDsp, dspHead.read_addr, dsp.buf, dsp.n)

ArmReadInFlight ==
    /\ armR.pc # "idle" => armR.n > 0
    /\ armR.pc = "copy" => armR.buf = << >>
    /\ armR.pc = "publish" =>
         /\ Len(armR.buf) = armR.n
         /\ Copied(toArm, armHead.read_addr, armR.buf, armR.n)

ArmWriteInFlight ==
    /\ armW.pc = "idle" <=> armW.buf = << >>
    /\ armW.pc = "publish" =>
         Copied(toDsp, armHead.write_addr, armW.buf, Len(armW.buf))

InFlight == DspWriteInFlight /\ DspReadInFlight /\ ArmReadInFlight /\ ArmWriteInFlight

FInv == IInv /\ InFlight

-----------------------------------------------------------------------------
(***************************************************************************)
(* Positions and contents of a ring.                                       *)
(***************************************************************************)

\* n bytes on and i bytes further is n + i bytes on.
LEMMA AtAt ==
    ASSUME NEW a \in Addr, NEW n \in Nat, NEW i \in Nat, n + i < RingSize
    PROVE  At(At(a, n), i) = At(a, n + i)
  BY AddrAssumption DEF Addr, RingSize, At

\* The first byte to be written is the one behind the last to be read.
LEMMA WriterBehindContents ==
    ASSUME NEW r \in Addr, NEW w \in Addr, NEW i \in Nat, i < FreeSize(r, w)
    PROVE  At(r, MsgSize(r, w) + i) = At(w, i)
  BY AddrAssumption DEF Addr, RingSize, At, MsgSize, FreeSize

\* Two bytes of one message have two cells.
LEMMA AtInjective ==
    ASSUME NEW a \in Addr, NEW i \in 0 .. (RingSize - 1), NEW j \in 0 .. (RingSize - 1),
           At(a, i) = At(a, j)
    PROVE  i = j
  BY AddrAssumption DEF Addr, RingSize, At

(***************************************************************************)
(* What \o returns, under a name: the prover takes it at the sequences at  *)
(* hand, and does not go on concatenating.                                 *)
(***************************************************************************)
IsJoin(S, a, b, c) ==
    /\ c \in Seq(S) /\ Len(c) = Len(a) + Len(b)
    /\ \A i \in 1 .. Len(a) + Len(b) : c[i] = IF i <= Len(a) THEN a[i] ELSE b[i - Len(a)]

LEMMA JoinIs ==
    ASSUME NEW S, NEW a \in Seq(S), NEW b \in Seq(S)
    PROVE  IsJoin(S, a, b, a \o b)
  BY ConcatProperties, Zenon DEF IsJoin

\* So are what Load returns, and the numbers of a ring with two positions.
IsLoad(S, n, u) == u \in Seq(S) /\ Len(u) = n

LEMMA LoadIs ==
    ASSUME NEW S, NEW mem \in [Cells -> S], NEW a \in Addr, NEW n \in Nat,
           a + n <= MAX_ADDR
    PROVE  IsLoad(S, n, Load(mem, a, n))
  BY LoadType DEF IsLoad

Filled(r, w) ==
    RingSize \in Nat /\ MsgSize(r, w) \in Nat /\ FreeSize(r, w) = RingSize - MsgSize(r, w)

LEMMA RingIsFilled ==
    ASSUME NEW r \in Addr, NEW w \in Addr
    PROVE  Filled(r, w)
  <1>1. RingSize \in Nat
    BY AddrAssumption DEF RingSize
  <1>2. MsgSize(r, w) \in Nat /\ FreeSize(r, w) = RingSize - MsgSize(r, w)
    BY FreePlusUsed
  <1> QED BY <1>1, <1>2 DEF Filled

\* The contents are as many bytes as msg_size says.
IsContents(S, mem, r, w, c) ==
    /\ c \in Seq(S) /\ Len(c) = MsgSize(r, w)
    /\ \A i \in 1 .. MsgSize(r, w) : c[i] = mem[At(r, i - 1)]

LEMMA ContentsIsSeq ==
    ASSUME NEW S, NEW mem \in [Cells -> S], NEW r \in Addr, NEW w \in Addr
    PROVE  IsContents(S, mem, r, w, Contents(mem, r, w))
  <1>1. MsgSize(r, w) \in 0 .. (RingSize - 1) /\ MsgSize(r, w) \in Nat
    BY FreePlusUsed
  <1>2. \A i \in 1 .. MsgSize(r, w) : At(r, i - 1) \in Cells
    BY <1>1, AtInCells
  <1>3. Contents(mem, r, w) \in [1 .. MsgSize(r, w) -> S]
    BY <1>2 DEF Contents
  <1> QED BY <1>1, <1>3, FunctionIsSeq DEF Contents, IsContents

\* Publishing a write appends what was copied.
Grows(mem, r, w, s) == Contents(mem, r, At(w, Len(s))) = Contents(mem, r, w) \o s

LEMMA ContentsGrow ==
    ASSUME NEW S, NEW mem \in [Cells -> S], NEW r \in Addr, NEW w \in Addr,
           NEW s \in Seq(S), Len(s) < FreeSize(r, w), Copied(mem, w, s, Len(s))
    PROVE  Grows(mem, r, w, s)
  <1> DEFINE n == Len(s)
             m == MsgSize(r, w)
             x == At(w, n)
             C == Contents(mem, r, w)
             D == Contents(mem, r, x)
             E == C \o s
  <1>1. n \in Nat /\ m \in Nat /\ FreeSize(r, w) \in Nat
    BY FreePlusUsed
  <1>2. x \in Addr
    BY <1>1, AdvanceStays
  <1>3. MsgSize(r, x) = m + n
    BY <1>1, WriterAdvances
  <1>4. /\ C \in Seq(S) /\ Len(C) = m
        /\ \A i \in 1 .. m : C[i] = mem[At(r, i - 1)]
    <2>1. IsContents(S, mem, r, w, C)
      BY ContentsIsSeq
    <2> HIDE DEF C
    <2> QED BY <2>1 DEF IsContents
  <1>5. /\ D \in Seq(S) /\ Len(D) = m + n
        /\ \A i \in 1 .. (m + n) : D[i] = mem[At(r, i - 1)]
    <2>1. IsContents(S, mem, r, x, D)
      <3> HIDE DEF x
      <3> QED BY <1>2, ContentsIsSeq
    <2> HIDE DEF x, m, n, D
    <2> QED BY <1>3, <2>1 DEF IsContents
  <1>6. /\ E \in Seq(S) /\ Len(E) = m + n
        /\ \A i \in 1 .. (m + n) : E[i] = IF i <= m THEN C[i] ELSE s[i - m]
    <2>1. IsJoin(S, C, s, C \o s)
      BY <1>4, JoinIs
    <2> HIDE DEF C, m
    <2> QED BY <1>4, <2>1 DEF IsJoin
  <1>7. ASSUME NEW i \in 1 .. (m + n) PROVE D[i] = E[i]
    <2>1. CASE i <= m
      <3>1. i \in 1 .. m
        <4> HIDE DEF m, n
        <4> QED BY <1>1, <2>1
      <3> HIDE DEF m, n, C, D, E
      <3>2. C[i] = mem[At(r, i - 1)] /\ D[i] = mem[At(r, i - 1)] /\ E[i] = C[i]
        BY <1>4, <1>5, <1>6, <2>1, <3>1
      <3> QED BY <3>2
    <2>2. CASE i > m
      <3>1. i - m \in 1 .. n /\ i - m - 1 \in Nat /\ i - m - 1 < FreeSize(r, w)
        BY <1>1, <2>2
      <3>2. At(r, i - 1) = At(w, i - m - 1)
        <4>1. m + (i - m - 1) = i - 1
          BY <1>1
        <4> QED BY <3>1, <4>1, WriterBehindContents
      <3>3. mem[At(w, (i - m) - 1)] = s[i - m]
        BY <3>1 DEF Copied
      <3>4. E[i] = s[i - m]
        <4> HIDE DEF m, n, C, E
        <4> QED BY <1>1, <1>6, <2>2
      <3> HIDE DEF m, n, C, D, E
      <3> QED BY <1>5, <3>2, <3>3, <3>4
    <2> HIDE DEF m, n, D, E
    <2> QED BY <1>1, <2>1, <2>2
  <1>8. D = E
    <2> HIDE DEF m, n, D, E
    <2> QED BY <1>1, <1>5, <1>6, <1>7, SeqEqual
  <1> QED BY <1>8 DEF Grows

\* Publishing a read drops the bytes at the front.
Shrinks(mem, r, w, n) ==
    Contents(mem, At(r, n), w) = SubSeq(Contents(mem, r, w), n + 1, Len(Contents(mem, r, w)))

LEMMA ContentsShrink ==
    ASSUME NEW S, NEW mem \in [Cells -> S], NEW r \in Addr, NEW w \in Addr,
           NEW n \in Nat, n <= MsgSize(r, w)
    PROVE  Shrinks(mem, r, w, n)
  <1> DEFINE m == MsgSize(r, w)
             x == At(r, n)
             C == Contents(mem, r, w)
             D == Contents(mem, x, w)
             E == SubSeq(C, n + 1, m)
  <1>1. m \in Nat /\ m \in 0 .. (RingSize - 1) /\ x \in Addr
    BY FreePlusUsed, AdvanceStays
  <1>3. MsgSize(x, w) = m - n
    BY ReaderAdvances
  <1>4. /\ C \in Seq(S) /\ Len(C) = m
        /\ \A i \in 1 .. m : C[i] = mem[At(r, i - 1)]
    <2>1. IsContents(S, mem, r, w, C)
      BY ContentsIsSeq
    <2> HIDE DEF C
    <2> QED BY <2>1 DEF IsContents
  <1>5. /\ D \in Seq(S) /\ Len(D) = m - n
        /\ \A i \in 1 .. (m - n) : D[i] = mem[At(x, i - 1)]
    <2>1. IsContents(S, mem, x, w, D)
      <3> HIDE DEF x
      <3> QED BY <1>1, ContentsIsSeq
    <2> HIDE DEF x, m, D
    <2> QED BY <1>3, <2>1 DEF IsContents
  <1>6. E \in Seq(S) /\ Len(E) = m - n /\ \A i \in 1 .. (m - n) : E[i] = C[n + i]
    <2>1. E = [i \in 1 .. (m - n) |-> C[n + i]]
      BY <1>1, <1>4
    <2>2. m - n \in Nat /\ \A i \in 1 .. (m - n) : C[n + i] \in S
      BY <1>1, <1>4
    <2> HIDE DEF E, C, m
    <2> QED BY <2>1, <2>2
  <1>7. ASSUME NEW i \in 1 .. (m - n) PROVE D[i] = E[i]
    <2>1. At(x, i - 1) = At(r, n + (i - 1))
      <3>1. i - 1 \in Nat /\ n + (i - 1) < RingSize
        BY <1>1, AddrAssumption DEF RingSize
      <3> QED BY <3>1, AtAt
    <2>2. C[n + i] = mem[At(r, (n + i) - 1)] /\ (n + i) - 1 = n + (i - 1)
      BY <1>1, <1>4
    <2> QED BY <1>5, <1>6, <2>1, <2>2
  <1>8. D = E
    <2>1. m - n \in Nat
      BY <1>1
    <2> HIDE DEF m, x, C, D, E
    <2> QED BY <1>5, <1>6, <1>7, <2>1, SeqEqual
  <1> QED BY <1>4, <1>8 DEF Shrinks

-----------------------------------------------------------------------------
(***************************************************************************)
(* What a copy changes and what it leaves alone.                           *)
(***************************************************************************)
OnlySpanChanges(mem, mem2, a, n) == \A c \in Cells \ Span(a, n) : mem2[c] = mem[c]

Undisturbed(mem, mem2, r, w) ==
    /\ \A i \in 1 .. MsgSize(r, w) : mem2[At(r, i - 1)] = mem[At(r, i - 1)]
    /\ Contents(mem2, r, w) = Contents(mem, r, w)

\* A copy into free cells changes nothing of what is there to be read.
LEMMA ReaderUndisturbed ==
    ASSUME NEW mem, NEW mem2, NEW r \in Addr, NEW w \in Addr, NEW n \in Nat,
           n < FreeSize(r, w), OnlySpanChanges(mem, mem2, w, n)
    PROVE  Undisturbed(mem, mem2, r, w)
  <1>1. MsgSize(r, w) \in 0 .. (RingSize - 1) /\ MsgSize(r, w) \in Nat
    BY FreePlusUsed
  <1>2. Span(r, MsgSize(r, w)) \cap Span(w, n) = {}
    BY <1>1, ReadAndWriteDisjoint
  <1>3. ASSUME NEW i \in 1 .. MsgSize(r, w)
        PROVE  mem2[At(r, i - 1)] = mem[At(r, i - 1)]
    <2>1. At(r, i - 1) \in Cells
      BY <1>1, AtInCells
    <2>2. At(r, i - 1) \in Span(r, MsgSize(r, w))
      <3>1. i - 1 \in 0 .. (MsgSize(r, w) - 1)
        BY <1>1
      <3> QED BY <3>1 DEF Span
    <2> QED BY <1>2, <2>1, <2>2 DEF OnlySpanChanges
  <1> QED BY <1>3 DEF Contents, Undisturbed

\* The cells of the first memcpy.
LEMMA FirstCells ==
    ASSUME NEW a \in Addr, NEW n \in 1 .. (RingSize - 1),
           NEW i \in 1 .. FirstLen(a, n)
    PROVE  /\ At(a, i - 1) = a + i - 1
           /\ i - 1 \in 0 .. (n - 1)
           /\ a + i - 1 \notin MIN_ADDR .. (MIN_ADDR + (n - FirstLen(a, n)) - 1)
           /\ a + i - 1 \in Cells
  BY AddrAssumption DEF Addr, RingSize, FirstLen, At, Cells

\* The cells of the second memcpy.
LEMMA SecondCells ==
    ASSUME NEW a \in Addr, NEW n \in 1 .. (RingSize - 1),
           NEW i \in (FirstLen(a, n) + 1) .. n
    PROVE  /\ At(a, i - 1) = MIN_ADDR + (i - FirstLen(a, n)) - 1
           /\ i - 1 \in 0 .. (n - 1)
           /\ i - FirstLen(a, n) \in 1 .. (n - FirstLen(a, n))
           /\ MIN_ADDR + (i - FirstLen(a, n)) - 1 \in Cells
  BY AddrAssumption DEF Addr, RingSize, FirstLen, At, Cells

\* A part of a message, byte by byte.
LEMMA PartIs ==
    ASSUME NEW S, NEW s \in Seq(S), NEW k \in Nat, NEW n \in Nat, k <= n, n <= Len(s)
    PROVE  /\ SubSeq(s, k + 1, n) \in Seq(S)
           /\ Len(SubSeq(s, k + 1, n)) = n - k
           /\ \A j \in 1 .. (n - k) : SubSeq(s, k + 1, n)[j] = s[k + j]
  <1> DEFINE E == SubSeq(s, k + 1, n)
  <1>1. E = [j \in 1 .. (n - k) |-> s[k + j]]
    OBVIOUS
  <1>2. n - k \in Nat /\ \A j \in 1 .. (n - k) : s[k + j] \in S
    OBVIOUS
  <1> HIDE DEF E
  <1>3. E \in Seq(S) /\ Len(E) = n - k /\ \A j \in 1 .. (n - k) : E[j] = s[k + j]
    BY <1>1, <1>2
  <1> QED BY <1>3 DEF E

\* The first memcpy of a write.
LEMMA FirstCopy ==
    ASSUME NEW S, NEW mem \in [Cells -> S], NEW a \in Addr, NEW s \in Seq(S),
           Len(s) \in 1 .. (RingSize - 1)
    PROVE  LET f == FirstLen(a, Len(s))
               mem2 == Store(mem, a, SubSeq(s, 1, f))
           IN  Copied(mem2, a, s, f) /\ OnlySpanChanges(mem, mem2, a, Len(s))
  <1> DEFINE n == Len(s)
             f == FirstLen(a, n)
             t == SubSeq(s, 1, f)
             mem2 == Store(mem, a, t)
  <1>1. n \in Nat /\ n \in 0 .. (RingSize - 1) /\ a \in Int /\ RingSize \in Nat
    BY AddrAssumption DEF Addr, RingSize
  <1>2. f \in 0 .. n
    BY <1>1, FirstLenBounds
  <1>3. Len(t) = f /\ \A j \in 1 .. f : t[j] = s[j]
    <2>1. f \in Nat /\ 0 \in Nat /\ 0 <= f /\ f <= Len(s)
      BY <1>1, <1>2
    <2>2. /\ Len(SubSeq(s, 0 + 1, f)) = f - 0
          /\ \A j \in 1 .. (f - 0) : SubSeq(s, 0 + 1, f)[j] = s[0 + j]
      <3> HIDE DEF f
      <3> QED BY <2>1, PartIs
    <2>3. 0 + 1 = 1 /\ f - 0 = f /\ \A j \in 1 .. f : 0 + j = j
      BY <2>1
    <2> HIDE DEF f
    <2> QED BY <2>2, <2>3
  <1>4. \A c \in Cells : mem2[c] = IF c \in a .. (a + f - 1) THEN t[c - a + 1] ELSE mem[c]
    <2> HIDE DEF f, t
    <2> QED BY <1>3 DEF Store
  <1>5. Copied(mem2, a, s, f)
    <2> SUFFICES ASSUME NEW i \in 1 .. f PROVE mem2[At(a, i - 1)] = s[i]
      BY DEF Copied
    <2>1. At(a, i - 1) = a + i - 1 /\ a + i - 1 \in Cells
      BY FirstCells
    <2>2. a + i - 1 \in a .. (a + f - 1) /\ (a + i - 1) - a + 1 = i
      <3> HIDE DEF f
      <3> QED BY <1>1, <1>2
    <2> HIDE DEF f, t, mem2
    <2> QED BY <1>3, <1>4, <2>1, <2>2
  <1>6. OnlySpanChanges(mem, mem2, a, n)
    <2> SUFFICES ASSUME NEW c \in Cells, c \in a .. (a + f - 1) PROVE c \in Span(a, n)
      <3> HIDE DEF f, mem2, t
      <3> QED BY <1>4 DEF OnlySpanChanges
    <2> DEFINE i == c - a + 1
    <2>1. i \in 1 .. f /\ c = a + i - 1
      <3> HIDE DEF f
      <3> QED BY <1>1, <1>2
    <2>2. At(a, i - 1) = c /\ i - 1 \in 0 .. (n - 1)
      <3> HIDE DEF i
      <3> QED BY <2>1, FirstCells
    <2> HIDE DEF n, f
    <2> QED BY <2>2 DEF Span
  <1> QED BY <1>5, <1>6

\* The second memcpy of a write, of what the first left.
LEMMA SecondCopy ==
    ASSUME NEW S, NEW mem \in [Cells -> S], NEW a \in Addr, NEW s \in Seq(S),
           Len(s) \in 1 .. (RingSize - 1), Copied(mem, a, s, FirstLen(a, Len(s)))
    PROVE  LET f == FirstLen(a, Len(s))
               mem2 == Store(mem, MIN_ADDR, SubSeq(s, f + 1, Len(s)))
           IN  Copied(mem2, a, s, Len(s)) /\ OnlySpanChanges(mem, mem2, a, Len(s))
  <1> DEFINE n == Len(s)
             f == FirstLen(a, n)
             t == SubSeq(s, f + 1, n)
             mem2 == Store(mem, MIN_ADDR, t)
  <1>1. n \in Nat /\ n \in 0 .. (RingSize - 1) /\ MIN_ADDR \in Int /\ RingSize \in Nat
    BY AddrAssumption DEF Addr, RingSize
  <1>2. f \in 0 .. n
    BY <1>1, FirstLenBounds
  <1>3. Len(t) = n - f /\ \A j \in 1 .. (n - f) : t[j] = s[f + j]
    <2>1. f \in Nat /\ f <= n
      BY <1>1, <1>2
    <2> HIDE DEF f
    <2> QED BY <1>1, <2>1, PartIs
  <1>4. \A c \in Cells : mem2[c] = IF c \in MIN_ADDR .. (MIN_ADDR + (n - f) - 1)
                                     THEN t[c - MIN_ADDR + 1] ELSE mem[c]
    <2> HIDE DEF f, t
    <2> QED BY <1>3 DEF Store
  <1>5. Copied(mem2, a, s, n)
    <2> SUFFICES ASSUME NEW i \in 1 .. n PROVE mem2[At(a, i - 1)] = s[i]
      BY DEF Copied
    <2>1. CASE i <= f
      <3>1. i \in 1 .. f
        <4> HIDE DEF f
        <4> QED BY <1>1, <1>2, <2>1
      <3>2. /\ At(a, i - 1) = a + i - 1 /\ a + i - 1 \in Cells
            /\ a + i - 1 \notin MIN_ADDR .. (MIN_ADDR + (n - f) - 1)
        BY <3>1, FirstCells
      <3>3. mem[At(a, i - 1)] = s[i]
        BY <3>1 DEF Copied
      <3> HIDE DEF f, n, t, mem2
      <3> QED BY <1>4, <3>2, <3>3
    <2>2. CASE i > f
      <3> DEFINE j == i - f
      <3>1. i \in (f + 1) .. n
        <4> HIDE DEF f
        <4> QED BY <1>1, <1>2, <2>2
      <3>2. At(a, i - 1) = MIN_ADDR + j - 1 /\ MIN_ADDR + j - 1 \in Cells /\ j \in 1 .. (n - f)
        BY <3>1, SecondCells
      <3>3. /\ MIN_ADDR + j - 1 \in MIN_ADDR .. (MIN_ADDR + (n - f) - 1)
            /\ (MIN_ADDR + j - 1) - MIN_ADDR + 1 = j /\ f + j = i
        <4> HIDE DEF f
        <4> QED BY <1>1, <1>2, <3>2
      <3> HIDE DEF f, n, t, mem2, j
      <3> QED BY <1>3, <1>4, <3>2, <3>3
    <2> HIDE DEF f
    <2> QED BY <1>1, <1>2, <2>1, <2>2
  <1>6. OnlySpanChanges(mem, mem2, a, n)
    <2> SUFFICES ASSUME NEW c \in Cells, c \in MIN_ADDR .. (MIN_ADDR + (n - f) - 1)
                 PROVE  c \in Span(a, n)
      <3> HIDE DEF f, mem2, t
      <3> QED BY <1>4 DEF OnlySpanChanges
    <2> DEFINE i == c - MIN_ADDR + 1 + f
    <2>1. i \in (f + 1) .. n /\ c = MIN_ADDR + (i - f) - 1
      <3> HIDE DEF f
      <3> QED BY <1>1, <1>2
    <2>2. At(a, i - 1) = c /\ i - 1 \in 0 .. (n - 1)
      <3> HIDE DEF i
      <3> QED BY <2>1, SecondCells
    <2> HIDE DEF n, f
    <2> QED BY <2>2 DEF Span
  <1> QED BY <1>5, <1>6

\* The first memcpy of a read.
LEMMA FirstLoad ==
    ASSUME NEW S, NEW mem \in [Cells -> S], NEW a \in Addr, NEW n \in 1 .. (RingSize - 1)
    PROVE  LET f == FirstLen(a, n)
               s == Load(mem, a, f)
           IN  Len(s) = f /\ Copied(mem, a, s, f)
  <1> DEFINE f == FirstLen(a, n)
             s == Load(mem, a, f)
  <1>1. n \in 0 .. (RingSize - 1)
    BY AddrAssumption DEF RingSize
  <1>2. f \in Nat /\ a + f <= MAX_ADDR
    BY <1>1, FirstLenBounds
  <1>3. Len(s) = f
    <2> HIDE DEF f
    <2>1. IsLoad(S, f, Load(mem, a, f))
      BY <1>2, LoadIs
    <2> QED BY <2>1 DEF IsLoad
  <1>4. Copied(mem, a, s, f)
    <2> SUFFICES ASSUME NEW i \in 1 .. f PROVE mem[At(a, i - 1)] = s[i]
      BY DEF Copied
    <2>1. At(a, i - 1) = a + i - 1
      BY FirstCells
    <2> HIDE DEF f
    <2> QED BY <2>1 DEF Load
  <1> QED BY <1>3, <1>4

\* The second memcpy of a read completes what the first took.
LEMMA SecondLoad ==
    ASSUME NEW S, NEW mem \in [Cells -> S], NEW a \in Addr, NEW n \in 1 .. (RingSize - 1),
           NEW s \in Seq(S), Len(s) = FirstLen(a, n), Copied(mem, a, s, Len(s))
    PROVE  LET t == s \o Load(mem, MIN_ADDR, n - FirstLen(a, n))
           IN  Len(t) = n /\ Copied(mem, a, t, n)
  <1> DEFINE f == FirstLen(a, n)
             u == Load(mem, MIN_ADDR, n - f)
             t == s \o u
  <1>1. n \in 0 .. (RingSize - 1) /\ n \in Nat /\ MIN_ADDR \in Addr /\ MIN_ADDR \in Nat
    BY AddrAssumption DEF RingSize, Addr
  <1>2. f \in 0 .. n /\ n - f \in Nat /\ MIN_ADDR + (n - f) <= MAX_ADDR
    BY <1>1, FirstLenBounds
  <1>3. u \in Seq(S) /\ Len(u) = n - f
    <2> HIDE DEF f
    <2>1. IsLoad(S, n - f, u)
      BY <1>1, <1>2, LoadIs
    <2> QED BY <2>1 DEF IsLoad
  <1>4. Len(s) = f
    OBVIOUS
  <1>5. Len(t) = f + (n - f) /\ \A i \in 1 .. (f + (n - f)) : t[i] = IF i <= f THEN s[i] ELSE u[i - f]
    <2> HIDE DEF f, u
    <2>1. IsJoin(S, s, u, s \o u)
      BY <1>3, JoinIs
    <2> QED BY <1>3, <1>4, <2>1 DEF IsJoin
  <1>6. f + (n - f) = n
    <2> HIDE DEF f
    <2> QED BY <1>1, <1>2
  <1>7. Copied(mem, a, t, n)
    <2> SUFFICES ASSUME NEW i \in 1 .. n PROVE mem[At(a, i - 1)] = t[i]
      BY DEF Copied
    <2>1. t[i] = IF i <= f THEN s[i] ELSE u[i - f]
      BY <1>5, <1>6
    <2>2. CASE i <= f
      <3>1. i \in 1 .. Len(s)
        <4> HIDE DEF f
        <4> QED BY <1>1, <1>2, <1>4, <2>2
      <3>2. mem[At(a, i - 1)] = s[i]
        BY <3>1 DEF Copied
      <3> QED BY <2>1, <2>2, <3>2
    <2>3. CASE ~(i <= f)
      <3>1. i \in (f + 1) .. n
        <4> HIDE DEF f
        <4> QED BY <1>1, <1>2, <2>3
      <3>2. At(a, i - 1) = MIN_ADDR + (i - f) - 1 /\ i - f \in 1 .. (n - f)
        BY <3>1, SecondCells
      <3>3. u[i - f] = mem[MIN_ADDR + (i - f) - 1]
        <4> HIDE DEF f
        <4> QED BY <3>2 DEF Load
      <3> QED BY <2>1, <2>3, <3>2, <3>3
    <2> QED BY <2>2, <2>3
  <1> QED BY <1>5, <1>6, <1>7

\* The ARM's copy of a message into the ring.
LEMMA ArmCopy ==
    ASSUME NEW mem, NEW a \in Addr, NEW s, Len(s) \in Nat, Len(s) < RingSize,
           NEW mem2,
           mem2 = [c \in Cells |->
                     IF {i \in 1 .. Len(s) : c = At(a, i - 1)} # {}
                       THEN s[CHOOSE i \in {i \in 1 .. Len(s) : c = At(a, i - 1)} : TRUE]
                       ELSE mem[c]]
    PROVE  Copied(mem2, a, s, Len(s)) /\ OnlySpanChanges(mem, mem2, a, Len(s))
  <1> DEFINE n == Len(s)
             Put(c) == {i \in 1 .. n : c = At(a, i - 1)}
  <1>0. RingSize \in Nat /\ n \in 0 .. (RingSize - 1)
    BY AddrAssumption DEF RingSize
  <1>1. \A c \in Cells : mem2[c] = IF Put(c) # {} THEN s[CHOOSE i \in Put(c) : TRUE] ELSE mem[c]
    OBVIOUS
  <1>2. Copied(mem2, a, s, n)
    <2> SUFFICES ASSUME NEW i \in 1 .. n PROVE mem2[At(a, i - 1)] = s[i]
      BY DEF Copied
    <2>1. At(a, i - 1) \in Cells
      BY <1>0, AtInCells
    <2>2. \A j \in Put(At(a, i - 1)) : j = i
      <3> SUFFICES ASSUME NEW j \in 1 .. n, At(a, i - 1) = At(a, j - 1) PROVE j = i
        OBVIOUS
      <3>1. i - 1 \in 0 .. (RingSize - 1) /\ j - 1 \in 0 .. (RingSize - 1)
        BY <1>0
      <3>2. i - 1 = j - 1
        BY <3>1, AtInjective
      <3> QED BY <3>2
    <2>3. Put(At(a, i - 1)) = {i}
      BY <2>2
    <2> HIDE DEF Put, n
    <2> QED BY <1>1, <2>1, <2>3
  <1>3. OnlySpanChanges(mem, mem2, a, n)
    <2> SUFFICES ASSUME NEW c \in Cells \ Span(a, n) PROVE mem2[c] = mem[c]
      BY DEF OnlySpanChanges
    <2>1. Put(c) = {}
      <3> SUFFICES ASSUME NEW i \in 1 .. n, c = At(a, i - 1) PROVE FALSE
        OBVIOUS
      <3>1. i - 1 \in 0 .. (n - 1)
        BY <1>0
      <3> HIDE DEF n
      <3> QED BY <3>1 DEF Span
    <2> HIDE DEF Put
    <2> QED BY <1>1, <2>1
  <1> QED BY <1>2, <1>3

-----------------------------------------------------------------------------
(***************************************************************************)
(* The copies in progress, action by action.                               *)
(***************************************************************************)
\* The DSP's memcpys into its ring.
LEMMA WriteCopies ==
    ASSUME FInv, WriteCopy1 \/ WriteCopy2
    PROVE  /\ DspWriteInFlight'
           /\ OnlySpanChanges(toArm, toArm', dspHead.write_addr, dsp.n)
  <1> DEFINE w == dspHead.write_addr
             f == FirstLen(w, dsp.n)
             S == Byte \cup {Junk}
  <1>1. /\ w \in Addr /\ toArm \in [Cells -> S] /\ dsp.buf \in Seq(S)
        /\ dsp.n = Len(dsp.buf) /\ dsp.n \in 1 .. (RingSize - 1)
        /\ dsp \in [op : {"none", "write", "read"}, n : -1 .. RingSize - 1,
                    pc : {"idle", "copy1", "copy2", "publish"}, buf : Seq(S)]
    BY PositionsAndLengths DEF WriteCopy1, WriteCopy2, FInv, IInv, TypeOK, Reserved
  <1>2. CASE WriteCopy1
    <2>1. toArm' = Store(toArm, w, SubSeq(dsp.buf, 1, FirstLen(w, Len(dsp.buf))))
      BY <1>1, <1>2 DEF WriteCopy1
    <2>2. /\ Copied(toArm', w, dsp.buf, f) /\ OnlySpanChanges(toArm, toArm', w, dsp.n)
      <3> HIDE DEF w, S
      <3> QED BY <1>1, <2>1, FirstCopy
    <2>3. /\ dspHead' = dspHead /\ dsp'.buf = dsp.buf /\ dsp'.n = dsp.n
          /\ dsp'.pc = AfterCopy1(w, dsp.n)
      BY <1>1, <1>2 DEF WriteCopy1
    <2>4. dsp'.pc = "publish" => f = dsp.n
      <3>1. f \in 0 .. dsp.n
        <4>1. dsp.n \in 0 .. (RingSize - 1)
          BY <1>1, AddrAssumption DEF RingSize
        <4> QED BY <1>1, <4>1, FirstLenBounds
      <3> QED BY <1>1, <2>3, <3>1 DEF AfterCopy1
    <2> HIDE DEF S
    <2> QED BY <2>2, <2>3, <2>4 DEF DspWriteInFlight
  <1>3. CASE WriteCopy2
    <2>1. toArm' = Store(toArm, MIN_ADDR,
                         SubSeq(dsp.buf, FirstLen(w, Len(dsp.buf)) + 1, Len(dsp.buf)))
      BY <1>1, <1>3 DEF WriteCopy2
    <2>2. Copied(toArm, w, dsp.buf, FirstLen(w, Len(dsp.buf)))
      BY <1>1, <1>3 DEF WriteCopy2, FInv, InFlight, DspWriteInFlight
    <2>3. Copied(toArm', w, dsp.buf, dsp.n) /\ OnlySpanChanges(toArm, toArm', w, dsp.n)
      <3> HIDE DEF w, S
      <3> QED BY <1>1, <2>1, <2>2, SecondCopy
    <2>4. /\ dspHead' = dspHead /\ dsp'.buf = dsp.buf /\ dsp'.n = dsp.n
          /\ dsp'.pc = "publish"
      BY <1>1, <1>3 DEF WriteCopy2
    <2> HIDE DEF S
    <2> QED BY <2>3, <2>4 DEF DspWriteInFlight
  <1> QED BY <1>2, <1>3

\* What the ARM has copied out stays what the ring holds.
LEMMA WriteCopiesSpareReader ==
    ASSUME FInv, WriteCopy1 \/ WriteCopy2
    PROVE  /\ ArmReadInFlight'
           /\ Contents(toArm', armHead.read_addr, dspHead.write_addr)
                = Contents(toArm, armHead.read_addr, dspHead.write_addr)
  <1> DEFINE r == armHead.read_addr
             w == dspHead.write_addr
  <1>1. /\ r \in Addr /\ w \in Addr /\ dsp.n \in Nat /\ dsp.n < FreeSize(r, w)
        /\ armR' = armR /\ armHead' = armHead
    <2>1. RingSize \in Nat
      BY AddrAssumption DEF RingSize
    <2> QED BY <2>1, PositionsAndLengths DEF WriteCopy1, WriteCopy2, FInv, IInv, Reserved
  <1>2. OnlySpanChanges(toArm, toArm', w, dsp.n)
    BY WriteCopies
  <1>3. /\ \A i \in 1 .. MsgSize(r, w) : toArm'[At(r, i - 1)] = toArm[At(r, i - 1)]
        /\ Contents(toArm', r, w) = Contents(toArm, r, w)
    <2> HIDE DEF r, w
    <2>1. Undisturbed(toArm, toArm', r, w)
      BY <1>1, <1>2, ReaderUndisturbed
    <2> QED BY <2>1 DEF Undisturbed
  <1>4. ASSUME armR.pc = "publish" PROVE Copied(toArm', r, armR.buf, armR.n)
    <2>3. MsgSize(r, w) \in Nat
      BY <1>1, RingIsFilled DEF Filled
    <2>1. armR.n <= MsgSize(r, w) /\ armR.n \in Int /\ MsgSize(r, w) \in Nat
      BY <2>3, <1>4 DEF FInv, IInv, TypeOK, Reserved
    <2>2. Copied(toArm, r, armR.buf, armR.n)
      BY <1>4 DEF FInv, InFlight, ArmReadInFlight
    <2> HIDE DEF r, w
    <2> QED BY <1>3, <2>1, <2>2 DEF Copied
  <1> HIDE DEF w
  <1> QED BY <1>1, <1>3, <1>4 DEF FInv, InFlight, ArmReadInFlight, w

\* The DSP's memcpys out of its ring.
LEMMA ReadCopies ==
    ASSUME FInv, ReadCopy1 \/ ReadCopy2
    PROVE  DspReadInFlight'
  <1> DEFINE r == dspHead.read_addr
             S == Byte \cup {Junk}
  <1>1. /\ r \in Addr /\ toDsp \in [Cells -> S] /\ dsp.buf \in Seq(S)
        /\ dsp.n \in 1 .. (RingSize - 1)
        /\ dsp \in [op : {"none", "write", "read"}, n : -1 .. RingSize - 1,
                    pc : {"idle", "copy1", "copy2", "publish"}, buf : Seq(S)]
    BY PositionsAndLengths DEF ReadCopy1, ReadCopy2, FInv, IInv, TypeOK
  <1>2. CASE ReadCopy1
    <2>1. /\ dspHead' = dspHead /\ toDsp' = toDsp /\ dsp'.n = dsp.n
          /\ dsp'.buf = Load(toDsp, r, FirstLen(r, dsp.n))
          /\ dsp'.pc = AfterCopy1(r, dsp.n)
      BY <1>1, <1>2 DEF ReadCopy1
    <2>2. /\ Len(dsp'.buf) = FirstLen(r, dsp.n)
          /\ Copied(toDsp, r, dsp'.buf, FirstLen(r, dsp.n))
      <3>1. /\ Len(Load(toDsp, r, FirstLen(r, dsp.n))) = FirstLen(r, dsp.n)
            /\ Copied(toDsp, r, Load(toDsp, r, FirstLen(r, dsp.n)), FirstLen(r, dsp.n))
        <4> HIDE DEF r, S
        <4> QED BY <1>1, FirstLoad
      <3> QED BY <2>1, <3>1
    <2>3. dsp'.pc = "publish" => FirstLen(r, dsp.n) = dsp.n
      <3>1. FirstLen(r, dsp.n) \in 0 .. dsp.n
        <4>1. dsp.n \in 0 .. (RingSize - 1)
          BY <1>1, AddrAssumption DEF RingSize
        <4> QED BY <1>1, <4>1, FirstLenBounds
      <3> QED BY <1>1, <2>1, <3>1 DEF AfterCopy1
    <2> HIDE DEF S
    <2> QED BY <2>1, <2>2, <2>3 DEF DspReadInFlight
  <1>3. CASE ReadCopy2
    <2>1. /\ dspHead' = dspHead /\ toDsp' = toDsp /\ dsp'.n = dsp.n
          /\ dsp'.buf = dsp.buf \o Load(toDsp, MIN_ADDR, dsp.n - FirstLen(r, dsp.n))
          /\ dsp'.pc = "publish"
      BY <1>1, <1>3 DEF ReadCopy2
    <2>2. Len(dsp.buf) = FirstLen(r, dsp.n) /\ Copied(toDsp, r, dsp.buf, Len(dsp.buf))
      BY <1>1, <1>3 DEF ReadCopy2, FInv, InFlight, DspReadInFlight
    <2>3. Len(dsp'.buf) = dsp.n /\ Copied(toDsp, r, dsp'.buf, dsp.n)
      <3> DEFINE t == dsp.buf \o Load(toDsp, MIN_ADDR, dsp.n - FirstLen(r, dsp.n))
      <3>1. Len(t) = dsp.n /\ Copied(toDsp, r, t, dsp.n)
        <4> HIDE DEF r, S
        <4> QED BY <1>1, <2>2, SecondLoad
      <3> QED BY <2>1, <3>1
    <2> HIDE DEF S
    <2> QED BY <2>1, <2>3 DEF DspReadInFlight
  <1> QED BY <1>2, <1>3

\* The ARM's copy into its ring, which spares what the DSP is reading.
LEMMA ArmCopies ==
    ASSUME FInv, ArmWriteCopy
    PROVE  /\ ArmWriteInFlight' /\ DspReadInFlight'
           /\ Contents(toDsp', dspHead.read_addr, armHead.write_addr)
                = Contents(toDsp, dspHead.read_addr, armHead.write_addr)
  <1> DEFINE r == dspHead.read_addr
             w == armHead.write_addr
             n == Len(armW.buf)
  <1>1. /\ r \in Addr /\ w \in Addr /\ n \in Nat /\ n < FreeSize(r, w) /\ n < RingSize
        /\ dsp' = dsp /\ dspHead' = dspHead /\ armHead' = armHead
    <2>1. r \in Addr /\ w \in Addr /\ n \in Nat /\ n < FreeSize(r, w)
      BY PositionsAndLengths DEF ArmWriteCopy, FInv, IInv, Reserved
    <2>2. n < RingSize
      <3>1. FreeSize(r, w) = RingSize - MsgSize(r, w) /\ MsgSize(r, w) \in Nat /\ RingSize \in Int
        BY <2>1, RingIsFilled DEF Filled
      <3> HIDE DEF n, r, w
      <3> QED BY <2>1, <3>1
    <2> QED BY <2>1, <2>2 DEF ArmWriteCopy
  <1>2. /\ armW'.pc = "publish" /\ armW'.buf = armW.buf /\ armW.buf # << >>
    BY DEF ArmWriteCopy, FInv, IInv, TypeOK, InFlight, ArmWriteInFlight
  <1>3. Copied(toDsp', w, armW.buf, n) /\ OnlySpanChanges(toDsp, toDsp', w, n)
    <2>1. toDsp' = [c \in Cells |->
                     IF {i \in 1 .. n : c = At(w, i - 1)} # {}
                       THEN armW.buf[CHOOSE i \in {i \in 1 .. n : c = At(w, i - 1)} : TRUE]
                       ELSE toDsp[c]]
      BY DEF ArmWriteCopy
    <2> HIDE DEF w
    <2> QED BY <1>1, <2>1, ArmCopy
  <1>4. /\ \A i \in 1 .. MsgSize(r, w) : toDsp'[At(r, i - 1)] = toDsp[At(r, i - 1)]
        /\ Contents(toDsp', r, w) = Contents(toDsp, r, w)
    <2> HIDE DEF n, r, w
    <2>1. Undisturbed(toDsp, toDsp', r, w)
      BY <1>1, <1>3, ReaderUndisturbed
    <2> QED BY <2>1 DEF Undisturbed
  <1>5. ASSUME NEW k, k \in Int, k <= dsp.n, dsp.op = "read", dsp.pc # "idle",
               Copied(toDsp, r, dsp.buf, k)
        PROVE  Copied(toDsp', r, dsp.buf, k)
    <2>1. dsp.n <= MsgSize(r, w) /\ dsp.n \in Int
      BY <1>5 DEF FInv, IInv, TypeOK, Reserved, Readable
    <2>2. MsgSize(r, w) \in Nat
      BY <1>1, RingIsFilled DEF Filled
    <2> HIDE DEF r, w
    <2> QED BY <1>4, <1>5, <2>1, <2>2 DEF Copied
  <1>6. DspReadInFlight'
    <2>1. ASSUME dsp.op = "read", dsp.pc = "copy2"
          PROVE  /\ Len(dsp.buf) = FirstLen(r, dsp.n)
                 /\ Copied(toDsp', r, dsp.buf, Len(dsp.buf))
      <3>1. Len(dsp.buf) = FirstLen(r, dsp.n) /\ Copied(toDsp, r, dsp.buf, Len(dsp.buf))
        BY <2>1 DEF FInv, InFlight, DspReadInFlight
      <3>2. FirstLen(r, dsp.n) \in 0 .. dsp.n /\ dsp.n \in Int
        <4>1. dsp.n \in 0 .. (RingSize - 1)
          BY <2>1, PositionsAndLengths, AddrAssumption DEF FInv, RingSize
        <4> QED BY <1>1, <4>1, FirstLenBounds
      <3> HIDE DEF r
      <3> QED BY <1>5, <2>1, <3>1, <3>2
    <2>2. ASSUME dsp.op = "read", dsp.pc = "publish"
          PROVE  Len(dsp.buf) = dsp.n /\ Copied(toDsp', r, dsp.buf, dsp.n)
      <3>1. Len(dsp.buf) = dsp.n /\ Copied(toDsp, r, dsp.buf, dsp.n) /\ dsp.n \in Int
        BY <2>2 DEF FInv, IInv, TypeOK, InFlight, DspReadInFlight
      <3> HIDE DEF r
      <3> QED BY <1>5, <2>2, <3>1
    <2> QED BY <1>1, <2>1, <2>2 DEF DspReadInFlight
  <1>7. ArmWriteInFlight'
    <2> HIDE DEF r
    <2> QED BY <1>1, <1>2, <1>3 DEF ArmWriteInFlight
  <1> QED BY <1>4, <1>6, <1>7

LEMMA InitFInv == Init => FInv
  <1> SUFFICES ASSUME Init PROVE FInv
    OBVIOUS
  <1>1. IInv
    BY InitIInv
  <1> QED BY <1>1 DEF Init, FInv, InFlight, DspWriteInFlight, DspReadInFlight,
                      ArmReadInFlight, ArmWriteInFlight

\* A call that begins or is published leaves the other copies alone.
LEMMA CallKeepsInFlight ==
    ASSUME FInv,
           \/ \E msg : WriteRefuse(msg) \/ WriteBegin(msg)
           \/ \E max_len : ReadEmpty \/ ReadBegin(max_len)
           \/ WritePublish \/ ReadPublish
    PROVE  InFlight'
  <1>1. /\ dsp'.pc \in {"idle", "copy1"}
        /\ UNCHANGED <<toArm, toDsp, armHead, armR, armW>>
    BY DEF WriteRefuse, WriteBegin, ReadEmpty, ReadBegin, WritePublish, ReadPublish,
           FInv, IInv, TypeOK
  <1> QED BY <1>1 DEF FInv, InFlight, DspWriteInFlight, DspReadInFlight, ArmReadInFlight,
                      ArmWriteInFlight

LEMMA CallsKeepInFlight ==
    ASSUME FInv, Write \/ Read \/ WritePublish \/ ReadPublish
    PROVE  InFlight'
  BY CallKeepsInFlight DEF Write, Read

LEMMA CopiesKeepInFlight ==
    ASSUME FInv, WriteCopy1 \/ WriteCopy2 \/ ReadCopy1 \/ ReadCopy2
    PROVE  InFlight'
  <1>1. CASE WriteCopy1 \/ WriteCopy2
    <2>1. /\ dsp'.op = "write"
          /\ UNCHANGED <<toDsp, dspHead, armHead, armW>>
      BY <1>1 DEF WriteCopy1, WriteCopy2, FInv, IInv, TypeOK
    <2> QED BY <1>1, <2>1, WriteCopies, WriteCopiesSpareReader
            DEF FInv, InFlight, DspReadInFlight, ArmWriteInFlight
  <1>2. CASE ReadCopy1 \/ ReadCopy2
    <2>1. /\ dsp'.op = "read"
          /\ UNCHANGED <<toArm, toDsp, dspHead, armHead, armR, armW>>
      BY <1>2 DEF ReadCopy1, ReadCopy2, FInv, IInv, TypeOK
    <2> QED BY <1>2, <2>1, ReadCopies
            DEF FInv, InFlight, DspWriteInFlight, ArmReadInFlight, ArmWriteInFlight
  <1> QED BY <1>1, <1>2

LEMMA ArmReaderKeepsInFlight ==
    ASSUME FInv, ArmReader
    PROVE  InFlight'
  <1>1. UNCHANGED <<toArm, toDsp, dspHead, dsp, armW>> /\ armHead'.write_addr = armHead.write_addr
    BY DEF ArmReader, ArmReadBegin, ArmReadCopy, ArmReadPublish, FInv, IInv, TypeOK, Heads
  <1>2. ArmReadInFlight'
    <2>1. CASE ArmReadBegin
      BY <2>1 DEF ArmReadBegin, ArmReadInFlight
    <2>2. CASE ArmReadCopy
      <3>1. /\ armR'.pc = "publish" /\ armR'.n = armR.n /\ armHead' = armHead
            /\ armR'.buf = [i \in 1 .. armR.n |-> toArm[At(armHead.read_addr, i - 1)]]
            /\ armR.n > 0 /\ armR.n \in Nat
        BY <2>2, AddrAssumption DEF ArmReadCopy, FInv, IInv, TypeOK, InFlight, ArmReadInFlight, RingSize
      <3>2. Len(armR'.buf) = armR.n
        BY <3>1
      <3> QED BY <1>1, <3>1, <3>2 DEF ArmReadInFlight, Copied
    <2>3. CASE ArmReadPublish
      <3>1. armR'.pc = "idle"
        BY <2>3 DEF ArmReadPublish, FInv, IInv, TypeOK
      <3> QED BY <3>1 DEF ArmReadInFlight
    <2> QED BY <2>1, <2>2, <2>3 DEF ArmReader
  <1> QED BY <1>1, <1>2 DEF FInv, InFlight, DspWriteInFlight, DspReadInFlight, ArmWriteInFlight

LEMMA ArmWriterKeepsInFlight ==
    ASSUME FInv, ArmWriter
    PROVE  InFlight'
  <1>1. UNCHANGED <<toArm, dspHead, dsp, armR>> /\ armHead'.read_addr = armHead.read_addr
    BY DEF ArmWriter, ArmWriteBegin, ArmWriteCopy, ArmWritePublish, FInv, IInv, TypeOK, Heads
  <1>2. ArmWriteInFlight' /\ DspReadInFlight'
    <2>1. CASE ArmWriteBegin
      <3>1. armW'.pc = "copy" /\ armW'.buf # << >> /\ toDsp' = toDsp
        BY <2>1, MsgAssumption DEF ArmWriteBegin
      <3> QED BY <1>1, <3>1 DEF FInv, InFlight, DspReadInFlight, ArmWriteInFlight
    <2>2. CASE ArmWriteCopy
      BY <2>2, ArmCopies
    <2>3. CASE ArmWritePublish
      <3>1. armW'.pc = "idle" /\ armW'.buf = << >> /\ toDsp' = toDsp
        BY <2>3 DEF ArmWritePublish
      <3> QED BY <1>1, <3>1 DEF FInv, InFlight, DspReadInFlight, ArmWriteInFlight
    <2> QED BY <2>1, <2>2, <2>3 DEF ArmWriter
  <1> QED BY <1>1, <1>2 DEF FInv, InFlight, DspWriteInFlight, ArmReadInFlight

LEMMA NextKeepsFInv == FInv /\ [Next]_vars => FInv'
  <1> SUFFICES ASSUME FInv, [Next]_vars PROVE FInv'
    OBVIOUS
  <1>1. IInv'
    BY NextKeepsIInv DEF FInv
  <1>2. InFlight'
    <2>1. CASE UNCHANGED vars
      BY <2>1 DEF vars, FInv, InFlight, DspWriteInFlight, DspReadInFlight, ArmReadInFlight,
                  ArmWriteInFlight
    <2> QED BY <2>1, CallsKeepInFlight, CopiesKeepInFlight, ArmReaderKeepsInFlight,
               ArmWriterKeepsInFlight DEF Next, DspStep
  <1> QED BY <1>1, <1>2 DEF FInv

-----------------------------------------------------------------------------
(***************************************************************************)
(* Every step is a step of ByteFifo, or leaves it where it is.             *)
(***************************************************************************)
\* A write that is published appends the whole message.
LEMMA WritePublishAccepts ==
    ASSUME FInv, WritePublish
    PROVE  ToArm!Accept
  <1> DEFINE r == armHead.read_addr
             w == dspHead.write_addr
             S == Byte \cup {Junk}
  <1>1. /\ r \in Addr /\ w \in Addr /\ toArm \in [Cells -> S] /\ dsp.buf \in Seq(S)
        /\ dsp.n = Len(dsp.buf) /\ dsp.n \in Nat /\ dsp.n > 0 /\ dsp.n < FreeSize(r, w)
        /\ Copied(toArm, w, dsp.buf, Len(dsp.buf))
    BY PositionsAndLengths DEF WritePublish, FInv, IInv, TypeOK, Reserved, InFlight, DspWriteInFlight
  <1>2. Contents(toArm, r, At(w, dsp.n)) = Contents(toArm, r, w) \o dsp.buf
    <2>1. Contents(toArm, r, At(w, Len(dsp.buf))) = Contents(toArm, r, w) \o dsp.buf
      <3> HIDE DEF r, w, S
      <3>1. Grows(toArm, r, w, dsp.buf)
        BY <1>1, ContentsGrow
      <3> QED BY <3>1 DEF Grows
    <2> QED BY <1>1, <2>1
  <1>3. Len(Contents(toArm, r, w)) + Len(dsp.buf) < RingSize
    <2>1. Len(Contents(toArm, r, w)) = MsgSize(r, w)
      <3> HIDE DEF r, w, S
      <3>1. IsContents(S, toArm, r, w, Contents(toArm, r, w))
        BY <1>1, ContentsIsSeq
      <3> QED BY <3>1 DEF IsContents
    <2>2. MsgSize(r, w) \in Nat /\ FreeSize(r, w) = RingSize - MsgSize(r, w) /\ RingSize \in Nat
      BY <1>1, RingIsFilled DEF Filled
    <2> HIDE DEF r, w
    <2> QED BY <1>1, <2>1, <2>2
  <1>4. /\ dspHead'.write_addr = At(w, dsp.n)
        /\ UNCHANGED <<toArm, armHead, armR>>
        /\ dsp'.pc = "idle"
    BY <1>1, AdvanceStays DEF WritePublish, FInv, IInv, TypeOK, Heads
  <1>5. dsp.buf # << >>
    BY <1>1
  <1>6. dsp.op = "write" /\ dsp.pc # "idle"
    BY DEF WritePublish
  <1> HIDE DEF S
  <1> QED BY <1>2, <1>3, <1>4, <1>5, <1>6 DEF ToArm!Accept

\* What the ARM takes are the bytes at the front.
LEMMA ArmReadPublishTakes ==
    ASSUME FInv, ArmReadPublish
    PROVE  \E n \in 1 .. Len(Contents(toArm, armHead.read_addr, dspHead.write_addr)) : ToArm!Take(n)
  <1> DEFINE r == armHead.read_addr
             w == dspHead.write_addr
             n == armR.n
             S == Byte \cup {Junk}
             C == Contents(toArm, r, w)
  <1>1. /\ r \in Addr /\ w \in Addr /\ toArm \in [Cells -> S] /\ armR.buf \in Seq(S)
        /\ n \in Nat /\ n > 0 /\ n <= MsgSize(r, w) /\ Len(armR.buf) = n
        /\ Copied(toArm, r, armR.buf, n)
    BY PositionsAndLengths, AddrAssumption
       DEF ArmReadPublish, FInv, IInv, TypeOK, Reserved, InFlight, ArmReadInFlight, RingSize
  <1>2. /\ C \in Seq(S) /\ Len(C) = MsgSize(r, w)
        /\ \A i \in 1 .. MsgSize(r, w) : C[i] = toArm[At(r, i - 1)]
        /\ MsgSize(r, w) \in Nat
    <2>1. IsContents(S, toArm, r, w, C)
      <3> HIDE DEF r, w, S
      <3> QED BY <1>1, ContentsIsSeq
    <2>2. MsgSize(r, w) \in Nat
      BY <1>1, FreePlusUsed
    <2> HIDE DEF r, w, S, C
    <2> QED BY <2>1, <2>2 DEF IsContents
  <1>3. armR.buf = SubSeq(C, 1, n)
    <2> DEFINE E == SubSeq(C, 1, n)
    <2>1. E \in Seq(S) /\ Len(E) = n /\ \A i \in 1 .. n : E[i] = C[i]
      <3> HIDE DEF C, S, n, r, w
      <3>1. E = SubSeq(C, 0 + 1, n) /\ 0 \in Nat /\ 0 <= n /\ n <= Len(C) /\ n - 0 = n
            /\ \A i \in 1 .. n : 0 + i = i
        BY <1>1, <1>2
      <3> HIDE DEF E
      <3> QED BY <1>1, <1>2, <3>1, PartIs
    <2>2. ASSUME NEW i \in 1 .. n PROVE armR.buf[i] = E[i]
      <3>1. toArm[At(r, i - 1)] = armR.buf[i]
        BY <1>1 DEF Copied
      <3>2. i \in 1 .. MsgSize(r, w)
        <4> HIDE DEF r, w, n
        <4> QED BY <1>1, <1>2
      <3> HIDE DEF C, E, n, r, w
      <3> QED BY <1>2, <2>1, <3>1, <3>2
    <2> HIDE DEF E, C, S, n, r, w
    <2> QED BY <1>1, <2>1, <2>2, SeqEqual
  <1>4. Contents(toArm, At(r, n), w) = SubSeq(C, n + 1, Len(C))
    <2> HIDE DEF r, w, n, S
    <2>1. Shrinks(toArm, r, w, n)
      BY <1>1, ContentsShrink
    <2> QED BY <2>1 DEF Shrinks
  <1>5. /\ armHead'.read_addr = At(r, n)
        /\ UNCHANGED <<toArm, dspHead, dsp>>
        /\ armR.pc # "idle" /\ armR'.pc = "idle" /\ armR'.buf = armR.buf
    BY DEF ArmReadPublish, FInv, IInv, TypeOK, Heads
  <1>6. ToArm!Take(n)
    <2> HIDE DEF S
    <2> QED BY <1>3, <1>4, <1>5 DEF ToArm!Take
  <1>7. n \in 1 .. Len(C)
    <2> HIDE DEF C, n, r, w
    <2> QED BY <1>1, <1>2
  <1> QED BY <1>6, <1>7

LEMMA StepsToArm == FInv /\ [Next]_vars => [ToArm!Next]_ToArm!vars
  <1> SUFFICES ASSUME FInv, [Next]_vars PROVE [ToArm!Next]_ToArm!vars
    OBVIOUS
  <1>t. dsp.pc \in {"idle", "copy1", "copy2", "publish"}
    BY DEF FInv, IInv, TypeOK
  <1>1. CASE Write
    <2> PICK msg \in DspMsgs : WriteRefuse(msg) \/ WriteBegin(msg)
      BY <1>1 DEF Write
    <2>1. CASE WriteRefuse(msg)
      BY <2>1 DEF WriteRefuse, ToArm!vars
    <2>2. CASE WriteBegin(msg)
      <3>1. ToArm!Offer
        BY <2>2, MsgAssumption DEF WriteBegin, ToArm!Offer
      <3> QED BY <3>1 DEF ToArm!Next
    <2> QED BY <2>1, <2>2
  <1>2. CASE Read
    BY <1>2 DEF Read, ReadEmpty, ReadBegin, ToArm!vars
  <1>3. CASE WriteCopy1 \/ WriteCopy2
    <2>1. UNCHANGED <<dspHead, armHead, armR>>
          /\ dsp.op = "write" /\ dsp'.op = "write" /\ dsp'.buf = dsp.buf
          /\ dsp.pc # "idle" /\ dsp'.pc # "idle"
      BY <1>3 DEF WriteCopy1, WriteCopy2, AfterCopy1, FInv, IInv, TypeOK
    <2> QED BY <1>3, <2>1, WriteCopiesSpareReader DEF ToArm!vars
  <1>4. CASE WritePublish
    BY <1>4, WritePublishAccepts DEF ToArm!Next
  <1>5. CASE ReadCopy1 \/ ReadCopy2 \/ ReadPublish
    <2>1. UNCHANGED <<toArm, armHead, armR>> /\ dsp.op = "read" /\ dsp'.op = "read"
          /\ dspHead'.write_addr = dspHead.write_addr
      BY <1>5 DEF ReadCopy1, ReadCopy2, ReadPublish, FInv, IInv, TypeOK, Heads
    <2> QED BY <2>1 DEF ToArm!vars
  <1>6. CASE ArmReadBegin
    <2>1. ToArm!Forget
      BY <1>6 DEF ArmReadBegin, ToArm!Forget
    <2> QED BY <2>1 DEF ToArm!Next
  <1>7. CASE ArmReadCopy
    <2>1. armR.pc # "idle" /\ armR'.pc # "idle" /\ UNCHANGED <<toArm, dspHead, armHead, dsp>>
      BY <1>7 DEF ArmReadCopy, FInv, IInv, TypeOK
    <2> QED BY <2>1 DEF ToArm!vars
  <1>8. CASE ArmReadPublish
    BY <1>8, ArmReadPublishTakes DEF ToArm!Next
  <1>9. CASE ArmWriter
    <2>1. UNCHANGED <<toArm, dspHead, dsp, armR>> /\ armHead'.read_addr = armHead.read_addr
      BY <1>9 DEF ArmWriter, ArmWriteBegin, ArmWriteCopy, ArmWritePublish, FInv, IInv, TypeOK, Heads
    <2> QED BY <2>1 DEF ToArm!vars
  <1>10. CASE UNCHANGED vars
    BY <1>10 DEF vars, ToArm!vars
  <1> QED BY <1>1, <1>2, <1>3, <1>4, <1>5, <1>6, <1>7, <1>8, <1>9, <1>10
          DEF Next, DspStep, ArmReader

(***************************************************************************)
(* sharespace_write (185-242) is the writing end of a bounded byte stream: *)
(* whatever the ring's size, the messages and the moments at which the ARM *)
(* reads, an accepted message is appended whole, a refused one not at all, *)
(* and the ARM takes the bytes once and in order.                          *)
(***************************************************************************)
THEOREM WritesAreAFifo == Spec => ToArmIsFifo
  <1>1. Init => ToArm!Init
    <2> SUFFICES ASSUME Init PROVE ToArm!Init
      OBVIOUS
    <2>1. MsgSize(MIN_ADDR, MIN_ADDR) = 0
      BY DEF MsgSize
    <2>2. Contents(toArm, MIN_ADDR, MIN_ADDR) = << >>
      BY <2>1 DEF Contents
    <2> QED BY <2>2 DEF Init, ToArm!Init
  <1>2. Spec => []FInv
    BY InitFInv, NextKeepsFInv, PTL DEF Spec
  <1> QED BY <1>1, <1>2, StepsToArm, PTL DEF Spec, ToArmIsFifo, ToArm!Spec

-----------------------------------------------------------------------------
\* A message the ARM publishes is appended whole.
LEMMA ArmWritePublishAccepts ==
    ASSUME FInv, ArmWritePublish
    PROVE  ToDsp!Accept
  <1> DEFINE r == dspHead.read_addr
             w == armHead.write_addr
             S == Byte \cup {Junk}
  <1>1. /\ r \in Addr /\ w \in Addr /\ toDsp \in [Cells -> S] /\ armW.buf \in Seq(S)
        /\ armW.buf # << >> /\ Len(armW.buf) \in Nat /\ Len(armW.buf) < FreeSize(r, w)
        /\ Copied(toDsp, w, armW.buf, Len(armW.buf))
    <2>1. armW.buf \in Seq(Byte)
      BY DEF FInv, IInv, TypeOK
    <2>2. armW.buf \in Seq(S)
      BY <2>1
    <2> QED BY <2>1, <2>2, PositionsAndLengths
            DEF ArmWritePublish, FInv, IInv, TypeOK, Reserved, InFlight, ArmWriteInFlight
  <1>2. Contents(toDsp, r, At(w, Len(armW.buf))) = Contents(toDsp, r, w) \o armW.buf
    <2> HIDE DEF r, w, S
    <2>1. Grows(toDsp, r, w, armW.buf)
      BY <1>1, ContentsGrow
    <2> QED BY <2>1 DEF Grows
  <1>3. Len(Contents(toDsp, r, w)) + Len(armW.buf) < RingSize
    <2>1. Len(Contents(toDsp, r, w)) = MsgSize(r, w)
      <3> HIDE DEF r, w, S
      <3>1. IsContents(S, toDsp, r, w, Contents(toDsp, r, w))
        BY <1>1, ContentsIsSeq
      <3> QED BY <3>1 DEF IsContents
    <2>2. MsgSize(r, w) \in Nat /\ FreeSize(r, w) = RingSize - MsgSize(r, w) /\ RingSize \in Nat
      BY <1>1, RingIsFilled DEF Filled
    <2> HIDE DEF r, w
    <2> QED BY <1>1, <2>1, <2>2
  <1>4. /\ armHead'.write_addr = At(w, Len(armW.buf))
        /\ UNCHANGED <<toDsp, dspHead, dsp>>
        /\ armW'.buf = << >>
    BY DEF ArmWritePublish, FInv, IInv, TypeOK, Heads
  <1> HIDE DEF S
  <1> QED BY <1>1, <1>2, <1>3, <1>4 DEF ToDsp!Accept

\* What sharespace_read returns are the bytes at the front.
LEMMA ReadPublishTakes ==
    ASSUME FInv, ReadPublish
    PROVE  \E n \in 1 .. Len(Contents(toDsp, dspHead.read_addr, armHead.write_addr)) : ToDsp!Take(n)
  <1> DEFINE r == dspHead.read_addr
             w == armHead.write_addr
             n == dsp.n
             S == Byte \cup {Junk}
             C == Contents(toDsp, r, w)
  <1>1. /\ r \in Addr /\ w \in Addr /\ toDsp \in [Cells -> S] /\ dsp.buf \in Seq(S)
        /\ n \in Nat /\ n > 0 /\ n <= MsgSize(r, w) /\ Len(dsp.buf) = n
        /\ Copied(toDsp, r, dsp.buf, n)
    <2>1. n \in Nat /\ n > 0
      BY PositionsAndLengths, AddrAssumption DEF ReadPublish, FInv, RingSize
    <2> QED BY <2>1, PositionsAndLengths
            DEF ReadPublish, FInv, IInv, TypeOK, Reserved, Readable, InFlight, DspReadInFlight
  <1>2. /\ C \in Seq(S) /\ Len(C) = MsgSize(r, w)
        /\ \A i \in 1 .. MsgSize(r, w) : C[i] = toDsp[At(r, i - 1)]
        /\ MsgSize(r, w) \in Nat
    <2>1. IsContents(S, toDsp, r, w, C)
      <3> HIDE DEF r, w, S
      <3> QED BY <1>1, ContentsIsSeq
    <2>2. MsgSize(r, w) \in Nat
      BY <1>1, FreePlusUsed
    <2> HIDE DEF r, w, S, C
    <2> QED BY <2>1, <2>2 DEF IsContents
  <1>3. dsp.buf = SubSeq(C, 1, n)
    <2> DEFINE E == SubSeq(C, 1, n)
    <2>1. E \in Seq(S) /\ Len(E) = n /\ \A i \in 1 .. n : E[i] = C[i]
      <3> HIDE DEF C, S, n, r, w
      <3>1. E = SubSeq(C, 0 + 1, n) /\ 0 \in Nat /\ 0 <= n /\ n <= Len(C) /\ n - 0 = n
            /\ \A i \in 1 .. n : 0 + i = i
        BY <1>1, <1>2
      <3> HIDE DEF E
      <3> QED BY <1>1, <1>2, <3>1, PartIs
    <2>2. ASSUME NEW i \in 1 .. n PROVE dsp.buf[i] = E[i]
      <3>1. toDsp[At(r, i - 1)] = dsp.buf[i]
        BY <1>1 DEF Copied
      <3>2. i \in 1 .. MsgSize(r, w)
        <4> HIDE DEF r, w, n
        <4> QED BY <1>1, <1>2
      <3> HIDE DEF C, E, n, r, w
      <3> QED BY <1>2, <2>1, <3>1, <3>2
    <2> HIDE DEF E, C, S, n, r, w
    <2> QED BY <1>1, <2>1, <2>2, SeqEqual
  <1>4. Contents(toDsp, At(r, n), w) = SubSeq(C, n + 1, Len(C))
    <2> HIDE DEF r, w, n, S
    <2>1. Shrinks(toDsp, r, w, n)
      BY <1>1, ContentsShrink
    <2> QED BY <2>1 DEF Shrinks
  <1>5. /\ dspHead'.read_addr = At(r, n)
        /\ UNCHANGED <<toDsp, armHead, armW>>
        /\ dsp.op = "read" /\ dsp'.op = "read"
        /\ dsp.pc # "idle" /\ dsp'.pc = "idle" /\ dsp'.buf = dsp.buf
    BY <1>1, AdvanceStays DEF ReadPublish, FInv, IInv, TypeOK, Heads
  <1>6. ToDsp!Take(n)
    <2> HIDE DEF S
    <2> QED BY <1>3, <1>4, <1>5 DEF ToDsp!Take
  <1>7. n \in 1 .. Len(C)
    <2> HIDE DEF C, n, r, w
    <2> QED BY <1>1, <1>2
  <1> QED BY <1>6, <1>7

LEMMA StepsToDsp == FInv /\ [Next]_vars => [ToDsp!Next]_ToDsp!vars
  <1> SUFFICES ASSUME FInv, [Next]_vars PROVE [ToDsp!Next]_ToDsp!vars
    OBVIOUS
  <1>1. CASE Write \/ Read
    <2>1. /\ UNCHANGED <<toDsp, dspHead, armHead, armW>>
          /\ ~(dsp'.op = "read" /\ dsp'.pc = "idle") \/ dsp'.buf = << >>
      BY <1>1 DEF Write, WriteRefuse, WriteBegin, Read, ReadEmpty, ReadBegin
    <2>2. ToDsp!Forget
      BY <2>1 DEF ToDsp!Forget
    <2> QED BY <2>2 DEF ToDsp!Next
  <1>2. CASE WriteCopy1 \/ WriteCopy2 \/ WritePublish
    <2>1. UNCHANGED <<toDsp, armHead, armW>> /\ dsp.op = "write" /\ dsp'.op = "write"
          /\ dspHead'.read_addr = dspHead.read_addr
      BY <1>2 DEF WriteCopy1, WriteCopy2, WritePublish, FInv, IInv, TypeOK, Heads
    <2> QED BY <2>1 DEF ToDsp!vars
  <1>3. CASE ReadCopy1 \/ ReadCopy2
    <2>1. UNCHANGED <<toDsp, dspHead, armHead, armW>> /\ dsp.pc # "idle" /\ dsp'.pc # "idle"
      BY <1>3 DEF ReadCopy1, ReadCopy2, AfterCopy1, FInv, IInv, TypeOK
    <2> QED BY <2>1 DEF ToDsp!vars
  <1>4. CASE ReadPublish
    BY <1>4, ReadPublishTakes DEF ToDsp!Next
  <1>5. CASE ArmReader
    <2>1. UNCHANGED <<toDsp, dspHead, dsp, armW>> /\ armHead'.write_addr = armHead.write_addr
      BY <1>5 DEF ArmReader, ArmReadBegin, ArmReadCopy, ArmReadPublish, FInv, IInv, TypeOK, Heads
    <2> QED BY <2>1 DEF ToDsp!vars
  <1>6. CASE ArmWriteBegin
    <2>1. /\ armW.buf = << >> /\ armW'.buf \in Seq(Byte) \ {<< >>}
          /\ UNCHANGED <<toDsp, dspHead, armHead, dsp>>
      BY <1>6, MsgAssumption DEF ArmWriteBegin, FInv, InFlight, ArmWriteInFlight
    <2>2. ToDsp!Offer
      BY <2>1 DEF ToDsp!Offer
    <2> QED BY <2>2 DEF ToDsp!Next
  <1>7. CASE ArmWriteCopy
    <2>1. UNCHANGED <<dspHead, armHead, dsp>> /\ armW'.buf = armW.buf
      BY <1>7 DEF ArmWriteCopy, FInv, IInv, TypeOK
    <2> QED BY <1>7, <2>1, ArmCopies DEF ToDsp!vars
  <1>8. CASE ArmWritePublish
    BY <1>8, ArmWritePublishAccepts DEF ToDsp!Next
  <1>9. CASE UNCHANGED vars
    BY <1>9 DEF vars, ToDsp!vars
  <1> QED BY <1>1, <1>2, <1>3, <1>4, <1>5, <1>6, <1>7, <1>8, <1>9 DEF Next, DspStep, ArmWriter

(***************************************************************************)
(* sharespace_read (244-298) is the reading end of a bounded byte stream:  *)
(* what its calls return, one after the other, is what the ARM wrote, each *)
(* byte once and in order, whatever max_len each call asks for and whenever*)
(* the ARM writes.                                                         *)
(***************************************************************************)
THEOREM ReadsAreAFifo == Spec => ToDspIsFifo
  <1>1. Init => ToDsp!Init
    <2> SUFFICES ASSUME Init PROVE ToDsp!Init
      OBVIOUS
    <2>1. MsgSize(MIN_ADDR, MIN_ADDR) = 0
      BY DEF MsgSize
    <2>2. Contents(toDsp, MIN_ADDR, MIN_ADDR) = << >>
      BY <2>1 DEF Contents
    <2> QED BY <2>2 DEF Init, ToDsp!Init
  <1>2. Spec => []FInv
    BY InitFInv, NextKeepsFInv, PTL DEF Spec
  <1> QED BY <1>1, <1>2, StepsToDsp, PTL DEF Spec, ToDspIsFifo, ToDsp!Spec

-----------------------------------------------------------------------------
(***************************************************************************)
(* Where main() is tells which call the DSP is in or has returned from;    *)
(* what it is about to echo is what the ARM wrote, and not nothing.        *)
(***************************************************************************)
MainFollows ==
    /\ main.pc = "greet" => dsp.pc = "idle"
    /\ main.pc = "discard" => dsp.op = "write"
    /\ main.pc = "discarding" => dsp.op = "read"
    /\ main.pc = "loop" => dsp.op = "write" \/ dsp.pc = "idle"
    /\ main.pc = "echo" => dsp.op = "read"
    /\ main.pc = "echo" /\ dsp.pc = "idle" => dsp.buf \in Seq(Byte) \ {<< >>}

EchoInv ==
    /\ FInv
    /\ main \in [pc : {"greet", "discard", "discarding", "loop", "echo"}, b : 0 .. Len(Greetings)]
    /\ MainFollows
    /\ Incoming \in Seq(Byte)

-----------------------------------------------------------------------------
(***************************************************************************)
(* What main() and the ARM do to the shared space.                         *)
(***************************************************************************)
CallsWrite == \E msg \in Seq(Byte) \ {<< >>} : CallWrite(msg)
CallsRead == ReadEmpty \/ ReadBegin(BufSize)

LEMMA Greets ==
    ASSUME EchoInv, Greet
    PROVE  \/ /\ main.b = Len(Greetings) /\ main' = [main EXCEPT !.pc = "loop"]
              /\ UNCHANGED vars
           \/ /\ main.b < Len(Greetings) /\ main' = [pc |-> "discard", b |-> main.b + 1]
              /\ Greetings[main.b + 1] \in Seq(Byte) \ {<< >>}
              /\ CallWrite(Greetings[main.b + 1])
  <1>1. main.b \in 0 .. Len(Greetings) /\ Len(Greetings) \in Nat
    BY EchoAssumption DEF EchoInv
  <1>2. CASE main.b = Len(Greetings)
    BY <1>2 DEF Greet
  <1>3. CASE main.b # Len(Greetings)
    <2>1. main.b < Len(Greetings) /\ main.b + 1 \in 1 .. Len(Greetings)
      BY <1>1, <1>3
    <2>2. Greetings[main.b + 1] \in Seq(Byte) \ {<< >>}
      BY <2>1, EchoAssumption
    <2> QED BY <1>3, <2>1, <2>2 DEF Greet
  <1> QED BY <1>2, <1>3

LEMMA EchoActions ==
    ASSUME EchoInv, [EchoNext]_evars
    PROVE  CallsWrite \/ CallsRead \/ DspStep \/ ArmReader \/ ArmWriter \/ UNCHANGED vars
  <1>1. CASE Greet
    BY <1>1, Greets DEF CallsWrite
  <1>2. CASE LoopEcho
    BY <1>2 DEF LoopEcho, CallsWrite, CallWrite, WriteRefuse, WriteBegin, EchoInv, MainFollows
  <1>3. CASE Discard \/ LoopWait \/ LoopRead
    BY <1>3 DEF Discard, LoopWait, LoopRead, CallsRead
  <1>4. CASE NextGreeting \/ InCall
    BY <1>4 DEF NextGreeting, InCall
  <1>5. CASE ArmWrites
    BY <1>5 DEF ArmWrites, ArmWriter
  <1>6. CASE ArmReads
    BY <1>6 DEF ArmReads, ArmReader
  <1>7. CASE UNCHANGED evars
    BY <1>7 DEF evars
  <1> QED BY <1>1, <1>2, <1>3, <1>4, <1>5, <1>6, <1>7 DEF EchoNext, Main

LEMMA EchoKeepsFInv ==
    ASSUME EchoInv, [EchoNext]_evars
    PROVE  FInv'
  <1>1. IInv /\ FInv
    BY DEF EchoInv, FInv
  <1>2. CASE CallsWrite
    <2> PICK msg \in Seq(Byte) \ {<< >>} : WriteRefuse(msg) \/ WriteBegin(msg)
      BY <1>2 DEF CallsWrite, CallWrite
    <2>1. IInv'
      BY <1>1, CallWriteKeepsIInv
    <2>2. InFlight'
      BY <1>1, CallKeepsInFlight
    <2> QED BY <2>1, <2>2 DEF FInv
  <1>3. CASE CallsRead
    <2>1. IInv'
      BY <1>1, <1>3, CallReadKeepsIInv, EchoAssumption DEF CallsRead
    <2>2. InFlight'
      BY <1>1, <1>3, CallKeepsInFlight DEF CallsRead
    <2> QED BY <2>1, <2>2 DEF FInv
  <1>4. CASE DspStep \/ ArmReader \/ ArmWriter \/ UNCHANGED vars
    <2>1. [Next]_vars
      BY <1>4 DEF Next
    <2> QED BY <1>1, <2>1, NextKeepsFInv
  <1> QED BY <1>2, <1>3, <1>4, EchoActions

-----------------------------------------------------------------------------
(***************************************************************************)
(* The two streams.                                                        *)
(***************************************************************************)
Full == Byte \cup {Junk}

\* How much there is in each, and how much room.
LEMMA Streams ==
    ASSUME FInv
    PROVE  /\ Incoming \in Seq(Full) /\ Outgoing \in Seq(Full)
           /\ Len(Incoming) = Readable
           /\ FreeSize(armHead.read_addr, dspHead.write_addr) = RingSize - Len(Outgoing)
           /\ FreeSize(dspHead.read_addr, armHead.write_addr) = RingSize - Len(Incoming)
           /\ Len(Incoming) \in Nat /\ Len(Outgoing) \in Nat /\ RingSize \in Nat
  <1>1. /\ armHead.read_addr \in Addr /\ armHead.write_addr \in Addr
        /\ dspHead.read_addr \in Addr /\ dspHead.write_addr \in Addr
        /\ toArm \in [Cells -> Full] /\ toDsp \in [Cells -> Full]
    BY DEF FInv, IInv, TypeOK, Heads, Full
  <1>2. IsContents(Full, toDsp, dspHead.read_addr, armHead.write_addr, Incoming)
    BY <1>1, ContentsIsSeq DEF Incoming
  <1>3. IsContents(Full, toArm, armHead.read_addr, dspHead.write_addr, Outgoing)
    BY <1>1, ContentsIsSeq DEF Outgoing
  <1>4. /\ FreeSize(armHead.read_addr, dspHead.write_addr) = RingSize - MsgSize(armHead.read_addr, dspHead.write_addr)
        /\ FreeSize(dspHead.read_addr, armHead.write_addr) = RingSize - MsgSize(dspHead.read_addr, armHead.write_addr)
        /\ MsgSize(armHead.read_addr, dspHead.write_addr) \in Nat
        /\ MsgSize(dspHead.read_addr, armHead.write_addr) \in Nat
    BY <1>1, FreePlusUsed
  <1>5. RingSize \in Nat
    BY AddrAssumption DEF RingSize
  <1> QED BY <1>2, <1>3, <1>4, <1>5 DEF IsContents, Readable

\* What goes on while neither is published stays as it is.
LEMMA StreamsStay ==
    ASSUME FInv,
           \/ CallsWrite \/ CallsRead \/ WriteCopy1 \/ WriteCopy2 \/ ReadCopy1 \/ ReadCopy2
           \/ ArmReadBegin \/ ArmReadCopy \/ ArmWriteBegin \/ ArmWriteCopy
           \/ UNCHANGED vars
    PROVE  Incoming' = Incoming /\ Outgoing' = Outgoing
  <1>1. CASE CallsWrite \/ CallsRead \/ UNCHANGED vars
    BY <1>1 DEF CallsWrite, CallWrite, CallsRead, WriteRefuse, WriteBegin, ReadEmpty, ReadBegin,
                vars, Incoming, Outgoing
  <1>2. CASE ReadCopy1 \/ ReadCopy2 \/ ArmReadBegin \/ ArmReadCopy \/ ArmWriteBegin
    BY <1>2 DEF ReadCopy1, ReadCopy2, ArmReadBegin, ArmReadCopy, ArmWriteBegin, Incoming, Outgoing
  <1>3. CASE WriteCopy1 \/ WriteCopy2
    <2>1. UNCHANGED <<toDsp, dspHead, armHead>>
      BY <1>3 DEF WriteCopy1, WriteCopy2
    <2> QED BY <1>3, <2>1, WriteCopiesSpareReader DEF Incoming, Outgoing
  <1>4. CASE ArmWriteCopy
    <2>1. UNCHANGED <<toArm, dspHead, armHead>>
      BY <1>4 DEF ArmWriteCopy
    <2> QED BY <1>4, <2>1, ArmCopies DEF Incoming, Outgoing
  <1> QED BY <1>1, <1>2, <1>3, <1>4

\* The DSP has written a message, or part of its echo.
LEMMA WritePublished ==
    ASSUME FInv, WritePublish
    PROVE  /\ dsp.buf # << >> /\ Len(Outgoing) + Len(dsp.buf) < RingSize
           /\ Outgoing' = Outgoing \o dsp.buf /\ Incoming' = Incoming
           /\ dsp'.op = "write" /\ dsp'.pc = "idle"
  <1>1. ToArm!Accept
    BY WritePublishAccepts
  <1>2. /\ dsp.op = "write" /\ dsp.pc = "publish" /\ dsp'.op = "write" /\ dsp'.pc = "idle"
        /\ UNCHANGED <<toDsp, armHead>> /\ dspHead'.read_addr = dspHead.read_addr
    BY DEF WritePublish, FInv, IInv, TypeOK, Heads
  <1> QED BY <1>1, <1>2 DEF ToArm!Accept, Incoming, Outgoing

\* The DSP has read.
LEMMA ReadPublished ==
    ASSUME FInv, ReadPublish
    PROVE  /\ Outgoing' = Outgoing
           /\ \E n \in 1 .. Len(Incoming) :
                dsp'.buf = SubSeq(Incoming, 1, n) /\ Incoming' = SubSeq(Incoming, n + 1, Len(Incoming))
           /\ dsp.op = "read" /\ dsp'.op = "read" /\ dsp.pc # "idle" /\ dsp'.pc = "idle"
  <1>1. PICK n \in 1 .. Len(Incoming) : ToDsp!Take(n)
    BY ReadPublishTakes DEF Incoming
  <1>2. /\ dsp.op = "read" /\ dsp.pc # "idle" /\ dsp'.op = "read" /\ dsp'.pc = "idle"
        /\ UNCHANGED <<toArm, armHead>> /\ dspHead'.write_addr = dspHead.write_addr
    BY DEF ReadPublish, FInv, IInv, TypeOK, Heads
  <1>3. Outgoing' = Outgoing
    BY <1>2 DEF Outgoing
  <1>4. dsp'.buf = SubSeq(Incoming, 1, n) /\ Incoming' = SubSeq(Incoming, n + 1, Len(Incoming))
    BY <1>1, <1>2 DEF ToDsp!Take, Incoming
  <1> QED BY <1>2, <1>3, <1>4

LEMMA ArmWritePublished ==
    ASSUME FInv, ArmWritePublish
    PROVE  /\ armW.buf \in Seq(Byte) \ {<< >>} /\ Len(Incoming) + Len(armW.buf) < RingSize
           /\ Incoming' = Incoming \o armW.buf /\ Outgoing' = Outgoing
           /\ dsp' = dsp
  <1>1. ToDsp!Accept
    BY ArmWritePublishAccepts
  <1>2. /\ UNCHANGED <<toArm, dspHead, dsp>> /\ armHead'.read_addr = armHead.read_addr
        /\ armW.buf \in Seq(Byte)
    BY DEF ArmWritePublish, FInv, IInv, TypeOK, Heads
  <1> QED BY <1>1, <1>2 DEF ToDsp!Accept, Incoming, Outgoing

LEMMA ArmReadPublished ==
    ASSUME FInv, ArmReadPublish
    PROVE  /\ Incoming' = Incoming
           /\ \E n \in 1 .. Len(Outgoing) :
                armR.buf = SubSeq(Outgoing, 1, n) /\ Outgoing' = SubSeq(Outgoing, n + 1, Len(Outgoing))
           /\ dsp' = dsp
  <1>1. PICK n \in 1 .. Len(Outgoing) : ToArm!Take(n)
    BY ArmReadPublishTakes DEF Outgoing
  <1>2. /\ armR.pc # "idle" /\ armR'.pc = "idle" /\ armR'.buf = armR.buf
        /\ UNCHANGED <<toDsp, dspHead, dsp>> /\ armHead'.write_addr = armHead.write_addr
    BY DEF ArmReadPublish, FInv, IInv, TypeOK, Heads
  <1>3. Incoming' = Incoming
    BY <1>2 DEF Incoming
  <1>4. armR.buf = SubSeq(Outgoing, 1, n) /\ Outgoing' = SubSeq(Outgoing, n + 1, Len(Outgoing))
    BY <1>1, <1>2 DEF ToArm!Take, Outgoing
  <1> QED BY <1>2, <1>3, <1>4

-----------------------------------------------------------------------------
(***************************************************************************)
(* The invariant, step by step.                                            *)
(***************************************************************************)
LEMMA EchoInitInv == EchoInit => EchoInv
  <1> SUFFICES ASSUME EchoInit PROVE EchoInv
    OBVIOUS
  <1>1. FInv
    BY InitFInv DEF EchoInit
  <1>2. main \in [pc : {"greet", "discard", "discarding", "loop", "echo"}, b : 0 .. Len(Greetings)]
    BY EchoAssumption DEF EchoInit
  <1>3. MainFollows
    BY DEF EchoInit, Init, MainFollows
  <1>4. Incoming = << >>
    <2>1. MsgSize(MIN_ADDR, MIN_ADDR) = 0
      BY DEF MsgSize
    <2>2. Contents(toDsp, MIN_ADDR, MIN_ADDR) = << >>
      BY <2>1 DEF Contents
    <2> QED BY <2>2 DEF EchoInit, Init, Incoming
  <1> QED BY <1>1, <1>2, <1>3, <1>4 DEF EchoInv

\* The pieces of a sequence of bytes are sequences of bytes.
LEMMA PiecesAreBytes ==
    ASSUME NEW s \in Seq(Byte), NEW n \in 1 .. Len(s)
    PROVE  SubSeq(s, 1, n) \in Seq(Byte) \ {<< >>} /\ SubSeq(s, n + 1, Len(s)) \in Seq(Byte)
  <1>1. Len(s) \in Nat /\ n \in Nat /\ n + 1 \in Nat
    OBVIOUS
  <1>2. SubSeq(s, 1, n) \in Seq(Byte) /\ SubSeq(s, n + 1, Len(s)) \in Seq(Byte)
    BY <1>1, PartOfSeq
  <1>3. Len(SubSeq(s, 1, n)) = n
    BY <1>1
  <1> QED BY <1>2, <1>3

LEMMA IncomingStaysBytes ==
    ASSUME EchoInv, [EchoNext]_evars
    PROVE  Incoming' \in Seq(Byte)
  <1>1. FInv /\ Incoming \in Seq(Byte)
    BY DEF EchoInv
  <1>2. CASE ReadPublish
    BY <1>1, <1>2, ReadPublished, PiecesAreBytes
  <1>3. CASE WritePublish
    BY <1>1, <1>3, WritePublished
  <1>4. CASE ArmWritePublish
    <2>1. Incoming' = Incoming \o armW.buf /\ armW.buf \in Seq(Byte)
      BY <1>1, <1>4, ArmWritePublished
    <2> QED BY <1>1, <2>1
  <1>5. CASE ArmReadPublish
    BY <1>1, <1>5, ArmReadPublished
  <1>6. CASE \/ CallsWrite \/ CallsRead \/ WriteCopy1 \/ WriteCopy2 \/ ReadCopy1 \/ ReadCopy2
             \/ ArmReadBegin \/ ArmReadCopy \/ ArmWriteBegin \/ ArmWriteCopy
             \/ UNCHANGED vars
    <2>1. Incoming' = Incoming
      BY <1>1, <1>6, StreamsStay
    <2> QED BY <1>1, <2>1
  <1>7. CASE DspStep
    BY <1>2, <1>3, <1>6, <1>7 DEF DspStep
  <1>8. CASE ArmReader \/ ArmWriter
    BY <1>4, <1>5, <1>6, <1>8 DEF ArmReader, ArmWriter
  <1> QED BY <1>6, <1>7, <1>8, EchoActions

LEMMA EchoNextInv == EchoInv /\ [EchoNext]_evars => EchoInv'
  <1> SUFFICES ASSUME EchoInv, [EchoNext]_evars PROVE EchoInv'
    OBVIOUS
  <1> DEFINE Places == {"greet", "discard", "discarding", "loop", "echo"}
  <1>1. FInv' /\ Incoming' \in Seq(Byte)
    BY EchoKeepsFInv, IncomingStaysBytes
  <1>2. /\ main \in [pc : Places, b : 0 .. Len(Greetings)] /\ Len(Greetings) \in Nat
        /\ FInv /\ MainFollows
    BY EchoAssumption DEF EchoInv
  <1>3. CASE Greet
    <2>1. CASE main.b = Len(Greetings) /\ main' = [main EXCEPT !.pc = "loop"] /\ UNCHANGED vars
      <3>1. main'.pc = "loop" /\ main' \in [pc : Places, b : 0 .. Len(Greetings)] /\ dsp' = dsp
            /\ dsp.pc = "idle"
        BY <1>2, <1>3, <2>1 DEF vars, Greet, MainFollows
      <3> QED BY <1>1, <3>1 DEF EchoInv, MainFollows
    <2>2. CASE /\ main.b < Len(Greetings) /\ main' = [pc |-> "discard", b |-> main.b + 1]
               /\ CallWrite(Greetings[main.b + 1])
      <3>1. main.b + 1 \in 0 .. Len(Greetings) /\ dsp'.op = "write"
        BY <1>2, <2>2 DEF CallWrite, WriteRefuse, WriteBegin
      <3> QED BY <1>1, <2>2, <3>1 DEF EchoInv, MainFollows
    <2> QED BY <1>3, <2>1, <2>2, Greets
  <1>4. CASE Discard
    <2>1. /\ main'.pc = "discarding" /\ main' \in [pc : Places, b : 0 .. Len(Greetings)]
          /\ dsp'.op = "read"
      BY <1>2, <1>4 DEF Discard, ReadEmpty, ReadBegin
    <2> QED BY <1>1, <2>1 DEF EchoInv, MainFollows
  <1>5. CASE NextGreeting
    <2>1. /\ main'.pc = "greet" /\ main' \in [pc : Places, b : 0 .. Len(Greetings)]
          /\ dsp' = dsp /\ dsp.pc = "idle"
      BY <1>2, <1>5 DEF NextGreeting, vars
    <2> QED BY <1>1, <2>1 DEF EchoInv, MainFollows
  <1>6. CASE LoopWait
    <2>1. main' = main /\ main.pc = "loop" /\ dsp'.pc = "idle"
      BY <1>6 DEF LoopWait, ReadEmpty
    <2> QED BY <1>1, <1>2, <2>1 DEF EchoInv, MainFollows
  <1>7. CASE LoopRead
    <2>1. /\ main'.pc = "echo" /\ main' \in [pc : Places, b : 0 .. Len(Greetings)]
          /\ dsp'.op = "read" /\ dsp'.pc = "copy1"
      BY <1>2, <1>7 DEF LoopRead, ReadBegin
    <2> QED BY <1>1, <2>1 DEF EchoInv, MainFollows
  <1>8. CASE LoopEcho
    <2>1. /\ main'.pc = "loop" /\ main' \in [pc : Places, b : 0 .. Len(Greetings)]
          /\ dsp'.op = "write"
      BY <1>2, <1>8 DEF LoopEcho, CallWrite, WriteRefuse, WriteBegin
    <2> QED BY <1>1, <2>1 DEF EchoInv, MainFollows
  <1>9. CASE InCall
    <2>1. CASE WriteCopy1 \/ WriteCopy2 \/ WritePublish
      <3>1. main' = main /\ dsp.op = "write" /\ dsp'.op = "write" /\ dsp.pc # "idle"
        BY <1>9, <2>1 DEF InCall, WriteCopy1, WriteCopy2, WritePublish, FInv, IInv, TypeOK, EchoInv
      <3> QED BY <1>1, <1>2, <3>1 DEF EchoInv, MainFollows
    <2>2. CASE ReadCopy1 \/ ReadCopy2
      <3>1. main' = main /\ dsp.op = "read" /\ dsp'.op = "read" /\ dsp.pc # "idle" /\ dsp'.pc # "idle"
        BY <1>9, <2>2 DEF InCall, ReadCopy1, ReadCopy2, AfterCopy1, FInv, IInv, TypeOK, EchoInv
      <3> QED BY <1>1, <1>2, <3>1 DEF EchoInv, MainFollows
    <2>3. CASE ReadPublish
      <3>1. main' = main /\ dsp.op = "read" /\ dsp'.op = "read" /\ dsp.pc # "idle"
        BY <1>2, <1>9, <2>3, ReadPublished DEF InCall
      <3>2. dsp'.buf \in Seq(Byte) \ {<< >>}
        BY <1>2, <2>3, ReadPublished, PiecesAreBytes DEF EchoInv
      <3> QED BY <1>1, <1>2, <3>1, <3>2 DEF EchoInv, MainFollows
    <2> QED BY <1>9, <2>1, <2>2, <2>3 DEF InCall, DspStep
  <1>10. CASE ArmWrites \/ ArmReads \/ UNCHANGED evars
    <2>1. main' = main /\ dsp' = dsp
      BY <1>10 DEF ArmWrites, ArmReads, evars, vars, ArmWriteBegin, ArmWriteCopy, ArmWritePublish,
                   ArmReadBegin, ArmReadCopy, ArmReadPublish
    <2> QED BY <1>1, <1>2, <2>1 DEF EchoInv, MainFollows
  <1> QED BY <1>3, <1>4, <1>5, <1>6, <1>7, <1>8, <1>9, <1>10 DEF EchoNext, Main

-----------------------------------------------------------------------------
(***************************************************************************)
(* Every step is a step of LossyEcho, or none.                             *)
(***************************************************************************)
LEMMA MainStepsEcho ==
    ASSUME EchoInv, Main, EchoInv'
    PROVE  [Echo!Next]_Echo!vars
  <1>1. /\ FInv /\ MainFollows /\ MainFollows' /\ Len(Greetings) \in Nat
        /\ main \in [pc : {"greet", "discard", "discarding", "loop", "echo"}, b : 0 .. Len(Greetings)]
        /\ Incoming \in Seq(Byte)
    BY EchoAssumption DEF EchoInv
  <1>2. /\ Len(Outgoing) \in Nat /\ RingSize \in Nat
        /\ FreeSize(armHead.read_addr, dspHead.write_addr) = RingSize - Len(Outgoing)
    BY <1>1, Streams
  <1>3. CASE Greet
    <2>1. CASE main.b = Len(Greetings) /\ main' = [main EXCEPT !.pc = "loop"] /\ UNCHANGED vars
      <3>1. /\ Held = << >> /\ Held' = << >> /\ main.pc = "greet" /\ main'.pc = "loop" /\ main'.b = main.b
            /\ UNCHANGED <<Incoming, Outgoing, got>>
        BY <1>1, <1>3, <2>1, StreamsStay DEF Greet, Held, MainFollows, vars
      <3>2. Echo!Listen
        BY <2>1, <3>1 DEF Echo!Listen
      <3> QED BY <3>2 DEF Echo!Next
    <2>2. CASE /\ main.b < Len(Greetings) /\ main' = [pc |-> "discard", b |-> main.b + 1]
               /\ Greetings[main.b + 1] \in Seq(Byte) \ {<< >>}
               /\ CallWrite(Greetings[main.b + 1])
      <3> DEFINE msg == Greetings[main.b + 1]
      <3>1. /\ main.pc = "greet" /\ dsp.pc = "idle" /\ Held = << >> /\ got' = got
            /\ main'.pc = "discard" /\ main'.b = main.b + 1 /\ Len(msg) \in Nat
        BY <1>1, <1>3, <2>2 DEF Greet, MainFollows, Held
      <3>2. Incoming' = Incoming /\ Outgoing' = Outgoing
        BY <1>1, <2>2, StreamsStay DEF CallsWrite
      <3>3. CASE WriteRefuse(msg)
        <4>1. Held' = << >> /\ ~(Len(Outgoing) + Len(msg) < RingSize)
          BY <1>2, <3>1, <3>3 DEF WriteRefuse, Held
        <4>2. Echo!GreetInVain
          BY <2>2, <3>1, <3>2, <4>1 DEF Echo!GreetInVain, Echo!Room, Echo!Greeting
        <4> QED BY <4>2 DEF Echo!Next
      <3>4. CASE WriteBegin(msg)
        <4>1. Held' = msg /\ Len(Outgoing) + Len(msg) < RingSize
          BY <1>2, <3>1, <3>4 DEF WriteBegin, Held
        <4>2. Echo!Greet
          BY <2>2, <3>1, <3>2, <4>1 DEF Echo!Greet, Echo!Room, Echo!Greeting
        <4> QED BY <4>2 DEF Echo!Next
      <3> QED BY <2>2, <3>3, <3>4 DEF CallWrite
    <2> QED BY <1>3, <2>1, <2>2, Greets
  <1>4. CASE Discard \/ LoopWait \/ LoopRead
    <2>1. Incoming' = Incoming /\ Outgoing' = Outgoing
      BY <1>1, <1>4, StreamsStay DEF Discard, LoopWait, LoopRead, CallsRead
    <2>2. Held = << >>
      BY <1>1, <1>4 DEF Discard, LoopWait, LoopRead, ReadEmpty, ReadBegin, MainFollows, Held
    <2>3. Held' = << >>
      BY <1>1, <1>4 DEF Discard, LoopWait, LoopRead, ReadEmpty, ReadBegin, Held
    <2>4. /\ got' = got /\ main'.b = main.b
          /\ (main'.pc \in {"loop", "echo"}) = (main.pc \in {"loop", "echo"})
      BY <1>1, <1>4 DEF Discard, LoopWait, LoopRead
    <2> QED BY <2>1, <2>2, <2>3, <2>4 DEF Echo!vars
  <1>5. CASE NextGreeting
    <2>1. Incoming' = Incoming /\ Outgoing' = Outgoing
      BY <1>1, <1>5, StreamsStay DEF NextGreeting
    <2>2. /\ got' = got /\ main'.b = main.b /\ main.pc = "discarding" /\ main'.pc = "greet" /\ dsp' = dsp
      BY <1>1, <1>5 DEF NextGreeting, vars
    <2>3. Held' = Held
      BY <2>2 DEF Held
    <2> QED BY <2>1, <2>2, <2>3 DEF Echo!vars
  <1>6. CASE LoopEcho
    <2> DEFINE msg == dsp.buf
    <2>1. /\ main.pc = "echo" /\ dsp.pc = "idle" /\ dsp.op = "read" /\ got' = got
          /\ main'.pc = "loop" /\ main'.b = main.b /\ msg \in Seq(Byte) \ {<< >>} /\ Len(msg) \in Nat
      BY <1>1, <1>6 DEF LoopEcho, CallWrite, WriteRefuse, WriteBegin, MainFollows
    <2>2. Incoming' = Incoming /\ Outgoing' = Outgoing
      BY <1>1, <1>6, <2>1, StreamsStay DEF LoopEcho, CallsWrite
    <2>3. Held = msg
      BY <2>1 DEF Held
    <2>4. CASE WriteRefuse(msg)
      <3>1. Held' = << >> /\ ~(Len(Outgoing) + Len(msg) < RingSize)
        BY <1>2, <2>1, <2>4 DEF WriteRefuse, Held
      <3>2. Echo!Lose
        BY <2>1, <2>2, <2>3, <3>1 DEF Echo!Lose, Echo!Room
      <3> QED BY <3>2 DEF Echo!Next
    <2>5. CASE WriteBegin(msg)
      <3>1. Held' = msg
        BY <2>5 DEF WriteBegin, Held
      <3> QED BY <2>1, <2>2, <2>3, <3>1 DEF Echo!vars
    <2> QED BY <1>6, <2>4, <2>5 DEF LoopEcho, CallWrite
  <1>7. CASE InCall
    <2>1. main' = main /\ got' = got
      BY <1>7 DEF InCall
    <2>2. CASE WriteCopy1 \/ WriteCopy2 \/ ReadCopy1 \/ ReadCopy2
      <3>1. Incoming' = Incoming /\ Outgoing' = Outgoing
        BY <1>1, <2>2, StreamsStay
      <3>2. Held' = Held
        BY <1>1, <2>1, <2>2 DEF WriteCopy1, WriteCopy2, ReadCopy1, ReadCopy2, AfterCopy1, Held,
                                FInv, IInv, TypeOK
      <3> QED BY <2>1, <3>1, <3>2 DEF Echo!vars
    <2>3. CASE WritePublish
      <3>1. Held = dsp.buf /\ Held' = << >>
        BY <1>1, <2>1, <2>3, WritePublished DEF WritePublish, Held
      <3>2. Echo!GiveBack
        BY <1>1, <2>1, <2>3, <3>1, WritePublished DEF Echo!GiveBack, Echo!Room
      <3> QED BY <3>2 DEF Echo!Next
    <2>4. CASE ReadPublish
      <3>1. PICK n \in 1 .. Len(Incoming) :
               dsp'.buf = SubSeq(Incoming, 1, n) /\ Incoming' = SubSeq(Incoming, n + 1, Len(Incoming))
        BY <1>1, <2>4, ReadPublished
      <3>2. /\ dsp.op = "read" /\ dsp'.op = "read" /\ dsp.pc # "idle" /\ dsp'.pc = "idle"
            /\ Outgoing' = Outgoing
        BY <1>1, <2>4, ReadPublished
      <3>3. Held = << >> /\ main.pc \in {"discarding", "echo"}
        BY <1>1, <3>2 DEF Held, MainFollows
      <3>4. CASE main.pc = "echo"
        <4>1. Held' = dsp'.buf
          BY <2>1, <3>2, <3>4 DEF Held
        <4>2. Echo!Take(n)
          BY <2>1, <3>1, <3>2, <3>3, <3>4, <4>1 DEF Echo!Take
        <4> QED BY <4>2 DEF Echo!Next
      <3>5. CASE main.pc = "discarding"
        <4>1. Held' = << >>
          BY <2>1, <3>2, <3>5 DEF Held
        <4>2. Echo!Discard(n)
          BY <2>1, <3>1, <3>2, <3>3, <3>5, <4>1 DEF Echo!Discard
        <4> QED BY <4>2 DEF Echo!Next
      <3> QED BY <3>3, <3>4, <3>5
    <2> QED BY <1>7, <2>2, <2>3, <2>4 DEF InCall, DspStep
  <1> QED BY <1>3, <1>4, <1>5, <1>6, <1>7 DEF Main

\* What the ARM has written comes behind what was there.
LEMMA ArmWritesSome ==
    ASSUME NEW s \in Seq(Byte), NEW t \in Seq(Byte), t # << >>, NEW r \in Nat, Len(s) + Len(t) < r
    PROVE  \E n \in Len(s) + 1 .. r - 1 :
             s \o t \in [1 .. n -> Byte] /\ SubSeq(s \o t, 1, Len(s)) = s
  <1> DEFINE n == Len(s) + Len(t)
  <1>1. Len(s) \in Nat /\ Len(t) \in Nat /\ Len(t) # 0
    OBVIOUS
  <1>2. n \in Len(s) + 1 .. r - 1
    BY <1>1
  <1>3. s \o t \in [1 .. n -> Byte]
    <2>1. s \o t \in Seq(Byte) /\ Len(s \o t) = n
      OBVIOUS
    <2> QED BY <2>1, LenProperties
  <1>4. SubSeq(s \o t, 1, Len(s)) = s
    BY SubSeqOfConcat1, SubSeqFull, <1>1
  <1> QED BY <1>2, <1>3, <1>4

LEMMA ArmStepsEcho ==
    ASSUME EchoInv, ArmWrites \/ ArmReads
    PROVE  [Echo!Next]_Echo!vars
  <1>1. FInv /\ Incoming \in Seq(Byte) /\ main' = main
    BY DEF EchoInv, ArmWrites, ArmReads
  <1>2. CASE got' = got /\ (ArmReadBegin \/ ArmReadCopy \/ ArmWriteBegin \/ ArmWriteCopy)
    <2>1. Incoming' = Incoming /\ Outgoing' = Outgoing
      BY <1>1, <1>2, StreamsStay
    <2>2. Held' = Held
      BY <1>1, <1>2 DEF ArmReadBegin, ArmReadCopy, ArmWriteBegin, ArmWriteCopy, Held
    <2> QED BY <1>1, <1>2, <2>1, <2>2 DEF Echo!vars
  <1>3. CASE got' = got /\ ArmWritePublish
    <2>1. /\ armW.buf \in Seq(Byte) \ {<< >>} /\ Len(Incoming) + Len(armW.buf) < RingSize
          /\ Incoming' = Incoming \o armW.buf /\ Outgoing' = Outgoing /\ Held' = Held
      BY <1>1, <1>3, ArmWritePublished DEF Held
    <2>2. RingSize \in Nat
      BY AddrAssumption DEF RingSize
    <2>3. \E n \in Len(Incoming) + 1 .. RingSize - 1 :
            Incoming' \in [1 .. n -> Byte] /\ SubSeq(Incoming', 1, Len(Incoming)) = Incoming
      BY <1>1, <2>1, <2>2, ArmWritesSome
    <2>4. Echo!ArmWrites
      BY <1>1, <1>3, <2>1, <2>3 DEF Echo!ArmWrites
    <2> QED BY <2>4 DEF Echo!Next
  <1>4. CASE ArmReadPublish /\ got' = got \o armR.buf
    <2>1. PICK n \in 1 .. Len(Outgoing) :
             armR.buf = SubSeq(Outgoing, 1, n) /\ Outgoing' = SubSeq(Outgoing, n + 1, Len(Outgoing))
      BY <1>1, <1>4, ArmReadPublished
    <2>2. Incoming' = Incoming /\ Held' = Held
      BY <1>1, <1>4, ArmReadPublished DEF Held
    <2>3. Echo!ArmReads(n)
      BY <1>1, <1>4, <2>1, <2>2 DEF Echo!ArmReads
    <2> QED BY <2>3 DEF Echo!Next
  <1> QED BY <1>2, <1>3, <1>4 DEF ArmWrites, ArmReads

LEMMA EchoSteps == EchoInv /\ EchoInv' /\ [EchoNext]_evars => [Echo!Next]_Echo!vars
  <1> SUFFICES ASSUME EchoInv, EchoInv', [EchoNext]_evars PROVE [Echo!Next]_Echo!vars
    OBVIOUS
  <1>1. CASE UNCHANGED evars
    BY <1>1 DEF evars, vars, Echo!vars, Incoming, Outgoing, Held
  <1> QED BY <1>1, MainStepsEcho, ArmStepsEcho DEF EchoNext

LEMMA EchoInitially == EchoInit => Echo!Init
  <1> SUFFICES ASSUME EchoInit PROVE Echo!Init
    OBVIOUS
  <1>1. MsgSize(MIN_ADDR, MIN_ADDR) = 0
    BY DEF MsgSize
  <1>2. Incoming = << >> /\ Outgoing = << >>
    BY <1>1 DEF EchoInit, Init, Incoming, Outgoing, Contents
  <1>3. Held = << >>
    BY DEF EchoInit, Init, Held
  <1> QED BY <1>2, <1>3 DEF EchoInit, Echo!Init

(***************************************************************************)
(* main() (src/main.c 67-118) is a lossy echo: for every ring size, buffer *)
(* size and greetings, and however the ARM cuts what it writes and reads,  *)
(* the ARM gets back what it wrote in order, each chunk whole or, when the *)
(* ring towards it has no room, not at all; nothing is duplicated, and     *)
(* input is thrown away only while greeting.                               *)
(***************************************************************************)
THEOREM MainIsALossyEcho == EchoSpec => IsLossyEcho
  <1>1. EchoSpec => []EchoInv
    BY EchoInitInv, EchoNextInv, PTL DEF EchoSpec
  <1> QED BY <1>1, EchoInitially, EchoSteps, PTL DEF EchoSpec, IsLossyEcho, Echo!Spec
=============================================================================
