------------------------ MODULE SharespaceInitProofs ------------------------
(***************************************************************************)
(* The handshake's safety: the DSP moves to the regions this ARM offered,  *)
(* the ARM uses a complete head, and ready means acknowledged, from every  *)
(* memory an earlier run may have left and for every interleaving of the   *)
(* two processors' words.                                                  *)
(***************************************************************************)
EXTENDS SharespaceInit, TLAPS

Clearing == {"banner", "clear", "clear_read", "clear_write", "reinit"}
Polling == {"poll", "check"}
Adopted == {"publish", "await", "acked", "ready"}

\* The memory is three words at each location; a copy is at one of them.
Shape ==
    /\ mem \in [Loc -> MsgHead]
    /\ dsp \in [pc : Clearing \cup Polling \cup Adopted, k : 1 .. 3, head : MsgHead]
    /\ arm_head_ptr \in Loc /\ dsp_head_ptr \in Loc
    /\ arm \in {"boot", "offer", "ack", "up"}
    /\ dsp.pc \in {"banner", "reinit", "check", "acked", "ready"} => dsp.k = 1

\* The DSP is past the n-th word of what it does at pc.
Past(pc, later, n) == dsp.pc \in later \/ (dsp.pc = pc /\ dsp.k > n)

\* Once a word of the head is filled with 0xa5, only this ARM's answer can be in it.
FilledOrOffered ==
    /\ Past("clear", {"clear_read", "clear_write", "reinit"} \cup Polling, 1) =>
         mem["dts"].read_addr \in {A5, "toArm"}
    /\ Past("clear", {"clear_read", "clear_write", "reinit"} \cup Polling, 2) =>
         mem["dts"].write_addr \in {A5, "toDsp"}

\* And so in the DSP's copy of the head, from the time it reads it back.
ReadBackOrOffered ==
    /\ Past("clear_read", {"clear_write", "reinit"} \cup Polling, 1) =>
         dsp.head.read_addr \in {A5, "toArm"}
    /\ Past("clear_read", {"clear_write", "reinit"} \cup Polling, 2) =>
         dsp.head.write_addr \in {A5, "toDsp"}

\* Until it has the ARM's answer, the DSP works on the device tree's head.
Pointers ==
    /\ dsp.pc \in (Clearing \cup Polling) \ {"banner"} => arm_head_ptr = "dts"
    /\ dsp.pc \in Adopted => arm_head_ptr = "toDsp" /\ dsp_head_ptr = "toArm"
    /\ \A l \in {"oldToDsp", "oldToArm", "null"} : mem[l] = Blank

\* Before the ARM has prepared its regions there is no answer anywhere.
NoAnswerBeforeBoot ==
    arm = "boot" => /\ dsp.pc \notin Adopted
                    /\ mem["dts"].read_addr # "toArm"
                    /\ dsp.head.read_addr # "toArm"

\* The DSP's head is blank, then written in the order of its words.
DspHeadGrows ==
    arm # "boot" =>
       /\ dsp.pc \notin Adopted => mem["toArm"] = Blank
       /\ dsp.pc = "publish" =>
            mem["toArm"] = MakeHead(IF dsp.k > 1 THEN "MIN_ADDR" ELSE "zero",
                                    IF dsp.k > 2 THEN "MIN_ADDR" ELSE "zero", "0")
       /\ dsp.pc \in {"await", "acked", "ready"} => mem["toArm"] = DspHead

\* The ARM has seen it whole; its own flag is set when it is up.
ArmFollows ==
    /\ arm \in {"ack", "up"} => dsp.pc \in {"await", "acked", "ready"}
    /\ arm \in {"offer", "ack"} => mem["toDsp"].init_state # "1"
    /\ dsp.pc = "acked" /\ dsp.head.init_state = "1" => arm = "up"
    /\ dsp.pc = "ready" => arm = "up"

HandshakeInv ==
    /\ Shape /\ FilledOrOffered /\ ReadBackOrOffered /\ Pointers
    /\ NoAnswerBeforeBoot /\ DspHeadGrows /\ ArmFollows
-----------------------------------------------------------------------------
(***************************************************************************)
(* A head with one word stored in it; one step of a copy.                  *)
(***************************************************************************)
Stored(h, k, v) == MakeHead(IF k = 1 THEN v ELSE h.read_addr,
                            IF k = 2 THEN v ELSE h.write_addr,
                            IF k = 3 THEN v ELSE h.init_state)

WordOf(h, k) == IF k = 1 THEN h.read_addr ELSE IF k = 2 THEN h.write_addr ELSE h.init_state

LEMMA FieldNames == Field[1] = "read_addr" /\ Field[2] = "write_addr" /\ Field[3] = "init_state"
  BY DEF Field

LEMMA FieldRead ==
    ASSUME NEW h \in MsgHead, NEW k \in 1 .. 3
    PROVE  h[Field[k]] = WordOf(h, k) /\ WordOf(h, k) \in Word
  <1> DEFINE f == Field[k]
  <1>1. CASE k = 1
    <2>1. f = "read_addr"
      BY <1>1, FieldNames
    <2> HIDE DEF f
    <2>2. h[f] = h.read_addr /\ h.read_addr \in Word
      BY <2>1 DEF MsgHead
    <2> QED BY <1>1, <2>2 DEF WordOf, f
  <1>2. CASE k = 2
    <2>1. f = "write_addr"
      BY <1>2, FieldNames
    <2> HIDE DEF f
    <2>2. h[f] = h.write_addr /\ h.write_addr \in Word
      BY <2>1 DEF MsgHead
    <2> QED BY <1>2, <2>2 DEF WordOf, f
  <1>3. CASE k = 3
    <2>1. f = "init_state"
      BY <1>3, FieldNames
    <2> HIDE DEF f
    <2>2. h[f] = h.init_state /\ h.init_state \in Word
      BY <2>1 DEF MsgHead
    <2> QED BY <1>3, <2>2 DEF WordOf, f
  <1> QED BY <1>1, <1>2, <1>3

LEMMA StoredHead ==
    ASSUME NEW h \in MsgHead, NEW k \in 1 .. 3, NEW v \in Word
    PROVE  Stored(h, k, v) \in MsgHead
  BY DEF Stored, MsgHead, MakeHead

LEMMA FieldStored ==
    ASSUME NEW h \in MsgHead, NEW k \in 1 .. 3, NEW v \in Word
    PROVE  [h EXCEPT ![Field[k]] = v] = Stored(h, k, v)
  <1> DEFINE f == Field[k]
  <1>1. CASE k = 1
    <2>1. f = "read_addr"
      BY <1>1, FieldNames
    <2> HIDE DEF f
    <2>2. [h EXCEPT ![f] = v] = [h EXCEPT !.read_addr = v]
      BY <2>1 DEF MsgHead
    <2>3. [h EXCEPT !.read_addr = v] = Stored(h, k, v)
      BY <1>1 DEF MsgHead, Stored, MakeHead
    <2> QED BY <2>2, <2>3 DEF f
  <1>2. CASE k = 2
    <2>1. f = "write_addr"
      BY <1>2, FieldNames
    <2> HIDE DEF f
    <2>2. [h EXCEPT ![f] = v] = [h EXCEPT !.write_addr = v]
      BY <2>1 DEF MsgHead
    <2>3. [h EXCEPT !.write_addr = v] = Stored(h, k, v)
      BY <1>2 DEF MsgHead, Stored, MakeHead
    <2> QED BY <2>2, <2>3 DEF f
  <1>3. CASE k = 3
    <2>1. f = "init_state"
      BY <1>3, FieldNames
    <2> HIDE DEF f
    <2>2. [h EXCEPT ![f] = v] = [h EXCEPT !.init_state = v]
      BY <2>1 DEF MsgHead
    <2>3. [h EXCEPT !.init_state = v] = Stored(h, k, v)
      BY <1>3 DEF MsgHead, Stored, MakeHead
    <2> QED BY <2>2, <2>3 DEF f
  <1> QED BY <1>1, <1>2, <1>3

LEMMA CopiedIn ==
    ASSUME Shape, NEW loc \in Loc, NEW pc \in {"clear", "clear_read", "clear_write", "poll", "publish", "await"}, NEW done \in Clearing \cup Polling \cup Adopted,
           CopyIn(loc, pc, done)
    PROVE  /\ dsp.pc = pc
           /\ dsp' = [pc |-> IF dsp.k < 3 THEN pc ELSE done,
                      k |-> IF dsp.k < 3 THEN dsp.k + 1 ELSE 1,
                      head |-> Stored(dsp.head, dsp.k, WordOf(mem[loc], dsp.k))]
           /\ UNCHANGED <<mem, arm_head_ptr, dsp_head_ptr, arm_addr, arm>>
           /\ Shape'
  <1>1. mem[loc] \in MsgHead /\ dsp.head \in MsgHead /\ dsp.k \in 1 .. 3
    BY DEF Shape
  <1>2. mem[loc][Field[dsp.k]] = WordOf(mem[loc], dsp.k) /\ WordOf(mem[loc], dsp.k) \in Word
    BY <1>1, FieldRead
  <1> DEFINE v == WordOf(mem[loc], dsp.k)
  <1>3. [dsp.head EXCEPT ![Field[dsp.k]] = v] = Stored(dsp.head, dsp.k, v) /\ Stored(dsp.head, dsp.k, v) \in MsgHead
    BY <1>1, <1>2, FieldStored, StoredHead
  <1>4. dsp' = [Step(pc, done) EXCEPT !.head = [@ EXCEPT ![Field[dsp.k]] = v]]
    BY <1>2 DEF CopyIn
  <1>5. Step(pc, done) = [pc |-> IF dsp.k < 3 THEN pc ELSE done,
                          k |-> IF dsp.k < 3 THEN dsp.k + 1 ELSE 1, head |-> dsp.head]
    BY <1>1 DEF Step, Shape, CopyIn
  <1>6. dsp' = [pc |-> IF dsp.k < 3 THEN pc ELSE done,
                k |-> IF dsp.k < 3 THEN dsp.k + 1 ELSE 1, head |-> Stored(dsp.head, dsp.k, v)]
    BY <1>3, <1>4, <1>5
  <1>7. Shape'
    <2>1. (IF dsp.k < 3 THEN dsp.k + 1 ELSE 1) \in 1 .. 3
      BY <1>1
    <2>2. (IF dsp.k < 3 THEN pc ELSE done) \in Clearing \cup Polling \cup Adopted
      BY DEF CopyIn, Shape
    <2>3. dsp' \in [pc : Clearing \cup Polling \cup Adopted, k : 1 .. 3, head : MsgHead]
      BY <1>1, <1>3, <1>6, <2>1, <2>2
    <2>4. dsp'.pc \in {"banner", "reinit", "check", "acked", "ready"} => dsp'.k = 1
      BY <1>1, <1>6
    <2> QED BY <1>3, <2>3, <2>4 DEF CopyIn, Shape
  <1> QED BY <1>6, <1>7 DEF CopyIn

LEMMA CopiedOut ==
    ASSUME Shape, NEW loc \in Loc, NEW pc \in {"clear", "clear_read", "clear_write", "poll", "publish", "await"}, NEW done \in Clearing \cup Polling \cup Adopted,
           NEW head \in MsgHead, CopyOut(loc, head, pc, done)
    PROVE  /\ dsp.pc = pc
           /\ dsp' = [pc |-> IF dsp.k < 3 THEN pc ELSE done,
                      k |-> IF dsp.k < 3 THEN dsp.k + 1 ELSE 1, head |-> dsp.head]
           /\ mem' = [mem EXCEPT ![loc] = Stored(mem[loc], dsp.k, WordOf(head, dsp.k))]
           /\ UNCHANGED <<arm_head_ptr, dsp_head_ptr, arm_addr, arm>>
           /\ Shape'
  <1>1. mem[loc] \in MsgHead /\ dsp.k \in 1 .. 3
    BY DEF Shape
  <1> DEFINE v == WordOf(head, dsp.k)
  <1>2. head[Field[dsp.k]] = v /\ v \in Word
    BY <1>1, FieldRead
  <1>3. [mem[loc] EXCEPT ![Field[dsp.k]] = v] = Stored(mem[loc], dsp.k, v) /\ Stored(mem[loc], dsp.k, v) \in MsgHead
    BY <1>1, <1>2, FieldStored, StoredHead
  <1>4. mem' = [mem EXCEPT ![loc] = Stored(mem[loc], dsp.k, v)]
    BY <1>2, <1>3 DEF CopyOut
  <1>5. dsp' = [pc |-> IF dsp.k < 3 THEN pc ELSE done,
                k |-> IF dsp.k < 3 THEN dsp.k + 1 ELSE 1, head |-> dsp.head]
    BY <1>1 DEF Step, Shape, CopyOut
  <1>6. Shape'
    <2>1. (IF dsp.k < 3 THEN dsp.k + 1 ELSE 1) \in 1 .. 3
      BY <1>1
    <2>2. (IF dsp.k < 3 THEN pc ELSE done) \in Clearing \cup Polling \cup Adopted
      BY DEF CopyOut, Shape
    <2>3. dsp' \in [pc : Clearing \cup Polling \cup Adopted, k : 1 .. 3, head : MsgHead]
      BY <1>1, <1>5, <2>1, <2>2 DEF Shape
    <2>4. dsp'.pc \in {"banner", "reinit", "check", "acked", "ready"} => dsp'.k = 1
      BY <1>1, <1>5
    <2>5. mem' \in [Loc -> MsgHead]
      BY <1>3, <1>4 DEF Shape
    <2> QED BY <2>3, <2>4, <2>5 DEF CopyOut, Shape
  <1> QED BY <1>4, <1>5, <1>6 DEF CopyOut

LEMMA Heads == Blank \in MsgHead /\ DspHead \in MsgHead /\ MakeHead(A5, A5, A5) \in MsgHead
               /\ \A h \in LeftOver : h \in MsgHead
  BY DEF Blank, DspHead, MakeHead, MsgHead, Word, Loc, LeftOver, A5

-----------------------------------------------------------------------------
(***************************************************************************)
(* The invariant, word by word.                                            *)
(***************************************************************************)
LEMMA ShakeInit == Init => HandshakeInv
  <1> SUFFICES ASSUME Init PROVE HandshakeInv
    OBVIOUS
  <1>1. PICK h \in LeftOver, stale \in {Blank, MakeHead("zero", "zero", "1")} :
           mem = [l \in Loc |-> CASE l = "dts" -> h
                                  [] l \in {"toDsp", "toArm"} -> stale
                                  [] OTHER -> Blank]
    BY DEF Init
  <1>2. stale \in MsgHead /\ h \in MsgHead /\ h.read_addr # "toArm"
    BY Heads DEF Blank, MakeHead, MsgHead, Word, Loc, LeftOver, A5
  <1>3. Shape
    BY <1>1, <1>2, Heads DEF Init, Shape, Loc, Clearing
  <1>4. mem["dts"] = h /\ mem["oldToDsp"] = Blank /\ mem["oldToArm"] = Blank /\ mem["null"] = Blank
    BY <1>1 DEF Loc
  <1> QED BY <1>2, <1>3, <1>4 DEF Init, HandshakeInv, FilledOrOffered, ReadBackOrOffered, Pointers,
          NoAnswerBeforeBoot, DspHeadGrows, ArmFollows, Past, Clearing, Polling, Adopted, Blank, MakeHead

\* The local actions of the DSP: no word is stored.
LEMMA LocalKeeps ==
    ASSUME HandshakeInv, FakeInit \/ Reinit \/ CheckAgain \/ Adopt \/ AwaitAgain \/ Ready
    PROVE  HandshakeInv'
  <1>1. Shape
    BY DEF HandshakeInv
  <1>2. mem' = mem /\ arm' = arm /\ dsp'.k = dsp.k /\ dsp'.head = dsp.head
    BY <1>1 DEF FakeInit, Reinit, CheckAgain, Adopt, AwaitAgain, Ready, Shape
  <1>3. Adopt => dsp.head.write_addr = "toDsp" /\ dsp.head.read_addr = "toArm"
    BY DEF Adopt, HandshakeInv, ReadBackOrOffered, Offered, Past, Polling
  <1>4. CASE FakeInit
    <2>1. Shape'
      BY <1>1, <1>3, <1>4 DEF FakeInit, Shape, Clearing, Polling, Adopted, Loc
    <2>2. FilledOrOffered' /\ ReadBackOrOffered'
      BY <1>1, <1>2, <1>4 DEF FakeInit, Shape, FilledOrOffered, ReadBackOrOffered, HandshakeInv,
         Past, Clearing, Polling, Adopted
    <2>3. Pointers'
      BY <1>1, <1>2, <1>3, <1>4 DEF FakeInit, Shape, Pointers, HandshakeInv, Clearing, Polling, Adopted
    <2>4. NoAnswerBeforeBoot' /\ DspHeadGrows' /\ ArmFollows'
      BY <1>1, <1>2, <1>3, <1>4 DEF FakeInit, Shape, NoAnswerBeforeBoot, DspHeadGrows, ArmFollows,
         HandshakeInv, Clearing, Polling, Adopted
    <2> QED BY <2>1, <2>2, <2>3, <2>4 DEF HandshakeInv
  <1>5. CASE Reinit
    <2>1. Shape'
      BY <1>1, <1>3, <1>5 DEF Reinit, Shape, Clearing, Polling, Adopted, Loc
    <2>2. FilledOrOffered' /\ ReadBackOrOffered'
      BY <1>1, <1>2, <1>5 DEF Reinit, Shape, FilledOrOffered, ReadBackOrOffered, HandshakeInv,
         Past, Clearing, Polling, Adopted
    <2>3. Pointers'
      BY <1>1, <1>2, <1>3, <1>5 DEF Reinit, Shape, Pointers, HandshakeInv, Clearing, Polling, Adopted
    <2>4. NoAnswerBeforeBoot' /\ DspHeadGrows' /\ ArmFollows'
      BY <1>1, <1>2, <1>3, <1>5 DEF Reinit, Shape, NoAnswerBeforeBoot, DspHeadGrows, ArmFollows,
         HandshakeInv, Clearing, Polling, Adopted
    <2> QED BY <2>1, <2>2, <2>3, <2>4 DEF HandshakeInv
  <1>6. CASE CheckAgain
    <2>1. Shape'
      BY <1>1, <1>3, <1>6 DEF CheckAgain, Shape, Clearing, Polling, Adopted, Loc
    <2>2. FilledOrOffered' /\ ReadBackOrOffered'
      BY <1>1, <1>2, <1>6 DEF CheckAgain, Shape, FilledOrOffered, ReadBackOrOffered, HandshakeInv,
         Past, Clearing, Polling, Adopted
    <2>3. Pointers'
      BY <1>1, <1>2, <1>3, <1>6 DEF CheckAgain, Shape, Pointers, HandshakeInv, Clearing, Polling, Adopted
    <2>4. NoAnswerBeforeBoot' /\ DspHeadGrows' /\ ArmFollows'
      BY <1>1, <1>2, <1>3, <1>6 DEF CheckAgain, Shape, NoAnswerBeforeBoot, DspHeadGrows, ArmFollows,
         HandshakeInv, Clearing, Polling, Adopted
    <2> QED BY <2>1, <2>2, <2>3, <2>4 DEF HandshakeInv
  <1>7. CASE Adopt
    <2>1. Shape'
      BY <1>1, <1>3, <1>7 DEF Adopt, Shape, Clearing, Polling, Adopted, Loc
    <2>2. FilledOrOffered' /\ ReadBackOrOffered'
      BY <1>1, <1>2, <1>7 DEF Adopt, Shape, FilledOrOffered, ReadBackOrOffered, HandshakeInv,
         Past, Clearing, Polling, Adopted
    <2>3. Pointers'
      BY <1>1, <1>2, <1>3, <1>7 DEF Adopt, Shape, Pointers, HandshakeInv, Clearing, Polling, Adopted
    <2>4. dsp.pc = "check" /\ dsp'.pc = "publish" /\ dsp'.k = 1
      BY <1>1, <1>2, <1>7 DEF Adopt, Shape
    <2>5. arm # "boot"
      BY <1>3, <1>7 DEF HandshakeInv, NoAnswerBeforeBoot
    <2>6. mem'["toArm"] = Blank
      BY <1>2, <2>4, <2>5 DEF HandshakeInv, DspHeadGrows, Adopted
    <2>7. NoAnswerBeforeBoot' /\ DspHeadGrows'
      BY <1>2, <2>4, <2>5, <2>6 DEF NoAnswerBeforeBoot, DspHeadGrows, Blank, MakeHead, Adopted
    <2>8. ArmFollows'
      BY <1>2, <2>4 DEF ArmFollows, HandshakeInv
    <2> QED BY <2>1, <2>2, <2>3, <2>7, <2>8 DEF HandshakeInv
  <1>8. CASE AwaitAgain
    <2>1. Shape'
      BY <1>1, <1>3, <1>8 DEF AwaitAgain, Shape, Clearing, Polling, Adopted, Loc
    <2>2. FilledOrOffered' /\ ReadBackOrOffered'
      BY <1>1, <1>2, <1>8 DEF AwaitAgain, Shape, FilledOrOffered, ReadBackOrOffered, HandshakeInv,
         Past, Clearing, Polling, Adopted
    <2>3. Pointers'
      BY <1>1, <1>2, <1>3, <1>8 DEF AwaitAgain, Shape, Pointers, HandshakeInv, Clearing, Polling, Adopted
    <2>4. NoAnswerBeforeBoot' /\ DspHeadGrows' /\ ArmFollows'
      BY <1>1, <1>2, <1>3, <1>8 DEF AwaitAgain, Shape, NoAnswerBeforeBoot, DspHeadGrows, ArmFollows,
         HandshakeInv, Clearing, Polling, Adopted
    <2> QED BY <2>1, <2>2, <2>3, <2>4 DEF HandshakeInv
  <1>9. CASE Ready
    <2>1. Shape'
      BY <1>1, <1>3, <1>9 DEF Ready, Shape, Clearing, Polling, Adopted, Loc
    <2>2. FilledOrOffered' /\ ReadBackOrOffered'
      BY <1>1, <1>2, <1>9 DEF Ready, Shape, FilledOrOffered, ReadBackOrOffered, HandshakeInv,
         Past, Clearing, Polling, Adopted
    <2>3. Pointers'
      BY <1>1, <1>2, <1>3, <1>9 DEF Ready, Shape, Pointers, HandshakeInv, Clearing, Polling, Adopted
    <2>4. NoAnswerBeforeBoot' /\ DspHeadGrows' /\ ArmFollows'
      BY <1>1, <1>2, <1>3, <1>9 DEF Ready, Shape, NoAnswerBeforeBoot, DspHeadGrows, ArmFollows,
         HandshakeInv, Clearing, Polling, Adopted
    <2> QED BY <2>1, <2>2, <2>3, <2>4 DEF HandshakeInv
  <1> QED BY <1>4, <1>5, <1>6, <1>7, <1>8, <1>9

LEMMA ClearReadKeeps == ASSUME HandshakeInv, ClearRead PROVE HandshakeInv'
  <1>1. Shape /\ arm_head_ptr \in Loc
    BY DEF HandshakeInv, Shape
  <1>2. "clear_write" \in Clearing \cup Polling \cup Adopted
    BY DEF Clearing, Polling, Adopted
  <1>3. /\ dsp.pc = "clear_read" /\ Shape'
        /\ dsp' = [pc |-> IF dsp.k < 3 THEN "clear_read" ELSE "clear_write",
                   k |-> IF dsp.k < 3 THEN dsp.k + 1 ELSE 1,
                   head |-> Stored(dsp.head, dsp.k, WordOf(mem[arm_head_ptr], dsp.k))]
        /\ UNCHANGED <<mem, arm_head_ptr, dsp_head_ptr, arm_addr, arm>>
    BY <1>1, <1>2, CopiedIn DEF ClearRead
  <1>4. dsp.k \in 1 .. 3
    BY <1>1 DEF Shape
  <1>5. /\ dsp'.pc = (IF dsp.k < 3 THEN "clear_read" ELSE "clear_write")
        /\ dsp'.k = (IF dsp.k < 3 THEN dsp.k + 1 ELSE 1)
        /\ dsp'.head.read_addr = (IF dsp.k = 1 THEN mem[arm_head_ptr].read_addr ELSE dsp.head.read_addr)
        /\ dsp'.head.write_addr = (IF dsp.k = 2 THEN mem[arm_head_ptr].write_addr ELSE dsp.head.write_addr)
        /\ dsp'.head.init_state = (IF dsp.k = 3 THEN mem[arm_head_ptr].init_state ELSE dsp.head.init_state)
    BY <1>3, <1>4 DEF Stored, WordOf, MakeHead
  <1>6. arm_head_ptr = "dts"
    BY <1>3 DEF HandshakeInv, Pointers, Clearing, Polling, Adopted
  <1>7. FilledOrOffered'
    BY <1>3, <1>4, <1>5 DEF HandshakeInv, FilledOrOffered, Past, Polling
  <1>8. ReadBackOrOffered'
    BY <1>3, <1>4, <1>5, <1>6 DEF HandshakeInv, FilledOrOffered, ReadBackOrOffered, Past, Polling
  <1>9. Pointers'
    BY <1>3, <1>5 DEF HandshakeInv, Pointers, Clearing, Polling, Adopted
  <1>10. NoAnswerBeforeBoot'
    BY <1>3, <1>4, <1>5, <1>6 DEF HandshakeInv, NoAnswerBeforeBoot, Adopted
  <1>11. DspHeadGrows'
    BY <1>3, <1>5 DEF HandshakeInv, DspHeadGrows, Adopted
  <1>12. ArmFollows'
    BY <1>3, <1>4, <1>5, <1>6 DEF HandshakeInv, NoAnswerBeforeBoot, ArmFollows, Adopted
  <1> QED BY <1>3, <1>7, <1>8, <1>9, <1>10, <1>11, <1>12 DEF HandshakeInv

LEMMA PollKeeps == ASSUME HandshakeInv, Poll PROVE HandshakeInv'
  <1>1. Shape /\ arm_head_ptr \in Loc
    BY DEF HandshakeInv, Shape
  <1>2. "check" \in Clearing \cup Polling \cup Adopted
    BY DEF Clearing, Polling, Adopted
  <1>3. /\ dsp.pc = "poll" /\ Shape'
        /\ dsp' = [pc |-> IF dsp.k < 3 THEN "poll" ELSE "check",
                   k |-> IF dsp.k < 3 THEN dsp.k + 1 ELSE 1,
                   head |-> Stored(dsp.head, dsp.k, WordOf(mem[arm_head_ptr], dsp.k))]
        /\ UNCHANGED <<mem, arm_head_ptr, dsp_head_ptr, arm_addr, arm>>
    BY <1>1, <1>2, CopiedIn DEF Poll
  <1>4. dsp.k \in 1 .. 3
    BY <1>1 DEF Shape
  <1>5. /\ dsp'.pc = (IF dsp.k < 3 THEN "poll" ELSE "check")
        /\ dsp'.k = (IF dsp.k < 3 THEN dsp.k + 1 ELSE 1)
        /\ dsp'.head.read_addr = (IF dsp.k = 1 THEN mem[arm_head_ptr].read_addr ELSE dsp.head.read_addr)
        /\ dsp'.head.write_addr = (IF dsp.k = 2 THEN mem[arm_head_ptr].write_addr ELSE dsp.head.write_addr)
        /\ dsp'.head.init_state = (IF dsp.k = 3 THEN mem[arm_head_ptr].init_state ELSE dsp.head.init_state)
    BY <1>3, <1>4 DEF Stored, WordOf, MakeHead
  <1>6. arm_head_ptr = "dts"
    BY <1>3 DEF HandshakeInv, Pointers, Clearing, Polling, Adopted
  <1>7. FilledOrOffered'
    BY <1>3, <1>4, <1>5 DEF HandshakeInv, FilledOrOffered, Past, Polling
  <1>8. ReadBackOrOffered'
    BY <1>3, <1>4, <1>5, <1>6 DEF HandshakeInv, FilledOrOffered, ReadBackOrOffered, Past, Polling
  <1>9. Pointers'
    BY <1>3, <1>5 DEF HandshakeInv, Pointers, Clearing, Polling, Adopted
  <1>10. NoAnswerBeforeBoot'
    BY <1>3, <1>4, <1>5, <1>6 DEF HandshakeInv, NoAnswerBeforeBoot, Adopted
  <1>11. DspHeadGrows'
    BY <1>3, <1>5 DEF HandshakeInv, DspHeadGrows, Adopted
  <1>12. ArmFollows'
    BY <1>3, <1>4, <1>5, <1>6 DEF HandshakeInv, NoAnswerBeforeBoot, ArmFollows, Adopted
  <1> QED BY <1>3, <1>7, <1>8, <1>9, <1>10, <1>11, <1>12 DEF HandshakeInv

LEMMA AwaitKeeps == ASSUME HandshakeInv, Await PROVE HandshakeInv'
  <1>1. Shape /\ arm_head_ptr \in Loc
    BY DEF HandshakeInv, Shape
  <1>2. "acked" \in Clearing \cup Polling \cup Adopted
    BY DEF Clearing, Polling, Adopted
  <1>3. /\ dsp.pc = "await" /\ Shape'
        /\ dsp' = [pc |-> IF dsp.k < 3 THEN "await" ELSE "acked",
                   k |-> IF dsp.k < 3 THEN dsp.k + 1 ELSE 1,
                   head |-> Stored(dsp.head, dsp.k, WordOf(mem[arm_head_ptr], dsp.k))]
        /\ UNCHANGED <<mem, arm_head_ptr, dsp_head_ptr, arm_addr, arm>>
    BY <1>1, <1>2, CopiedIn DEF Await
  <1>4. dsp.k \in 1 .. 3
    BY <1>1 DEF Shape
  <1>5. /\ dsp'.pc = (IF dsp.k < 3 THEN "await" ELSE "acked")
        /\ dsp'.k = (IF dsp.k < 3 THEN dsp.k + 1 ELSE 1)
        /\ dsp'.head.read_addr = (IF dsp.k = 1 THEN mem[arm_head_ptr].read_addr ELSE dsp.head.read_addr)
        /\ dsp'.head.write_addr = (IF dsp.k = 2 THEN mem[arm_head_ptr].write_addr ELSE dsp.head.write_addr)
        /\ dsp'.head.init_state = (IF dsp.k = 3 THEN mem[arm_head_ptr].init_state ELSE dsp.head.init_state)
    BY <1>3, <1>4 DEF Stored, WordOf, MakeHead
  <1>6. arm_head_ptr = "toDsp"
    BY <1>3 DEF HandshakeInv, Pointers, Clearing, Polling, Adopted
  <1>7. FilledOrOffered'
    BY <1>3, <1>4, <1>5 DEF HandshakeInv, FilledOrOffered, Past, Polling
  <1>8. ReadBackOrOffered'
    BY <1>3, <1>4, <1>5, <1>6 DEF HandshakeInv, FilledOrOffered, ReadBackOrOffered, Past, Polling
  <1>9. Pointers'
    BY <1>3, <1>5 DEF HandshakeInv, Pointers, Clearing, Polling, Adopted
  <1>10. NoAnswerBeforeBoot'
    BY <1>3, <1>4, <1>5, <1>6 DEF HandshakeInv, NoAnswerBeforeBoot, Adopted
  <1>11. DspHeadGrows'
    BY <1>3, <1>5 DEF HandshakeInv, DspHeadGrows, Adopted
  <1>12. ArmFollows'
    <2>1. arm # "boot" /\ arm' = arm /\ mem' = mem /\ arm \in {"boot", "offer", "ack", "up"}
      BY <1>1, <1>3 DEF HandshakeInv, NoAnswerBeforeBoot, Adopted, Shape
    <2>2. mem["toDsp"].init_state = "1" => arm = "up"
      BY <2>1 DEF HandshakeInv, ArmFollows
    <2> QED BY <1>3, <1>4, <1>5, <1>6, <2>1, <2>2 DEF HandshakeInv, ArmFollows
  <1> QED BY <1>3, <1>7, <1>8, <1>9, <1>10, <1>11, <1>12 DEF HandshakeInv

LEMMA ClearFillKeeps == ASSUME HandshakeInv, ClearFill PROVE HandshakeInv'
  <1>1. Shape /\ "dts" \in Loc /\ dsp.k \in 1 .. 3
    BY DEF HandshakeInv, Shape, Loc
  <1>2. "clear_read" \in Clearing \cup Polling \cup Adopted
    BY DEF Clearing, Polling, Adopted
  <1> DEFINE new == MakeHead(A5, A5, A5)
  <1>3. new \in MsgHead
    BY <1>1, Heads DEF Shape, MsgHead, Word
  <1>4. dsp.pc = "clear"
    BY DEF ClearFill, CopyOut
  <1>5. CopyOut("dts", new, "clear", "clear_read")
    BY <1>4 DEF ClearFill, HandshakeInv, Pointers, Clearing, Polling, Adopted
  <1> HIDE DEF new
  <1>6. /\ dsp' = [pc |-> IF dsp.k < 3 THEN "clear" ELSE "clear_read",
                   k |-> IF dsp.k < 3 THEN dsp.k + 1 ELSE 1, head |-> dsp.head]
        /\ mem' = [mem EXCEPT !["dts"] = Stored(mem["dts"], dsp.k, WordOf(new, dsp.k))]
        /\ UNCHANGED <<arm_head_ptr, dsp_head_ptr, arm_addr, arm>>
        /\ Shape'
    BY <1>1, <1>2, <1>3, <1>5, CopiedOut
  <1>7. /\ dsp'.pc = (IF dsp.k < 3 THEN "clear" ELSE "clear_read")
        /\ dsp'.k = (IF dsp.k < 3 THEN dsp.k + 1 ELSE 1)
        /\ dsp'.head = dsp.head
    BY <1>6
  <1>8. /\ mem'["dts"].read_addr = (IF dsp.k = 1 THEN new.read_addr ELSE mem["dts"].read_addr)
        /\ mem'["dts"].write_addr = (IF dsp.k = 2 THEN new.write_addr ELSE mem["dts"].write_addr)
        /\ \A l \in Loc \ {"dts"} : mem'[l] = mem[l]
    BY <1>1, <1>6 DEF Shape, Stored, WordOf, MakeHead
  <1>9. new.read_addr = A5 /\ new.write_addr = A5 /\ A5 # "toArm"
    BY DEF new, MakeHead, A5
  <1>10. FilledOrOffered'
    BY <1>9, <1>1, <1>4, <1>6, <1>7, <1>8 DEF HandshakeInv, FilledOrOffered, ReadBackOrOffered, Past, Polling, Loc
  <1>11. ReadBackOrOffered'
    BY <1>1, <1>4, <1>6, <1>7 DEF HandshakeInv, ReadBackOrOffered, Past, Polling
  <1>12. Pointers'
    BY <1>4, <1>6, <1>7, <1>8 DEF HandshakeInv, Pointers, Clearing, Polling, Adopted, Loc
  <1>13. NoAnswerBeforeBoot'
    BY <1>9, <1>1, <1>4, <1>6, <1>7, <1>8 DEF HandshakeInv, NoAnswerBeforeBoot, Adopted, Loc
  <1>14. DspHeadGrows'
    BY <1>1, <1>4, <1>6, <1>7, <1>8 DEF HandshakeInv, DspHeadGrows, NoAnswerBeforeBoot, Adopted, Loc
  <1>15. ArmFollows'
    BY <1>1, <1>4, <1>6, <1>7, <1>8 DEF HandshakeInv, ArmFollows, Adopted, Loc
  <1> QED BY <1>6, <1>10, <1>11, <1>12, <1>13, <1>14, <1>15 DEF HandshakeInv

LEMMA ClearWriteKeeps == ASSUME HandshakeInv, ClearWrite PROVE HandshakeInv'
  <1>1. Shape /\ "dts" \in Loc /\ dsp.k \in 1 .. 3
    BY DEF HandshakeInv, Shape, Loc
  <1>2. "reinit" \in Clearing \cup Polling \cup Adopted
    BY DEF Clearing, Polling, Adopted
  <1> DEFINE new == [dsp.head EXCEPT !.init_state = "2"]
  <1>3. new \in MsgHead
    BY <1>1, Heads DEF Shape, MsgHead, Word
  <1>4. dsp.pc = "clear_write"
    BY DEF ClearWrite, CopyOut
  <1>5. CopyOut("dts", new, "clear_write", "reinit")
    BY <1>4 DEF ClearWrite, HandshakeInv, Pointers, Clearing, Polling, Adopted
  <1> HIDE DEF new
  <1>6. /\ dsp' = [pc |-> IF dsp.k < 3 THEN "clear_write" ELSE "reinit",
                   k |-> IF dsp.k < 3 THEN dsp.k + 1 ELSE 1, head |-> dsp.head]
        /\ mem' = [mem EXCEPT !["dts"] = Stored(mem["dts"], dsp.k, WordOf(new, dsp.k))]
        /\ UNCHANGED <<arm_head_ptr, dsp_head_ptr, arm_addr, arm>>
        /\ Shape'
    BY <1>1, <1>2, <1>3, <1>5, CopiedOut
  <1>7. /\ dsp'.pc = (IF dsp.k < 3 THEN "clear_write" ELSE "reinit")
        /\ dsp'.k = (IF dsp.k < 3 THEN dsp.k + 1 ELSE 1)
        /\ dsp'.head = dsp.head
    BY <1>6
  <1>8. /\ mem'["dts"].read_addr = (IF dsp.k = 1 THEN new.read_addr ELSE mem["dts"].read_addr)
        /\ mem'["dts"].write_addr = (IF dsp.k = 2 THEN new.write_addr ELSE mem["dts"].write_addr)
        /\ \A l \in Loc \ {"dts"} : mem'[l] = mem[l]
    BY <1>1, <1>6 DEF Shape, Stored, WordOf, MakeHead
  <1>9. new.read_addr = dsp.head.read_addr /\ new.write_addr = dsp.head.write_addr
    BY <1>1 DEF new, Shape, MsgHead
  <1>10. FilledOrOffered'
    BY <1>9, <1>1, <1>4, <1>6, <1>7, <1>8 DEF HandshakeInv, FilledOrOffered, ReadBackOrOffered, Past, Polling, Loc
  <1>11. ReadBackOrOffered'
    BY <1>1, <1>4, <1>6, <1>7 DEF HandshakeInv, ReadBackOrOffered, Past, Polling
  <1>12. Pointers'
    BY <1>4, <1>6, <1>7, <1>8 DEF HandshakeInv, Pointers, Clearing, Polling, Adopted, Loc
  <1>13. NoAnswerBeforeBoot'
    BY <1>9, <1>1, <1>4, <1>6, <1>7, <1>8 DEF HandshakeInv, NoAnswerBeforeBoot, Adopted, Loc
  <1>14. DspHeadGrows'
    BY <1>1, <1>4, <1>6, <1>7, <1>8 DEF HandshakeInv, DspHeadGrows, NoAnswerBeforeBoot, Adopted, Loc
  <1>15. ArmFollows'
    BY <1>1, <1>4, <1>6, <1>7, <1>8 DEF HandshakeInv, ArmFollows, Adopted, Loc
  <1> QED BY <1>6, <1>10, <1>11, <1>12, <1>13, <1>14, <1>15 DEF HandshakeInv

LEMMA PublishKeeps == ASSUME HandshakeInv, Publish PROVE HandshakeInv'
  <1>1. Shape /\ "toArm" \in Loc /\ dsp.k \in 1 .. 3
    BY DEF HandshakeInv, Shape, Loc
  <1>2. "await" \in Clearing \cup Polling \cup Adopted
    BY DEF Clearing, Polling, Adopted
  <1> DEFINE new == DspHead
  <1>3. new \in MsgHead
    BY <1>1, Heads DEF Shape, MsgHead, Word
  <1>4. dsp.pc = "publish"
    BY DEF Publish, CopyOut
  <1>5. CopyOut("toArm", new, "publish", "await")
    BY <1>4 DEF Publish, HandshakeInv, Pointers, Clearing, Polling, Adopted
  <1> HIDE DEF new
  <1>6. /\ dsp' = [pc |-> IF dsp.k < 3 THEN "publish" ELSE "await",
                   k |-> IF dsp.k < 3 THEN dsp.k + 1 ELSE 1, head |-> dsp.head]
        /\ mem' = [mem EXCEPT !["toArm"] = Stored(mem["toArm"], dsp.k, WordOf(new, dsp.k))]
        /\ UNCHANGED <<arm_head_ptr, dsp_head_ptr, arm_addr, arm>>
        /\ Shape'
    BY <1>1, <1>2, <1>3, <1>5, CopiedOut
  <1>7. /\ dsp'.pc = (IF dsp.k < 3 THEN "publish" ELSE "await")
        /\ dsp'.k = (IF dsp.k < 3 THEN dsp.k + 1 ELSE 1)
        /\ dsp'.head = dsp.head
    BY <1>6
  <1>8. /\ mem'["toArm"].read_addr = (IF dsp.k = 1 THEN new.read_addr ELSE mem["toArm"].read_addr)
        /\ mem'["toArm"].write_addr = (IF dsp.k = 2 THEN new.write_addr ELSE mem["toArm"].write_addr)
        /\ \A l \in Loc \ {"toArm"} : mem'[l] = mem[l]
    BY <1>1, <1>6 DEF Shape, Stored, WordOf, MakeHead
  <1>9. mem["toArm"] = MakeHead(IF dsp.k > 1 THEN "MIN_ADDR" ELSE "zero",
                                IF dsp.k > 2 THEN "MIN_ADDR" ELSE "zero", "0") /\ arm # "boot"
    BY <1>4 DEF HandshakeInv, DspHeadGrows, NoAnswerBeforeBoot, Adopted
  <1>10. mem'["toArm"] = Stored(mem["toArm"], dsp.k, WordOf(new, dsp.k))
    BY <1>1, <1>6 DEF Shape
  <1>11. mem'["toArm"] = IF dsp.k < 3
                          THEN MakeHead("MIN_ADDR", IF dsp.k > 1 THEN "MIN_ADDR" ELSE "zero", "0")
                          ELSE DspHead
    BY <1>1, <1>9, <1>10 DEF new, Stored, WordOf, MakeHead, DspHead
  <1>12. FilledOrOffered'
    BY <1>1, <1>4, <1>6, <1>7, <1>8 DEF HandshakeInv, FilledOrOffered, ReadBackOrOffered, Past, Polling, Loc
  <1>13. ReadBackOrOffered'
    BY <1>1, <1>4, <1>6, <1>7 DEF HandshakeInv, ReadBackOrOffered, Past, Polling
  <1>14. Pointers'
    BY <1>4, <1>6, <1>7, <1>8 DEF HandshakeInv, Pointers, Clearing, Polling, Adopted, Loc
  <1>15. NoAnswerBeforeBoot'
    BY <1>1, <1>4, <1>6, <1>7, <1>8 DEF HandshakeInv, NoAnswerBeforeBoot, Adopted, Loc
  <1>16. DspHeadGrows'
    BY <1>9, <1>11, <1>1, <1>4, <1>6, <1>7, <1>8 DEF HandshakeInv, DspHeadGrows, NoAnswerBeforeBoot, Adopted, Loc
  <1>17. ArmFollows'
    BY <1>1, <1>4, <1>6, <1>7, <1>8 DEF HandshakeInv, ArmFollows, Adopted, Loc
  <1> QED BY <1>6, <1>12, <1>13, <1>14, <1>15, <1>16, <1>17 DEF HandshakeInv

-----------------------------------------------------------------------------
(***************************************************************************)
(* What the ARM stores.                                                    *)
(***************************************************************************)
LEMMA ArmKeeps == ASSUME HandshakeInv, Arm PROVE HandshakeInv'
  <1>1. Shape
    BY DEF HandshakeInv
  <1>2. UNCHANGED <<dsp, arm_head_ptr, dsp_head_ptr>>
    BY DEF Arm, ArmPrepare, ArmOffer, ArmSeesDsp, ArmAckPosition, ArmAck
  <1>3. CASE ArmPrepare
    <2>1. /\ arm = "boot" /\ arm' = "offer" /\ mem'["toDsp"] = Blank /\ mem'["toArm"] = Blank
          /\ \A l \in Loc \ {"toDsp", "toArm"} : mem'[l] = mem[l]
      BY <1>1, <1>3 DEF ArmPrepare, Shape, Loc
    <2>2. Shape'
      BY <1>1, <1>2, <1>3, Heads DEF ArmPrepare, Shape
    <2>3. dsp.pc \notin Adopted
      BY <2>1 DEF HandshakeInv, NoAnswerBeforeBoot
    <2>4. FilledOrOffered' /\ ReadBackOrOffered' /\ Pointers'
      BY <1>2, <2>1 DEF HandshakeInv, FilledOrOffered, ReadBackOrOffered, Pointers, Past, Loc
    <2>5. NoAnswerBeforeBoot' /\ DspHeadGrows' /\ ArmFollows'
      BY <1>2, <2>1, <2>3 DEF HandshakeInv, NoAnswerBeforeBoot, DspHeadGrows, ArmFollows, Adopted, Blank, MakeHead
    <2> QED BY <2>2, <2>4, <2>5 DEF HandshakeInv
  <1>4. CASE ArmOffer
    <2>1. /\ arm = "offer" /\ arm' = "offer"
          /\ \/ mem' = [mem EXCEPT !["dts"] = [@ EXCEPT !.read_addr = "toArm"]]
             \/ mem' = [mem EXCEPT !["dts"] = [@ EXCEPT !.write_addr = "toDsp"]]
      BY <1>4 DEF ArmOffer, ArmStore
    <2>2. "dts" \in Loc /\ "toArm" \in Word /\ "toDsp" \in Word /\ mem["dts"] \in MsgHead
      BY <1>1 DEF Loc, Word, Shape
    <2>3. /\ mem'["dts"].read_addr \in {mem["dts"].read_addr, "toArm"}
          /\ mem'["dts"].write_addr \in {mem["dts"].write_addr, "toDsp"}
          /\ \A l \in Loc \ {"dts"} : mem'[l] = mem[l]
          /\ mem' \in [Loc -> MsgHead]
      BY <1>1, <2>1, <2>2 DEF Shape, MsgHead
    <2>4. Shape'
      BY <1>1, <1>2, <2>1, <2>3 DEF Shape
    <2>5. FilledOrOffered' /\ ReadBackOrOffered' /\ Pointers'
      BY <1>2, <2>3 DEF HandshakeInv, FilledOrOffered, ReadBackOrOffered, Pointers, Past, Loc
    <2>6. NoAnswerBeforeBoot' /\ DspHeadGrows' /\ ArmFollows'
      BY <1>2, <2>1, <2>3 DEF HandshakeInv, NoAnswerBeforeBoot, DspHeadGrows, ArmFollows, Loc
    <2> QED BY <2>4, <2>5, <2>6 DEF HandshakeInv
  <1>5. CASE ArmSeesDsp
    <2>1. arm = "offer" /\ arm' = "ack" /\ mem' = mem /\ mem["toArm"].init_state = "1"
      BY <1>5 DEF ArmSeesDsp
    <2>2. dsp.pc \in {"await", "acked", "ready"}
      BY <1>1, <2>1 DEF HandshakeInv, DspHeadGrows, Shape, Adopted, Clearing, Polling, Blank, MakeHead
    <2>3. Shape' /\ FilledOrOffered' /\ ReadBackOrOffered' /\ Pointers'
      BY <1>2, <2>1 DEF HandshakeInv, Shape, FilledOrOffered, ReadBackOrOffered, Pointers, Past
    <2>4. NoAnswerBeforeBoot' /\ DspHeadGrows' /\ ArmFollows'
      BY <1>2, <2>1, <2>2 DEF HandshakeInv, NoAnswerBeforeBoot, DspHeadGrows, ArmFollows
    <2> QED BY <2>3, <2>4 DEF HandshakeInv
  <1>6. CASE ArmAckPosition \/ ArmAck
    <2>1. /\ arm = "ack" /\ arm' \in {"ack", "up"}
          /\ \/ arm' = "ack" /\ mem' = [mem EXCEPT !["toDsp"] = [@ EXCEPT !.read_addr = "MIN_ADDR"]]
             \/ arm' = "ack" /\ mem' = [mem EXCEPT !["toDsp"] = [@ EXCEPT !.write_addr = "MIN_ADDR"]]
             \/ arm' = "up" /\ mem' = [mem EXCEPT !["toDsp"] = [@ EXCEPT !.init_state = "1"]]
      BY <1>6 DEF ArmAckPosition, ArmAck, ArmStore
    <2>2. "toDsp" \in Loc /\ "MIN_ADDR" \in Word /\ "1" \in Word /\ mem["toDsp"] \in MsgHead
      BY <1>1 DEF Loc, Word, Shape
    <2>3. /\ arm' = "ack" => mem'["toDsp"].init_state = mem["toDsp"].init_state
          /\ \A l \in Loc \ {"toDsp"} : mem'[l] = mem[l]
          /\ mem' \in [Loc -> MsgHead]
      BY <1>1, <2>1, <2>2 DEF Shape, MsgHead
    <2>4. Shape'
      BY <1>1, <1>2, <2>1, <2>3 DEF Shape
    <2>5. FilledOrOffered' /\ ReadBackOrOffered' /\ Pointers'
      BY <1>2, <2>3 DEF HandshakeInv, FilledOrOffered, ReadBackOrOffered, Pointers, Past, Loc
    <2>6. NoAnswerBeforeBoot' /\ DspHeadGrows' /\ ArmFollows'
      BY <1>2, <2>1, <2>3 DEF HandshakeInv, NoAnswerBeforeBoot, DspHeadGrows, ArmFollows, Loc
    <2> QED BY <2>4, <2>5, <2>6 DEF HandshakeInv
  <1> QED BY <1>3, <1>4, <1>5, <1>6 DEF Arm

LEMMA ShakeNext == HandshakeInv /\ [Next]_vars => HandshakeInv'
  <1> SUFFICES ASSUME HandshakeInv, [Next]_vars PROVE HandshakeInv'
    OBVIOUS
  <1>1. CASE Dsp
    BY <1>1, LocalKeeps, ClearReadKeeps, PollKeeps, AwaitKeeps, ClearFillKeeps, ClearWriteKeeps,
       PublishKeeps DEF Dsp
  <1>2. CASE UNCHANGED vars
    BY <1>2 DEF vars, HandshakeInv, Shape, FilledOrOffered, ReadBackOrOffered, Pointers,
       NoAnswerBeforeBoot, DspHeadGrows, ArmFollows, Past
  <1> QED BY <1>1, <1>2, ArmKeeps DEF Next, Done

(***************************************************************************)
(* The DSP moves to the regions this ARM offered, and writes no head       *)
(* outside the memory in use (src/sharespace.c 83-183).                    *)
(***************************************************************************)
THEOREM OfferAdopted == Spec => []AdoptsTheOffer
  <1>1. HandshakeInv => AdoptsTheOffer
    BY DEF HandshakeInv, Pointers, Adopted, AdoptsTheOffer
  <1> QED BY <1>1, ShakeInit, ShakeNext, PTL DEF Spec

(***************************************************************************)
(* When the ARM starts to use the stream towards it, the DSP's head is     *)
(* whole (src/sharespace.c 143-154).                                       *)
(***************************************************************************)
THEOREM WholeHeadSeen == Spec => []ArmSeesWholeHead
  <1>1. HandshakeInv => ArmSeesWholeHead
    BY DEF HandshakeInv, DspHeadGrows, ArmFollows, ArmSeesWholeHead, DspHead
  <1> QED BY <1>1, ShakeInit, ShakeNext, PTL DEF Spec

(***************************************************************************)
(* The DSP goes on only when the ARM has acknowledged this run's head      *)
(* (src/sharespace.c 156-169).                                             *)
(***************************************************************************)
THEOREM BothReady == Spec => []ReadyIsMutual
  <1>1. HandshakeInv => ReadyIsMutual
    BY DEF HandshakeInv, ArmFollows, ReadyIsMutual
  <1> QED BY <1>1, ShakeInit, ShakeNext, PTL DEF Spec
=============================================================================
