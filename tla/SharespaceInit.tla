--------------------------- MODULE SharespaceInit ---------------------------
(***************************************************************************)
(* The handshake of sharespace_init (src/sharespace.c 56-183): the DSP and *)
(* the ARM boot in any order and meet over a MsgHead at an address the     *)
(* device tree names.  The DSP clears that head and marks it with          *)
(* init_state 2; the ARM answers by storing the addresses of the two real  *)
(* regions in it; the DSP moves there, initialises its own head and waits  *)
(* for the ARM to set init_state 1.                                        *)
(*                                                                         *)
(* Both processors write the first head, and every head is copied word by  *)
(* word while the other side may write it.  Memory survives a reboot, so   *)
(* the first head may hold what an earlier run left there.                 *)
(*                                                                         *)
(* The ARM is external: it prepares its regions, answers init_state 2 by   *)
(* storing each address that is not there (again if it was overwritten)    *)
(* and acknowledges when it sees the DSP's init_state 1.                   *)
(*                                                                         *)
(* Definitions named after another with a suffix (OfferedUnguarded, ...)   *)
(* are mistakes in it, kept to show which property sees them.              *)
(***************************************************************************)
EXTENDS Naturals, Sequences

(***************************************************************************)
(* Locations of heads: the device tree's, the ones in the two regions, the *)
(* ones in the regions of an earlier run, and the one a null pointer names.*)
(***************************************************************************)
Loc == {"dts", "toDsp", "toArm", "oldToDsp", "oldToArm", "null"}

\* The four bytes 0xa5a5a5a5.
A5 == "a5"

Word == Loc \cup {A5, "zero", "MIN_ADDR", "0", "1", "2"}

Field == <<"read_addr", "write_addr", "init_state">>

MsgHead == [read_addr : Word, write_addr : Word, init_state : Word]

MakeHead(r, w, s) == [read_addr |-> r, write_addr |-> w, init_state |-> s]

VARIABLES mem,          \* the head at each location
          arm_head_ptr, \* where the DSP believes the ARM's head is
          dsp_head_ptr, \* and its own
          dsp,          \* pc, the next word of a copy, the local MsgHead
          arm_addr,     \* sharespace_arm_addr
          arm           \* where the ARM is

vars == <<mem, arm_head_ptr, dsp_head_ptr, dsp, arm_addr, arm>>

Blank == MakeHead("zero", "zero", "0")

\* What an earlier run may have left in the device tree's head.
LeftOver == {Blank, MakeHead(A5, A5, "2"), MakeHead("oldToArm", "oldToDsp", "2")}

Init ==
    /\ \E h \in LeftOver, stale \in {Blank, MakeHead("zero", "zero", "1")} :
         mem = [l \in Loc |-> CASE l = "dts" -> h
                                [] l \in {"toDsp", "toArm"} -> stale
                                [] OTHER -> Blank]
    /\ arm_head_ptr = "null" /\ dsp_head_ptr = "null"
    /\ dsp = [pc |-> "banner", k |-> 1, head |-> Blank]
    /\ arm_addr = <<"zero", "zero">>
    /\ arm = "boot"

-----------------------------------------------------------------------------
(***************************************************************************)
(* memcpy and memset of a MsgHead go word by word, in ascending order.     *)
(* done is where the program goes after the third word.                    *)
(***************************************************************************)
Step(pc, done) == IF dsp.k < 3 THEN [dsp EXCEPT !.k = @ + 1]
                               ELSE [dsp EXCEPT !.k = 1, !.pc = done]

CopyIn(loc, pc, done) ==
    /\ dsp.pc = pc
    /\ dsp' = [Step(pc, done) EXCEPT !.head[Field[dsp.k]] = mem[loc][Field[dsp.k]]]
    /\ UNCHANGED <<mem, arm_head_ptr, dsp_head_ptr, arm_addr, arm>>

CopyOut(loc, head, pc, done) ==
    /\ dsp.pc = pc
    /\ mem' = [mem EXCEPT ![loc][Field[dsp.k]] = head[Field[dsp.k]]]
    /\ dsp' = Step(pc, done)
    /\ UNCHANGED <<arm_head_ptr, dsp_head_ptr, arm_addr, arm>>

(***************************************************************************)
(* print_banner() calls sharespace_fake_init before anything else.         *)
(***************************************************************************)
FakeInit ==
    /\ dsp.pc = "banner"
    /\ arm_head_ptr' = "dts" /\ dsp_head_ptr' = "dts"
    /\ dsp' = [dsp EXCEPT !.pc = "clear"]
    /\ UNCHANGED <<mem, arm_addr, arm>>

(***************************************************************************)
(* sharespace_clear: the head is filled with 0xa5, read back, marked and   *)
(* written again.                                                          *)
(***************************************************************************)
ClearFill == CopyOut("dts", MakeHead(A5, A5, A5), "clear", "clear_read")

ClearRead == CopyIn(arm_head_ptr, "clear_read", "clear_write")

ClearWriteUnmarked == CopyOut(arm_head_ptr, dsp.head, "clear_write", "reinit")

ClearWrite == CopyOut(arm_head_ptr, [dsp.head EXCEPT !.init_state = "2"],
                      "clear_write", "reinit")

\* sharespace_init points at the device tree's head again.
Reinit ==
    /\ dsp.pc = "reinit"
    /\ arm_head_ptr' = "dts"
    /\ dsp' = [dsp EXCEPT !.pc = "poll"]
    /\ UNCHANGED <<mem, dsp_head_ptr, arm_addr, arm>>

\* sharespace_reinit polls the head until the ARM has filled it in.
Poll == CopyIn(arm_head_ptr, "poll", "check")

OfferedUnguarded(h) == h.init_state = "2"

Offered(h) == h.init_state = "2" /\ h.write_addr # A5 /\ h.read_addr # A5

CheckAgain ==
    /\ dsp.pc = "check"
    /\ ~Offered(dsp.head)
    /\ dsp' = [dsp EXCEPT !.pc = "poll"]
    /\ UNCHANGED <<mem, arm_head_ptr, dsp_head_ptr, arm_addr, arm>>

Adopt ==
    /\ dsp.pc = "check"
    /\ Offered(dsp.head)
    /\ arm_head_ptr' = dsp.head.write_addr
    /\ dsp_head_ptr' = dsp.head.read_addr
    /\ dsp' = [dsp EXCEPT !.pc = "publish"]
    /\ UNCHANGED <<mem, arm_addr, arm>>

\* The DSP's own head, then the wait for the ARM's acknowledgement.
DspHead == MakeHead("MIN_ADDR", "MIN_ADDR", "1")

PublishFlagFirst ==
    /\ dsp.pc = "publish"
    /\ mem' = [mem EXCEPT ![dsp_head_ptr][Field[4 - dsp.k]] = DspHead[Field[4 - dsp.k]]]
    /\ dsp' = Step("publish", "await")
    /\ UNCHANGED <<arm_head_ptr, dsp_head_ptr, arm_addr, arm>>

Publish == CopyOut(dsp_head_ptr, DspHead, "publish", "await")

Await == CopyIn(arm_head_ptr, "await", "acked")

AwaitAgain ==
    /\ dsp.pc = "acked"
    /\ dsp.head.init_state # "1"
    /\ dsp' = [dsp EXCEPT !.pc = "await"]
    /\ UNCHANGED <<mem, arm_head_ptr, dsp_head_ptr, arm_addr, arm>>

ReadyAtOnce ==
    /\ dsp.pc = "acked"
    /\ arm_addr' = <<dsp.head.read_addr, dsp.head.write_addr>>
    /\ dsp' = [dsp EXCEPT !.pc = "ready"]
    /\ UNCHANGED <<mem, arm_head_ptr, dsp_head_ptr, arm>>

Ready ==
    /\ dsp.pc = "acked"
    /\ dsp.head.init_state = "1"
    /\ arm_addr' = <<dsp.head.read_addr, dsp.head.write_addr>>
    /\ dsp' = [dsp EXCEPT !.pc = "ready"]
    /\ UNCHANGED <<mem, arm_head_ptr, dsp_head_ptr, arm>>

Dsp == \/ FakeInit \/ ClearFill \/ ClearRead \/ ClearWrite \/ Reinit \/ Poll
       \/ CheckAgain \/ Adopt \/ Publish \/ Await \/ AwaitAgain \/ Ready

-----------------------------------------------------------------------------
(***************************************************************************)
(* The ARM, external.                                                      *)
(***************************************************************************)
ArmStore(l, f, v) == mem' = [mem EXCEPT ![l][f] = v]

ArmPrepare ==
    /\ arm = "boot"
    /\ mem' = [mem EXCEPT !["toDsp"] = Blank, !["toArm"] = Blank]
    /\ arm' = "offer"
    /\ UNCHANGED <<arm_head_ptr, dsp_head_ptr, dsp, arm_addr>>

ArmOffer ==
    /\ arm = "offer"
    /\ mem["dts"].init_state = "2"
    /\ \/ mem["dts"].read_addr # "toArm" /\ ArmStore("dts", "read_addr", "toArm")
       \/ mem["dts"].write_addr # "toDsp" /\ ArmStore("dts", "write_addr", "toDsp")
    /\ UNCHANGED <<arm_head_ptr, dsp_head_ptr, dsp, arm_addr, arm>>

ArmSeesDsp ==
    /\ arm = "offer"
    /\ mem["toArm"].init_state = "1"
    /\ arm' = "ack"
    /\ UNCHANGED <<mem, arm_head_ptr, dsp_head_ptr, dsp, arm_addr>>

\* The ARM's head is stored in the order in which the DSP stores its own.
ArmAckPosition ==
    /\ arm = "ack"
    /\ IF mem["toDsp"].read_addr = "zero"
         THEN ArmStore("toDsp", "read_addr", "MIN_ADDR")
         ELSE /\ mem["toDsp"].write_addr = "zero"
              /\ ArmStore("toDsp", "write_addr", "MIN_ADDR")
    /\ UNCHANGED <<arm_head_ptr, dsp_head_ptr, dsp, arm_addr, arm>>

ArmAck ==
    /\ arm = "ack"
    /\ mem["toDsp"].write_addr = "MIN_ADDR"
    /\ ArmStore("toDsp", "init_state", "1")
    /\ arm' = "up"
    /\ UNCHANGED <<arm_head_ptr, dsp_head_ptr, dsp, arm_addr>>

Arm == ArmPrepare \/ ArmOffer \/ ArmSeesDsp \/ ArmAckPosition \/ ArmAck

Done == dsp.pc = "ready" /\ arm = "up" /\ UNCHANGED vars

Next == Dsp \/ Arm \/ Done

(***************************************************************************)
(* The DSP runs nothing else; the ARM boots at last and keeps looking at   *)
(* the head.                                                               *)
(***************************************************************************)
Spec == Init /\ [][Next]_vars /\ WF_vars(Dsp) /\ WF_vars(Arm)

-----------------------------------------------------------------------------
(***************************************************************************)
(* Whatever an earlier run left behind and however the words of the two    *)
(* sides interleave, the DSP moves to the regions this ARM offered, each   *)
(* for its direction, and writes no head outside the memory in use: none   *)
(* of an earlier run's region, and nothing through an unset pointer.       *)
(***************************************************************************)
AdoptsTheOffer ==
    /\ dsp.pc \in {"publish", "await", "acked", "ready"} =>
         arm_head_ptr = "toDsp" /\ dsp_head_ptr = "toArm"
    /\ \A l \in {"oldToDsp", "oldToArm", "null"} : mem[l] = Blank

(***************************************************************************)
(* When the ARM starts to use the stream towards it, the DSP's head is     *)
(* complete.                                                               *)
(***************************************************************************)
ArmSeesWholeHead ==
    arm \in {"ack", "up"} => mem["toArm"] = MakeHead("MIN_ADDR", "MIN_ADDR", "1")

(***************************************************************************)
(* The DSP goes on only when the ARM has acknowledged this run's head; the *)
(* init_state 1 an earlier run left in a region does not count.            *)
(***************************************************************************)
ReadyIsMutual == dsp.pc = "ready" => arm = "up"

(***************************************************************************)
(* The two sides always meet, whoever boots first.                         *)
(***************************************************************************)
EventuallyReady == <>(dsp.pc = "ready" /\ arm = "up")
=============================================================================
