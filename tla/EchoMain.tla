------------------------------ MODULE EchoMain ------------------------------
(***************************************************************************)
(* main() (src/main.c 67-118) once the shared space is up: five times a    *)
(* greeting is written and whatever can be read is thrown away, then each  *)
(* chunk that is read is written back.  The result of sharespace_write is  *)
(* never looked at.  The code after the endless loop is unreachable.       *)
(*                                                                         *)
(* The ARM of Sharespace writes the bytes of Script in order, cut into     *)
(* pieces as it likes, and reads whatever it likes.                        *)
(*                                                                         *)
(* LoopReadForget is a mistake, kept to show who notices it.               *)
(***************************************************************************)
EXTENDS Sharespace

CONSTANTS Greetings,    \* the messages of the first loop
          BufSize,      \* sizeof(buf), more than the ring holds
          Script        \* what the ARM writes, as a sequence of bytes

ASSUME EchoAssumption ==
    /\ Greetings \in Seq(Seq(Byte) \ {<< >>})
    /\ BufSize \in Nat \ {0}
    /\ Script \in Seq(Byte)

VARIABLES main,         \* where main() is
          sent,         \* how much of Script the ARM has begun to write
          got           \* what the ARM has read

evars == <<vars, main, sent, got>>

EchoInit == /\ Init
            /\ main = [pc |-> "greet", b |-> 0]
            /\ sent = 0 /\ got = << >>

CallWrite(msg) == WriteRefuse(msg) \/ WriteBegin(msg)

-----------------------------------------------------------------------------
Greet ==
    /\ main.pc = "greet"
    /\ IF main.b = Len(Greetings)
         THEN /\ main' = [main EXCEPT !.pc = "loop"]
              /\ UNCHANGED vars
         ELSE /\ CallWrite(Greetings[main.b + 1])
              /\ main' = [pc |-> "discard", b |-> main.b + 1]
    /\ UNCHANGED <<sent, got>>

Discard ==
    /\ main.pc = "discard"
    /\ ReadEmpty \/ ReadBegin(BufSize)
    /\ main' = [main EXCEPT !.pc = "discarding"]
    /\ UNCHANGED <<sent, got>>

NextGreeting ==
    /\ main.pc = "discarding"
    /\ dsp.pc = "idle"
    /\ main' = [main EXCEPT !.pc = "greet"]
    /\ UNCHANGED <<vars, sent, got>>

\* The loop polls while there is nothing to read.
LoopWait ==
    /\ main.pc = "loop"
    /\ ReadEmpty
    /\ UNCHANGED <<main, sent, got>>

LoopReadForget ==
    /\ main.pc = "loop"
    /\ ReadBegin(BufSize)
    /\ UNCHANGED <<main, sent, got>>

LoopRead ==
    /\ main.pc = "loop"
    /\ ReadBegin(BufSize)
    /\ main' = [main EXCEPT !.pc = "echo"]
    /\ UNCHANGED <<sent, got>>

LoopEcho ==
    /\ main.pc = "echo"
    /\ CallWrite(dsp.buf)
    /\ main' = [main EXCEPT !.pc = "loop"]
    /\ UNCHANGED <<sent, got>>

InCall == DspStep /\ UNCHANGED <<main, sent, got>>

Main == Greet \/ Discard \/ NextGreeting \/ LoopWait \/ LoopRead \/ LoopEcho \/ InCall

-----------------------------------------------------------------------------
ArmWrites ==
    /\ \/ /\ ArmWriteBegin
          /\ sent + Len(armW'.buf) <= Len(Script)
          /\ armW'.buf = SubSeq(Script, sent + 1, sent + Len(armW'.buf))
          /\ sent' = sent + Len(armW'.buf)
       \/ (ArmWriteCopy \/ ArmWritePublish) /\ UNCHANGED sent
    /\ UNCHANGED <<main, got>>

ArmReads ==
    /\ \/ (ArmReadBegin \/ ArmReadCopy) /\ UNCHANGED got
       \/ ArmReadPublish /\ got' = got \o armR.buf
    /\ UNCHANGED <<main, sent>>

EchoNext == Main \/ ArmWrites \/ ArmReads

(***************************************************************************)
(* main() is the DSP's only thread and never blocks; the ARM is assumed to *)
(* keep reading and to finish what it has begun to write.                  *)
(***************************************************************************)
EchoSpec == /\ EchoInit /\ [][EchoNext]_evars
            /\ WF_evars(Main)
            /\ WF_evars(ArmReads)
            /\ WF_evars(ArmWriteCopy /\ ArmWrites) /\ WF_evars(ArmWritePublish /\ ArmWrites)

-----------------------------------------------------------------------------
Incoming == Contents(toDsp, dspHead.read_addr, armHead.write_addr)
Outgoing == Contents(toArm, armHead.read_addr, dspHead.write_addr)

\* The bytes main() has in hand: read and not yet written, or being written.
Held == IF \/ dsp.op = "write" /\ dsp.pc # "idle"
           \/ dsp.op = "read" /\ dsp.pc = "idle" /\ main.pc = "echo"
          THEN dsp.buf ELSE << >>

Echo == INSTANCE LossyEcho WITH
    Capacity <- RingSize, in <- Incoming, held <- Held, out <- Outgoing,
    greeted <- main.b, listening <- main.pc \in {"loop", "echo"}

(***************************************************************************)
(* A chunk is given back whole or, only when the ring towards the ARM has  *)
(* no room for it, lost whole; input is thrown away only while greeting;   *)
(* no byte is duplicated or overtakes another on its way through main().   *)
(***************************************************************************)
IsLossyEcho == Echo!Spec

InTransit(byte) ==
    \E i \in 1 .. Len(Outgoing \o Held \o Incoming) :
        (Outgoing \o Held \o Incoming)[i] = byte

(***************************************************************************)
(* Every byte the ARM writes is eventually echoed to it or lost: neither   *)
(* loop gets stuck with bytes in hand or in a ring.                        *)
(***************************************************************************)
NothingLingers == \A i \in 1 .. Len(Script) : InTransit(Script[i]) ~> ~InTransit(Script[i])

(***************************************************************************)
(* If the ARM says nothing before the firmware is listening, and the ring  *)
(* towards it never has too little room for a chunk, all of the script     *)
(* comes back.                                                             *)
(***************************************************************************)
ArmWaits == main.pc \notin {"loop", "echo"} => sent = 0

AlwaysRoom == dsp.op = "write" /\ dsp.pc = "idle" => dsp.n # -1

EchoedInFull ==
    [](ArmWaits /\ AlwaysRoom) =>
        \A i \in 1 .. Len(Script) :
            InTransit(Script[i]) ~> \E j \in 1 .. Len(got) : got[j] = Script[i]
=============================================================================
