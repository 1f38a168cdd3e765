------------------------------- MODULE Rpmsg -------------------------------
(***************************************************************************)
(* RPMsg over the hardware message box (src/rpmsg.c).  Each way there is   *)
(* a FIFO of a few words per channel.  The DSP's thread sends, word by     *)
(* word, waiting while the FIFO is full; its interrupt handler empties the *)
(* FIFOs of both channels into one reassembly buffer and calls the         *)
(* endpoint's callback with each whole message.                            *)
(*                                                                         *)
(* The message box and the ARM are external: a full FIFO drops what is     *)
(* written to it, a word that arrives raises its channel's pending bit,    *)
(* and the bit can be cleared only while that FIFO is empty.               *)
(*                                                                         *)
(* The reassembly buffer has a size, and no code compares it with the      *)
(* length in a header: a payload that is longer is stored past its end.    *)
(*                                                                         *)
(* SendReadyWhenFull, SendReadyUnchecked, RxStoredPadded and IsrEnterSkips *)
(* are mistakes, kept to show which property sees them.                    *)
(***************************************************************************)
EXTENDS Integers, Sequences

CONSTANTS HdrWords,         \* sizeof(rpmsg_hdr_t) in words
          RPMSG_MAX_MSG_SIZE, \* sizeof(rpmsg_rx_buffer), in bytes
          MAX_QUEUE,        \* SUNXI_MSGBOX_MAX_QUEUE, the depth of a FIFO
          MAX_CHANNEL,      \* SUNXI_MSGBOX_MAX_CHANNEL, the channels served
          MSGBOX_CHANNELS,  \* the channel whose interrupt is enabled
          EnabledBefore,    \* channels whose interrupt was enabled already
          ArmChannel,       \* the channel the ARM uses
          Announce,         \* the name service message, as bytes
          ArmMsgs,          \* the payloads the ARM sends, in order
          ArmStream,        \* their words, one message after the other
          Starts            \* how many words come before each message

WordBytes == 4

ASSUME RpmsgAssumption ==
    /\ RPMSG_MAX_MSG_SIZE \in Nat /\ RPMSG_MAX_MSG_SIZE % WordBytes = 0
    /\ HdrWords \in Nat \ {0} /\ MAX_QUEUE \in Nat \ {0} /\ MAX_CHANNEL \in Nat \ {0}
    /\ MSGBOX_CHANNELS \in Nat /\ EnabledBefore \subseteq Nat
    /\ ArmChannel \in 0 .. MAX_CHANNEL - 1
    /\ Announce \in Seq(0 .. 255)
    /\ ArmMsgs \in Seq(Seq(0 .. 255))

Channel == 0 .. MAX_CHANNEL - 1

(***************************************************************************)
(* dsp_msgbox_channel_send packs bytes into words, lowest byte first, the  *)
(* last word filled up with zeros; the header's words carry its length.    *)
(***************************************************************************)
Pack(bytes) ==
    [k \in 1 .. (Len(bytes) + WordBytes - 1) \div WordBytes |->
        [j \in 1 .. WordBytes |->
            LET i == WordBytes * (k - 1) + j
            IN  IF i <= Len(bytes) THEN bytes[i] ELSE 0]]

Header(bytes) == [k \in 1 .. HdrWords |-> [len |-> Len(bytes)]]

Words(bytes) == Header(bytes) \o Pack(bytes)

(***************************************************************************)
(* The ARM's messages follow each other in ArmStream without a gap.        *)
(***************************************************************************)
ASSUME StreamAssumption ==
    /\ Len(ArmStream) \in Nat
    /\ DOMAIN Starts = 1 .. Len(ArmMsgs) + 1
    /\ Starts[1] = 0 /\ Starts[Len(ArmMsgs) + 1] = Len(ArmStream)
    /\ \A i \in 1 .. Len(ArmMsgs) :
         /\ Starts[i] \in Nat
         /\ Starts[i + 1] = Starts[i] + Len(Words(ArmMsgs[i]))
         /\ Starts[i + 1] <= Len(ArmStream)
         /\ \A k \in 1 .. Len(Words(ArmMsgs[i])) :
              ArmStream[Starts[i] + k] = Words(ArmMsgs[i])[k]

VARIABLES tx,           \* the FIFO the ARM reads, and what the thread still sends
          unsent,
          rx,           \* the FIFOs the DSP reads
          pending,      \* channels whose pending bit is set
          irq,          \* channels whose interrupt is enabled
          amp_endpoint, \* the endpoint has been created
          boot,         \* progress of dsp_msgbox_init
          isr,          \* the interrupt handler
          re,           \* the reassembly state
          delivered,    \* what the callback has been given
          damaged,      \* the memory behind the buffer has been overwritten
          armSent,      \* how many words the ARM has sent
          armGot        \* the words the ARM has received

vars == <<tx, unsent, rx, pending, irq, amp_endpoint, boot, isr, re, delivered, damaged,
          armSent, armGot>>

thread == <<tx, unsent, irq, amp_endpoint, boot>>
reassembly == <<re, delivered, damaged>>
handler == <<isr, reassembly>>
arm == <<armSent, armGot>>

Fresh == [header |-> TRUE, got |-> 0, len |-> 0, buf |-> << >>]

Init ==
    /\ tx = << >> /\ unsent = << >>
    /\ rx = [ch \in Channel |-> << >>] /\ pending = {} /\ irq = EnabledBefore
    /\ amp_endpoint = FALSE /\ boot = "start"
    /\ isr = [pc |-> "idle", ch |-> 0]
    /\ re = Fresh /\ delivered = << >> /\ damaged = FALSE
    /\ armSent = 0 /\ armGot = << >>

-----------------------------------------------------------------------------
(***************************************************************************)
(* The thread runs only while the handler does not.  dsp_msgbox_init turns *)
(* the interrupt on first and creates the endpoint after that; then        *)
(* rpmsg_init sends the announcement with rpmsg_send.                      *)
(***************************************************************************)
Running == isr.pc = "idle"

EnableIrq ==
    /\ Running /\ boot = "start"
    /\ irq' = irq \cup {MSGBOX_CHANNELS}
    /\ boot' = "enabled"
    /\ UNCHANGED <<tx, unsent, rx, pending, amp_endpoint, handler, arm>>

CreateEndpoint ==
    /\ Running /\ boot = "enabled"
    /\ amp_endpoint' = TRUE
    /\ unsent' = Words(Announce)
    /\ boot' = "sending"
    /\ UNCHANGED <<tx, rx, pending, irq, handler, arm>>

SendReadyWhenFull ==
    /\ Running /\ boot = "sending"
    /\ unsent # << >>
    /\ Len(tx) = MAX_QUEUE
    /\ boot' = "writing"
    /\ UNCHANGED <<tx, unsent, rx, pending, irq, amp_endpoint, handler, arm>>

SendReadyUnchecked ==
    /\ Running /\ boot = "sending"
    /\ unsent # << >>
    /\ boot' = "writing"
    /\ UNCHANGED <<tx, unsent, rx, pending, irq, amp_endpoint, handler, arm>>

\* msgbox_channel_send_data polls the status register, then writes the word.
SendReady ==
    /\ Running /\ boot = "sending"
    /\ unsent # << >>
    /\ Len(tx) # MAX_QUEUE
    /\ boot' = "writing"
    /\ UNCHANGED <<tx, unsent, rx, pending, irq, amp_endpoint, handler, arm>>

SendWord ==
    /\ Running /\ boot = "writing"
    /\ tx' = IF Len(tx) < MAX_QUEUE THEN Append(tx, Head(unsent)) ELSE tx
    /\ unsent' = Tail(unsent)
    /\ boot' = "sending"
    /\ UNCHANGED <<rx, pending, irq, amp_endpoint, handler, arm>>

Sent ==
    /\ Running /\ boot = "sending"
    /\ unsent = << >>
    /\ boot' = "done"
    /\ UNCHANGED <<tx, unsent, rx, pending, irq, amp_endpoint, handler, arm>>

Thread == EnableIrq \/ CreateEndpoint \/ SendReady \/ SendWord \/ Sent

-----------------------------------------------------------------------------
(***************************************************************************)
(* rpmsg_rx_data: the first words are a header, then come as many words as *)
(* its length asks for.  A word that does not fit in rpmsg_rx_buffer is    *)
(* stored behind it.  If that memory is in use, whose it is is up to the   *)
(* linker - the state of the reassembly, the endpoint, the kernel's - and  *)
(* nothing can be said any more: from then on the callback is given        *)
(* anything or nothing, and the DSP may stop.  If it is not in use, the    *)
(* code goes on as though the buffer were long enough.                     *)
(***************************************************************************)
Deliver(bytes) == delivered' = IF amp_endpoint THEN Append(delivered, bytes) ELSE delivered

Undefined ==
    /\ damaged' = TRUE
    /\ delivered' \in {delivered, Append(delivered, << >>), Append(delivered, re.buf)}
    /\ isr' \in {isr, [isr EXCEPT !.pc = "lost"]}
    /\ UNCHANGED re

RxHeader(word) ==
    /\ IF re.got + 1 < HdrWords
         THEN re' = [re EXCEPT !.got = @ + 1, !.len = word.len] /\ UNCHANGED delivered
         ELSE IF word.len = 0
           THEN re' = Fresh /\ Deliver(<< >>)
           ELSE /\ re' = [re EXCEPT !.header = FALSE, !.got = 0, !.len = word.len]
                /\ UNCHANGED delivered
    /\ UNCHANGED <<isr, damaged>>

RxStoredPadded(buf) ==
    /\ IF Len(buf) >= re.len
         THEN re' = Fresh /\ Deliver(buf)
         ELSE re' = [re EXCEPT !.buf = buf] /\ UNCHANGED delivered
    /\ UNCHANGED <<isr, damaged>>

RxStored(buf) ==
    /\ IF Len(buf) >= re.len
         THEN re' = Fresh /\ Deliver(SubSeq(buf, 1, re.len))
         ELSE re' = [re EXCEPT !.buf = buf] /\ UNCHANGED delivered
    /\ UNCHANGED <<isr, damaged>>

RxPayload(word) ==
    \/ RxStored(re.buf \o word)
    \/ Len(re.buf \o word) > RPMSG_MAX_MSG_SIZE /\ Undefined

(***************************************************************************)
(* sunxi_msgbox_interrupt: for each channel that is pending, read while    *)
(* the status register says there are words, then clear the pending bit.   *)
(***************************************************************************)
IsrEnterSkips ==
    /\ isr.pc = "idle" /\ pending \cap irq # {}
    /\ isr' = [pc |-> "test", ch |-> 1]
    /\ UNCHANGED <<thread, rx, pending, reassembly, arm>>

IsrEnter ==
    /\ isr.pc = "idle" /\ pending \cap irq # {}
    /\ isr' = [pc |-> "test", ch |-> 0]
    /\ UNCHANGED <<thread, rx, pending, reassembly, arm>>

IsrTest ==
    /\ isr.pc = "test"
    /\ isr' = IF isr.ch = MAX_CHANNEL THEN [pc |-> "idle", ch |-> 0]
              ELSE IF isr.ch \in pending THEN [isr EXCEPT !.pc = "drain"]
              ELSE [isr EXCEPT !.ch = @ + 1]
    /\ UNCHANGED <<thread, rx, pending, reassembly, arm>>

IsrDrain ==
    /\ isr.pc = "drain" /\ rx[isr.ch] # << >>
    /\ rx' = [rx EXCEPT ![isr.ch] = Tail(@)]
    /\ \/ damaged /\ Undefined
       \/ ~damaged /\ re.header /\ RxHeader(Head(rx[isr.ch]))
       \/ ~damaged /\ ~re.header /\ RxPayload(Head(rx[isr.ch]))
    /\ UNCHANGED <<thread, pending, arm>>

IsrEmpty ==
    /\ isr.pc = "drain" /\ rx[isr.ch] = << >>
    /\ isr' = [isr EXCEPT !.pc = "clear"]
    /\ UNCHANGED <<thread, rx, pending, reassembly, arm>>

IsrClear ==
    /\ isr.pc = "clear"
    /\ pending' = IF rx[isr.ch] = << >> THEN pending \ {isr.ch} ELSE pending
    /\ isr' = [pc |-> "test", ch |-> isr.ch + 1]
    /\ UNCHANGED <<thread, rx, reassembly, arm>>

Isr == IsrEnter \/ IsrTest \/ IsrDrain \/ IsrEmpty \/ IsrClear

-----------------------------------------------------------------------------
ArmSend ==
    /\ armSent < Len(ArmStream) /\ Len(rx[ArmChannel]) < MAX_QUEUE
    /\ rx' = [rx EXCEPT ![ArmChannel] = Append(@, ArmStream[armSent + 1])]
    /\ pending' = pending \cup {ArmChannel}
    /\ armSent' = armSent + 1
    /\ UNCHANGED <<thread, handler, armGot>>

ArmReceive ==
    /\ tx # << >>
    /\ armGot' = Append(armGot, Head(tx))
    /\ tx' = Tail(tx)
    /\ UNCHANGED <<unsent, rx, pending, irq, amp_endpoint, boot, handler, armSent>>

Next == Thread \/ Isr \/ ArmSend \/ ArmReceive

(***************************************************************************)
(* The thread and the handler never stop by themselves, an interrupt that  *)
(* is raised is taken, and the ARM keeps sending and receiving.            *)
(***************************************************************************)
Spec == /\ Init /\ [][Next]_vars
        /\ WF_vars(Thread) /\ WF_vars(Isr) /\ WF_vars(ArmSend) /\ WF_vars(ArmReceive)

-----------------------------------------------------------------------------
(***************************************************************************)
(* The callback gets the ARM's messages whole and in order, none missing   *)
(* but the ones that were complete before the endpoint existed - as long   *)
(* as the memory behind rpmsg_rx_buffer has not been overwritten, and that *)
(* takes a message longer than the buffer, whose words have been taken up  *)
(* to the first that does not fit.                                         *)
(***************************************************************************)
Overrun ==
    \E i \in 1 .. Len(ArmMsgs) :
        /\ Len(ArmMsgs[i]) > RPMSG_MAX_MSG_SIZE
        /\ WordBytes * (armSent - Len(rx[ArmChannel]) - Starts[i] - HdrWords) > RPMSG_MAX_MSG_SIZE

InOrder ==
    \E k \in 0 .. Len(ArmMsgs) - Len(delivered) :
        /\ delivered = SubSeq(ArmMsgs, k + 1, k + Len(delivered))
        /\ armSent = Len(ArmStream) /\ rx[ArmChannel] = << >> /\ amp_endpoint =>
             k + Len(delivered) = Len(ArmMsgs)

ReceivesIntact == IF damaged THEN Overrun ELSE InOrder

(***************************************************************************)
(* What the ARM has, what is in the FIFO and what is still to be sent are  *)
(* the words of the announcement: the header, and the bytes in the words'  *)
(* four places, lowest first.  No word is dropped at the full FIFO, and    *)
(* the last, partial word is sent.                                         *)
(***************************************************************************)
SendsIntact ==
    LET sent == armGot \o tx \o unsent  IN
    amp_endpoint =>
        /\ Len(sent) = HdrWords + (Len(Announce) + WordBytes - 1) \div WordBytes
        /\ \A k \in 1 .. HdrWords : sent[k].len = Len(Announce)
        /\ \A i \in 1 .. Len(Announce) :
             sent[HdrWords + 1 + (i - 1) \div WordBytes][1 + ((i - 1) % WordBytes)] = Announce[i]

(***************************************************************************)
(* Every word the ARM sends is taken out of the message box in the end:    *)
(* no interrupt is lost between the last read and the clearing.  (Once the *)
(* memory behind the buffer is overwritten the DSP may stop.)              *)
(***************************************************************************)
AlwaysDrained == rx[ArmChannel] # << >> ~> rx[ArmChannel] = << >> \/ damaged

(***************************************************************************)
(* Channel 0 is configured for reception: the DSP takes what is sent on it.*)
(***************************************************************************)
Channel0Served == rx[0] # << >> ~> rx[0] = << >>

(***************************************************************************)
(* rpmsg_init returns although its announcement does not fit in the FIFO,  *)
(* unless the memory behind the buffer is overwritten before.              *)
(***************************************************************************)
InitReturns == <>(boot = "done" \/ damaged)
=============================================================================
