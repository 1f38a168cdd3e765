---------------------------- MODULE StreamBuffer ----------------------------
(***************************************************************************)
(* A stream or message buffer (kernel/FreeRTOS/stream_buffer.c), between   *)
(* one writer and one reader: tasks, or interrupts.                        *)
(*                                                                         *)
(* The ring is read and written outside any critical section; only its     *)
(* two positions tell what is in it.  A caller that has to wait leaves its *)
(* handle in the buffer and waits for a notification, which whoever        *)
(* finds the handle sends.  Interrupts, and tasks of higher priority, come *)
(* between any two of the steps.                                           *)
(*                                                                         *)
(* The bytes sent are numbered, so that the n-th has the value n modulo    *)
(* Numbers.  Before a message, its length is stored; it fills              *)
(* sbBYTES_TO_STORE_MESSAGE_LENGTH places with its negative.               *)
(***************************************************************************)
EXTENDS Tasks

CONSTANTS xLength,
          sbBYTES_TO_STORE_MESSAGE_LENGTH,
          Numbers

ASSUME StreamBufferAssumption ==
    /\ xLength \in Nat \ {0} /\ sbBYTES_TO_STORE_MESSAGE_LENGTH \in Nat \ {0}
    /\ Numbers > xLength

VARIABLE stream

None == "none"

\* prvInitialiseNewStreamBuffer.  `written` and `read` are the numbers of the
\* next byte to send and to receive.
Fresh(trigger, number) ==
    [buffer |-> [i \in 0 .. xLength - 1 |-> 0], head |-> 0, tail |-> 0, trigger |-> trigger,
     receiver |-> None, sender |-> None, written |-> number, read |-> number]

StreamBufferInit == stream = Fresh(1, 0)

-----------------------------------------------------------------------------
(***************************************************************************)
(* The ring.                                                               *)
(***************************************************************************)
Round(n) == IF n >= xLength THEN n - xLength ELSE n

\* prvBytesInBuffer
BytesInBuffer(b) == Round(xLength + b.head - b.tail)

SpacesAvailableAll(b) == xLength - BytesInBuffer(b)

\* xStreamBufferSpacesAvailable
SpacesAvailable(b) == Round(xLength + b.tail - b.head - 1)

\* prvWriteBytesToBuffer: the bytes, and then the position
CopyIn(b, bytes) ==
    [b EXCEPT !.buffer = [i \in 0 .. xLength - 1 |->
        LET n == Round(xLength + i - b.head)
        IN  IF n < Len(bytes) THEN bytes[n + 1] ELSE @[i]]]

MoveHead(b, n) == [b EXCEPT !.head = Round(@ + n)]

\* prvReadBytesFromBuffer
CopyOut(b, n) == [i \in 1 .. n |-> b.buffer[Round(b.tail + i - 1)]]

MoveTail(b, n) == [b EXCEPT !.tail = Round(@ + n)]

HeaderLength == IF program.message THEN sbBYTES_TO_STORE_MESSAGE_LENGTH ELSE 0

Header(n) == [i \in 1 .. HeaderLength |-> -n]

Data(first, n) == [i \in 1 .. n |-> (first + i - 1) % Numbers]

\* prvWriteMessageToBuffer: how much of n bytes is written.
Fitting(n, space) ==
    IF program.message THEN (IF space >= n + HeaderLength THEN n ELSE 0)
                       ELSE Min({n, space})

-----------------------------------------------------------------------------
(***************************************************************************)
(* xStreamBufferSend                                                       *)
(***************************************************************************)
GoOn(t, pc) == Goto(t, [call[t] EXCEPT !.pc = pc])

Send(t, c) ==
    /\ Calls(t, c, "streamSend")
    /\ Goto(t, [pc |-> IF c.ticks = 0 THEN "sendSpace" ELSE "sendTry", len |-> c.len,
                out |-> TimeOutState(sched, c.ticks), space |-> 0])
    /\ c.ticks > 0 => sched.nesting = 0
    /\ UNCHANGED <<sched, lastWake, stream>>

\* xTaskNotifyStateClear of the caller
StateClear(s, t) ==
    [s EXCEPT !.notify[t] = IF @ = "RECEIVED" THEN "NOT_WAITING" ELSE @]

SendTry(t) ==
    LET space == SpacesAvailable(stream)
        waits == space < call[t].len + HeaderLength
    IN  /\ At(t, "sendTry")
        /\ sched' = IF waits THEN StateClear(sched, t) ELSE sched
        /\ stream' = IF waits THEN [stream EXCEPT !.sender = t] ELSE stream
        /\ Goto(t, [call[t] EXCEPT !.pc = IF waits THEN "sendWait" ELSE "sendSpace", !.space = space])
        /\ UNCHANGED lastWake

SendWaits(t) ==
    /\ At(t, "sendWait")
    /\ sched' \in WaitForNotification(sched, call[t].out.ticks, FALSE)
    /\ Goto(t, NotifyWaitGoes(FALSE, [call[t] EXCEPT !.pc = "sendWoken"]))
    /\ UNCHANGED <<lastWake, stream>>

SendWoken(t) ==
    /\ At(t, "sendWoken")
    /\ stream' = [stream EXCEPT !.sender = None]
    /\ GoOn(t, "sendCheck")
    /\ UNCHANGED <<sched, lastWake>>

SendChecksTime(t) ==
    LET w == call[t]
    IN  /\ At(t, "sendCheck")
        /\ Goto(t, [w EXCEPT !.pc = IF TimedOut(sched, w.out) THEN "sendSpace" ELSE "sendTry",
                             !.out = TicksLeft(sched, @)])
        /\ UNCHANGED <<sched, lastWake, stream>>

\* What it will write: the length of a message is a write of its own.
SendDecides(t) ==
    LET w == call[t]
        n == Fitting(w.len, IF w.space = 0 THEN SpacesAvailable(stream) ELSE w.space)
        data == Data(stream.written, n)
    IN  /\ At(t, "sendSpace")
        /\ Goto(t, IF n = 0 THEN Run
                   ELSE [pc |-> "sendCopy", parts |-> IF program.message THEN <<Header(n), data>> ELSE <<data>>])
        /\ UNCHANGED <<sched, lastWake, stream>>

SendCopies(t) ==
    /\ At(t, "sendCopy")
    /\ stream' = CopyIn(stream, Head(call[t].parts))
    /\ GoOn(t, "sendPublish")
    /\ UNCHANGED <<sched, lastWake>>

SendPublishes(t) ==
    LET parts == call[t].parts
        n == Len(Head(parts))
    IN  /\ At(t, "sendPublish")
        /\ stream' = IF Len(parts) > 1 THEN MoveHead(stream, n)
                     ELSE [MoveHead(stream, n) EXCEPT !.written = (@ + n) % Numbers]
        /\ Goto(t, IF Len(parts) > 1 THEN [pc |-> "sendCopy", parts |-> Tail(parts)] ELSE [pc |-> "sent"])
        /\ UNCHANGED <<sched, lastWake>>

SentBeyondTrigger(t) ==
    /\ At(t, "sent")
    /\ IF BytesInBuffer(stream) > stream.trigger
         THEN sched' = SuspendAll(sched) /\ Goto(t, [pc |-> "sendCompleted"])
         ELSE UNCHANGED sched /\ Goto(t, Run)
    /\ UNCHANGED <<lastWake, stream>>

Sent(t) ==
    /\ At(t, "sent")
    /\ IF BytesInBuffer(stream) >= stream.trigger
         THEN sched' = SuspendAll(sched) /\ Goto(t, [pc |-> "sendCompleted"])
         ELSE UNCHANGED sched /\ Goto(t, Run)
    /\ UNCHANGED <<lastWake, stream>>

\* A task is told that its wait is over: xTaskNotify with eNoAction.
Tell(t) ==
    IF t = None THEN {sched} ELSE SwitchIf(NotifyPreempts(sched, t), Notify(sched, t, "eNoAction", 0))

ThenResume == [pc |-> "resume", yields |-> FALSE, then |-> Run]

\* sbSEND_COMPLETED
SendCompleted(t) ==
    /\ At(t, "sendCompleted")
    /\ sched' \in Tell(stream.receiver)
    /\ stream' = [stream EXCEPT !.receiver = None]
    /\ Goto(t, ThenResume)
    /\ UNCHANGED lastWake

-----------------------------------------------------------------------------
(***************************************************************************)
(* xStreamBufferReceive                                                    *)
(***************************************************************************)
Receive(t, c) ==
    LET available == BytesInBuffer(stream)
        waits == c.ticks > 0 /\ available <= HeaderLength
    IN  /\ Calls(t, c, "streamReceive")
        /\ c.ticks > 0 => sched.nesting = 0
        /\ sched' = IF waits THEN StateClear(sched, t) ELSE sched
        /\ stream' = IF waits THEN [stream EXCEPT !.receiver = t] ELSE stream
        /\ Goto(t, [pc |-> IF waits THEN "receiveWait" ELSE "receiveLength", max |-> c.max,
                    ticks |-> c.ticks, available |-> available])
        /\ UNCHANGED lastWake

ReceiveWaits(t) ==
    /\ At(t, "receiveWait")
    /\ sched' \in WaitForNotification(sched, call[t].ticks, FALSE)
    /\ Goto(t, NotifyWaitGoes(FALSE, [call[t] EXCEPT !.pc = "receiveWoken"]))
    /\ UNCHANGED <<lastWake, stream>>

ReceiveWoken(t) ==
    /\ At(t, "receiveWoken")
    /\ stream' = [stream EXCEPT !.receiver = None]
    /\ GoOn(t, "receiveLooks")
    /\ UNCHANGED <<sched, lastWake>>

ReceiveLooks(t) ==
    /\ At(t, "receiveLooks")
    /\ Goto(t, [call[t] EXCEPT !.pc = "receiveLength", !.available = BytesInBuffer(stream)])
    /\ UNCHANGED <<sched, lastWake, stream>>

\* prvReadMessageFromBuffer: the length is read first, and put back if the
\* message is too long for the reader.
ReceiveLength(t) ==
    LET w == call[t]
        length == -CopyOut(stream, 1)[1]
    IN  /\ At(t, "receiveLength")
        /\ IF w.available <= HeaderLength THEN Goto(t, Run) /\ UNCHANGED stream
           ELSE IF program.message
             THEN /\ stream' = MoveTail(stream, HeaderLength)
                  /\ Goto(t, IF length > w.max THEN [pc |-> "receiveRestores", tail |-> stream.tail]
                             ELSE [pc |-> "receiveCopies", n |-> Min({length, w.available - HeaderLength})])
             ELSE /\ Goto(t, [pc |-> "receiveCopies", n |-> Min({w.max, w.available})])
                  /\ UNCHANGED stream
        /\ UNCHANGED <<sched, lastWake>>

ReceiveRestores(t) ==
    /\ At(t, "receiveRestores")
    /\ stream' = [stream EXCEPT !.tail = call[t].tail]
    /\ Goto(t, Run)
    /\ UNCHANGED <<sched, lastWake>>

ReceiveCopies(t) ==
    /\ At(t, "receiveCopies")
    /\ Goto(t, [pc |-> "receiveMoves", got |-> CopyOut(stream, call[t].n)])
    /\ UNCHANGED <<sched, lastWake, stream>>

ReceiveMoves(t) ==
    LET n == Len(call[t].got)
    IN  /\ At(t, "receiveMoves")
        /\ stream' = [MoveTail(stream, n) EXCEPT !.read = (@ + n) % Numbers]
        /\ Goto(t, [pc |-> "received"])
        /\ UNCHANGED <<sched, lastWake>>

Received(t) ==
    /\ At(t, "received")
    /\ sched' = SuspendAll(sched)
    /\ Goto(t, [pc |-> "receiveCompleted"])
    /\ UNCHANGED <<lastWake, stream>>

\* sbRECEIVE_COMPLETED
ReceiveCompleted(t) ==
    /\ At(t, "receiveCompleted")
    /\ sched' \in Tell(stream.sender)
    /\ stream' = [stream EXCEPT !.sender = None]
    /\ Goto(t, ThenResume)
    /\ UNCHANGED lastWake

-----------------------------------------------------------------------------
(***************************************************************************)
(* xStreamBufferSetTriggerLevel, xStreamBufferReset; interrupts:           *)
(* xStreamBufferSendFromISR, xStreamBufferReceiveFromISR.                  *)
(***************************************************************************)
SetTriggerLevel(t, c) ==
    /\ Calls(t, c, "setTriggerLevel") /\ c.level <= xLength
    /\ stream' = [stream EXCEPT !.trigger = Max({1, c.level})]
    /\ UNCHANGED <<sched, call, lastWake>>

StreamCalls == {"sendTry", "sendWait", "sendWoken", "sendCheck", "sendSpace", "sendCopy", "sendPublish",
                "sent", "sendCompleted", "receiveWait", "receiveWoken", "receiveLooks", "receiveLength",
                "receiveRestores", "receiveCopies", "receiveMoves", "received", "receiveCompleted"}

\* Not while somebody reads or writes.
StreamReset(t, c) ==
    /\ Calls(t, c, "streamReset")
    /\ \A u \in Task : Doing(u).pc \notin StreamCalls
    /\ stream.receiver = None /\ stream.sender = None
    /\ stream' = Fresh(stream.trigger, stream.written)
    /\ UNCHANGED <<sched, call, lastWake>>

TellFromISR(t) ==
    IF t = None THEN {sched}
    ELSE SwitchIf(NotifyPreempts(sched, t), NotifyFromISR(sched, t, "eNoAction", 0))

SendFromISR(c) ==
    LET n == Fitting(c.len, SpacesAvailable(stream))
        header == CopyIn(stream, Header(n))
        data == CopyIn(MoveHead(header, HeaderLength), Data(stream.written, n))
        b == [MoveHead(data, n) EXCEPT !.written = (@ + n) % Numbers]
        completes == BytesInBuffer(b) >= b.trigger
    IN  /\ c.op = "streamSend" /\ n > 0
        /\ stream' = IF completes THEN [b EXCEPT !.receiver = None] ELSE b
        /\ sched' \in IF completes THEN TellFromISR(stream.receiver) ELSE {sched}
        /\ UNCHANGED <<call, lastWake>>

ReceiveFromISR(c) ==
    LET available == BytesInBuffer(stream)
        length == -CopyOut(stream, 1)[1]
        n == IF program.message THEN length ELSE Min({c.max, available})
    IN  /\ c.op = "streamReceive" /\ available > HeaderLength /\ n <= c.max
        /\ stream' = [MoveTail(stream, HeaderLength + n) EXCEPT !.read = (@ + n) % Numbers, !.sender = None]
        /\ sched' \in TellFromISR(stream.sender)
        /\ UNCHANGED <<call, lastWake>>

StreamBufferStep(t) ==
    \/ SendTry(t) \/ SendWaits(t) \/ SendWoken(t) \/ SendChecksTime(t) \/ SendDecides(t)
    \/ SendCopies(t) \/ SendPublishes(t) \/ Sent(t) \/ SendCompleted(t)
    \/ ReceiveWaits(t) \/ ReceiveWoken(t) \/ ReceiveLooks(t) \/ ReceiveLength(t) \/ ReceiveRestores(t)
    \/ ReceiveCopies(t) \/ ReceiveMoves(t) \/ Received(t) \/ ReceiveCompleted(t)
    \/ \E c \in program.calls[t] :
         Send(t, c) \/ Receive(t, c) \/ SetTriggerLevel(t, c) \/ StreamReset(t, c)

StreamBufferNext ==
    \/ \E t \in Task : StreamBufferStep(t)
    \/ \E c \in program.isr : SendFromISR(c) \/ ReceiveFromISR(c)

-----------------------------------------------------------------------------
(***************************************************************************)
(* What is in the ring is what was sent and not yet received, in order;    *)
(* a reader gets the next bytes, and of a message all of them.  Both hold  *)
(* while the other side is in the middle of a call.                        *)
(***************************************************************************)
StreamInOrder ==
    /\ SelectSeq(CopyOut(stream, BytesInBuffer(stream)), LAMBDA x : x >= 0)
         = Data(stream.read, (stream.written - stream.read) % Numbers)
    /\ \A t \in Task : call[t].pc = "receiveMoves" =>
         LET got == call[t].got
         IN  /\ got = Data(stream.read, Len(got))
             /\ program.message => \/ stream.head = Round(stream.tail + Len(got))
                                   \/ stream.buffer[Round(stream.tail + Len(got))] < 0

(***************************************************************************)
(* A reader sleeps only while there is less than the trigger level, and a  *)
(* writer only while its bytes do not fit, unless the other side is about  *)
(* to tell it.                                                             *)
(***************************************************************************)
Sleeps(t, pc) ==
    /\ call[t].pc = "notified" /\ call[t].then.pc = pc /\ sched.notify[t] = "WAITING"
    /\ t # sched.current

Telling(pcs) == \E t \in Task : call[t].pc \in pcs

NoStreamUserForgotten ==
    \A t \in Task :
        /\ Sleeps(t, "receiveWoken") /\ BytesInBuffer(stream) >= stream.trigger
             => Telling({"sendCopy", "sendPublish", "sent", "sendCompleted"})
        /\ Sleeps(t, "sendWoken") /\ SpacesAvailable(stream) >= call[t].then.len + HeaderLength
             => Telling({"receiveCopies", "receiveMoves", "received", "receiveCompleted"})
=============================================================================
