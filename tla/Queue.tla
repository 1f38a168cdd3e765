------------------------------- MODULE Queue -------------------------------
(***************************************************************************)
(* A queue of the kernel (kernel/FreeRTOS/queue.c) with the parts of       *)
(* tasks.c that block and wake its users.                                  *)
(*                                                                         *)
(* A task's call looks at the queue in a critical section.  If it cannot   *)
(* be served and may wait, the task suspends the scheduler, locks the      *)
(* queue, looks again, and puts itself on an event list.  Interrupts come  *)
(* between any two of these steps; while the queue is locked they only     *)
(* count what they did, and unlocking wakes as many waiters.  While the    *)
(* scheduler is suspended a woken task goes to the pending ready list.     *)
(*                                                                         *)
(* Any ready task may take the next step, whatever its priority: that      *)
(* covers every order of interrupts, preemption and time slices.           *)
(*                                                                         *)
(* Definitions with a suffix (PutInOrderLast, UnlockTxOnce, ...) are       *)
(* mistakes, kept to show which property sees them.                        *)
(***************************************************************************)
EXTENDS Integers, Sequences, FiniteSets, SequencesExt

CONSTANTS Task, Priority,
          Item,
          uxLength,
          Calls,        \* the calls each task makes
          IsrSends,     \* the sends interrupts make
          IsrReceives,  \* whether they receive, too
          LockMax       \* bound on what is counted while the queue is locked

ASSUME QueueAssumption ==
    /\ IsFiniteSet(Task) /\ Priority \in [Task -> Nat]
    /\ uxLength \in Nat \ {0}
    /\ IsrReceives \in BOOLEAN
    /\ LockMax \in 1 .. 127
    /\ "nothing" \notin Item /\ "isr" \notin Task /\ "nobody" \notin Task

(***************************************************************************)
(* What the code asserts of its callers (lines 754, 755, 964 and 965): a   *)
(* send brings an item, and only a queue of one is overwritten.            *)
(***************************************************************************)
ASSUME CallAssumption ==
    /\ Calls \in [Task -> SUBSET [op : {"send", "receive", "peek", "reset"},
                                  pos : {"back", "front", "overwrite", "none"},
                                  item : Item \cup {"nothing"},
                                  ticks : {"none", "finite", "forever"}]]
    /\ IsrSends \subseteq [pos : {"back", "front", "overwrite"}, item : Item]
    /\ \A t \in Task : \A c \in Calls[t] :
         /\ c.op = "send" => c.item \in Item /\ c.pos # "none"
         /\ c.pos = "overwrite" => c.op = "send" /\ uxLength = 1
    /\ \A s \in IsrSends : s.pos = "overwrite" => uxLength = 1

Caller == Task \cup {"isr"}

queueUNLOCKED == -1
queueLOCKED_UNMODIFIED == 0

VARIABLES storage, pcWriteTo, pcReadFrom, uxMessagesWaiting,
          cRxLock, cTxLock,
          xTasksWaitingToSend, xTasksWaitingToReceive,
          suspended,            \* who has suspended the scheduler
          xPendingReadyList,
          blocked,              \* the tasks that are not in a ready list
          call,                 \* each task's call
          got                   \* what is in each caller's buffer

data == <<storage, pcWriteTo, pcReadFrom, uxMessagesWaiting>>
locks == <<cRxLock, cTxLock>>
waiting == <<xTasksWaitingToSend, xTasksWaitingToReceive>>
sched == <<suspended, xPendingReadyList, blocked>>
vars == <<data, locks, waiting, sched, call, got>>

Nobody == "nobody"
Idle == [op |-> "none", pc |-> "idle"]

Init ==
    /\ storage = [i \in 0 .. uxLength - 1 |-> "nothing"]
    /\ pcWriteTo = 0 /\ pcReadFrom = uxLength - 1 /\ uxMessagesWaiting = 0
    /\ cRxLock = queueUNLOCKED /\ cTxLock = queueUNLOCKED
    /\ xTasksWaitingToSend = << >> /\ xTasksWaitingToReceive = << >>
    /\ suspended = Nobody /\ xPendingReadyList = {} /\ blocked = {}
    /\ call = [t \in Task |-> Idle]
    /\ got = [c \in Caller |-> "nothing"]

-----------------------------------------------------------------------------
(***************************************************************************)
(* Of tasks.c: a task leaves the head of an event list, for a ready list   *)
(* or, while the scheduler is suspended, for the pending ready list.       *)
(***************************************************************************)
Woken(list) == IF list = << >> THEN {} ELSE {Head(list)}
Rest(list) == IF list = << >> THEN << >> ELSE Tail(list)

Wake(tasks) ==
    IF suspended = Nobody
      THEN blocked' = blocked \ tasks /\ UNCHANGED xPendingReadyList
      ELSE xPendingReadyList' = xPendingReadyList \cup tasks /\ UNCHANGED blocked

PutInOrderLast(list, t) == Append(list, t)

\* vListInsert: in front of the first of a lower priority, or at the end.
PutInOrder(list, t) ==
    LET lower == {i \in DOMAIN list : Priority[list[i]] < Priority[t]}
    IN  InsertAt(list, Min(lower \cup {Len(list) + 1}), t)

\* uxListRemove, of a task that is in the list once at most.
Off(list, t) ==
    IF t \notin Range(list) THEN list
    ELSE RemoveAt(list, CHOOSE i \in DOMAIN list : list[i] = t)

(***************************************************************************)
(* prvCopyDataToQueue, and the first half of prvCopyDataFromQueue.         *)
(***************************************************************************)
Next1(i) == IF i + 1 >= uxLength THEN 0 ELSE i + 1
Prev1(i) == IF i - 1 < 0 THEN uxLength - 1 ELSE i - 1

CopyDataToQueueCounts(x, pos) ==
    IF pos = "back"
      THEN /\ storage' = [storage EXCEPT ![pcWriteTo] = x]
           /\ pcWriteTo' = Next1(pcWriteTo)
           /\ uxMessagesWaiting' = uxMessagesWaiting + 1
           /\ UNCHANGED pcReadFrom
      ELSE /\ storage' = [storage EXCEPT ![pcReadFrom] = x]
           /\ pcReadFrom' = Prev1(pcReadFrom)
           /\ uxMessagesWaiting' = uxMessagesWaiting + 1
           /\ UNCHANGED pcWriteTo

CopyDataToQueue(x, pos) ==
    IF pos = "back"
      THEN /\ storage' = [storage EXCEPT ![pcWriteTo] = x]
           /\ pcWriteTo' = Next1(pcWriteTo)
           /\ uxMessagesWaiting' = uxMessagesWaiting + 1
           /\ UNCHANGED pcReadFrom
      ELSE /\ storage' = [storage EXCEPT ![pcReadFrom] = x]
           /\ pcReadFrom' = Prev1(pcReadFrom)
           /\ uxMessagesWaiting' =
                IF pos = "overwrite" /\ uxMessagesWaiting > 0
                  THEN uxMessagesWaiting ELSE uxMessagesWaiting + 1
           /\ UNCHANGED pcWriteTo

CopyDataFromQueue(c) == got' = [got EXCEPT ![c] = storage[Next1(pcReadFrom)]]

TakeKeepsCount(c) ==
    /\ CopyDataFromQueue(c)
    /\ pcReadFrom' = Next1(pcReadFrom)
    /\ UNCHANGED <<storage, pcWriteTo, uxMessagesWaiting>>

Take(c) ==
    /\ CopyDataFromQueue(c)
    /\ pcReadFrom' = Next1(pcReadFrom)
    /\ uxMessagesWaiting' = uxMessagesWaiting - 1
    /\ UNCHANGED <<storage, pcWriteTo>>

Roomy(pos) == uxMessagesWaiting < uxLength \/ pos = "overwrite"

-----------------------------------------------------------------------------
(***************************************************************************)
(* A task takes steps while it is ready and the scheduler is not           *)
(* suspended; the one that has suspended it goes on until it resumes it.   *)
(***************************************************************************)
Runs(t, pc) ==
    /\ call[t].pc = pc
    /\ IF suspended = Nobody THEN t \notin blocked ELSE t = suspended

Goto(t, pc) == call' = [call EXCEPT ![t].pc = pc]

Return(t) == call' = [call EXCEPT ![t] = Idle]

Enter(t, c) ==
    /\ Runs(t, "idle")
    /\ call' = [call EXCEPT ![t] = [op |-> c.op, pos |-> c.pos, item |-> c.item, ticks |-> c.ticks,
                                    pc |-> "try", expired |-> FALSE, entered |-> FALSE,
                                    then |-> "try"]]
    /\ got' = [got EXCEPT ![t] = "nothing"]
    /\ UNCHANGED <<data, locks, waiting, sched>>

IsSend(t) == call[t].op = "send"

(***************************************************************************)
(* The critical section at the top of the loop, when the queue serves the  *)
(* call: xQueueGenericSend, xQueueReceive, xQueuePeek; xQueueGenericReset. *)
(***************************************************************************)
Send(t) ==
    /\ Runs(t, "try") /\ IsSend(t)
    /\ Roomy(call[t].pos)
    /\ CopyDataToQueue(call[t].item, call[t].pos)
    /\ Wake(Woken(xTasksWaitingToReceive))
    /\ xTasksWaitingToReceive' = Rest(xTasksWaitingToReceive)
    /\ Return(t)
    /\ UNCHANGED <<locks, xTasksWaitingToSend, suspended, got>>

Receive(t) ==
    /\ Runs(t, "try") /\ call[t].op = "receive"
    /\ uxMessagesWaiting > 0
    /\ Take(t)
    /\ Wake(Woken(xTasksWaitingToSend))
    /\ xTasksWaitingToSend' = Rest(xTasksWaitingToSend)
    /\ Return(t)
    /\ UNCHANGED <<locks, xTasksWaitingToReceive, suspended>>

Peek(t) ==
    /\ Runs(t, "try") /\ call[t].op = "peek"
    /\ uxMessagesWaiting > 0
    /\ CopyDataFromQueue(t)
    /\ Wake(Woken(xTasksWaitingToReceive))
    /\ xTasksWaitingToReceive' = Rest(xTasksWaitingToReceive)
    /\ Return(t)
    /\ UNCHANGED <<data, locks, xTasksWaitingToSend, suspended>>

Reset(t) ==
    /\ Runs(t, "try") /\ call[t].op = "reset"
    /\ pcWriteTo' = 0 /\ pcReadFrom' = uxLength - 1 /\ uxMessagesWaiting' = 0
    /\ cRxLock' = queueUNLOCKED /\ cTxLock' = queueUNLOCKED
    /\ Wake(Woken(xTasksWaitingToSend))
    /\ xTasksWaitingToSend' = Rest(xTasksWaitingToSend)
    /\ Return(t)
    /\ UNCHANGED <<storage, xTasksWaitingToReceive, suspended, got>>

Served(t) == Send(t) \/ Receive(t) \/ Peek(t) \/ Reset(t)

UnservedRestarts(t) ==
    /\ Runs(t, "try") /\ call[t].op # "reset"
    /\ IF IsSend(t) THEN ~Roomy(call[t].pos) ELSE uxMessagesWaiting = 0
    /\ IF call[t].ticks = "none" THEN Return(t)
       ELSE call' = [call EXCEPT ![t].pc = "suspend", ![t].entered = TRUE, ![t].expired = FALSE]
    /\ UNCHANGED <<data, locks, waiting, sched, got>>

\* It does not: the call fails at once, or goes on to wait.
Unserved(t) ==
    /\ Runs(t, "try") /\ call[t].op # "reset"
    /\ IF IsSend(t) THEN ~Roomy(call[t].pos) ELSE uxMessagesWaiting = 0
    /\ IF call[t].ticks = "none" THEN Return(t)
       ELSE call' = [call EXCEPT ![t].pc = "suspend", ![t].entered = TRUE]
    /\ UNCHANGED <<data, locks, waiting, sched, got>>

-----------------------------------------------------------------------------
(***************************************************************************)
(* The rest of the loop, with the scheduler suspended and the queue locked.*)
(* "then" is where the call goes on after resuming the scheduler.          *)
(***************************************************************************)
SuspendAll(t) ==
    /\ Runs(t, "suspend")
    /\ suspended' = t
    /\ Goto(t, "lock")
    /\ UNCHANGED <<data, locks, waiting, xPendingReadyList, blocked, got>>

LockQueue(t) ==
    /\ Runs(t, "lock")
    /\ cRxLock' = IF cRxLock = queueUNLOCKED THEN queueLOCKED_UNMODIFIED ELSE cRxLock
    /\ cTxLock' = IF cTxLock = queueUNLOCKED THEN queueLOCKED_UNMODIFIED ELSE cTxLock
    /\ Goto(t, "timeout")
    /\ UNCHANGED <<data, waiting, sched, got>>

CheckForTimeOut(t) ==
    /\ Runs(t, "timeout")
    /\ call' = [call EXCEPT ![t].pc = IF call[t].expired THEN "unlockTx" ELSE "test",
                            ![t].then = IF ~call[t].expired THEN "try"
                                        ELSE IF IsSend(t) THEN "fail" ELSE "failIfEmpty"]
    /\ UNCHANGED <<data, locks, waiting, sched, got>>

\* prvIsQueueFull, prvIsQueueEmpty
Test(t) ==
    /\ Runs(t, "test")
    /\ Goto(t, IF uxMessagesWaiting = (IF IsSend(t) THEN uxLength ELSE 0) THEN "place" ELSE "unlockTx")
    /\ UNCHANGED <<data, locks, waiting, sched, got>>

\* vTaskPlaceOnEventList
Place(t) ==
    /\ Runs(t, "place")
    /\ IF IsSend(t)
         THEN /\ xTasksWaitingToSend' = PutInOrder(xTasksWaitingToSend, t)
              /\ UNCHANGED xTasksWaitingToReceive
         ELSE /\ xTasksWaitingToReceive' = PutInOrder(xTasksWaitingToReceive, t)
              /\ UNCHANGED xTasksWaitingToSend
    /\ blocked' = blocked \cup {t}
    /\ Goto(t, "unlockTx")
    /\ UNCHANGED <<data, locks, suspended, xPendingReadyList, got>>

\* How many waiters unlocking wakes.
Owed(lock, list) == IF lock < Len(list) THEN lock ELSE Len(list)

UnlockTxOnce(t) ==
    LET n == IF Owed(cTxLock, xTasksWaitingToReceive) > 0 THEN 1 ELSE 0  IN
    /\ Runs(t, "unlockTx")
    /\ Wake(Range(SubSeq(xTasksWaitingToReceive, 1, n)))
    /\ xTasksWaitingToReceive' = SubSeq(xTasksWaitingToReceive, n + 1, Len(xTasksWaitingToReceive))
    /\ cTxLock' = queueUNLOCKED
    /\ Goto(t, "unlockRx")
    /\ UNCHANGED <<data, cRxLock, xTasksWaitingToSend, suspended, got>>

UnlockTx(t) ==
    LET n == Owed(cTxLock, xTasksWaitingToReceive)  IN
    /\ Runs(t, "unlockTx")
    /\ Wake(Range(SubSeq(xTasksWaitingToReceive, 1, n)))
    /\ xTasksWaitingToReceive' = SubSeq(xTasksWaitingToReceive, n + 1, Len(xTasksWaitingToReceive))
    /\ cTxLock' = queueUNLOCKED
    /\ Goto(t, "unlockRx")
    /\ UNCHANGED <<data, cRxLock, xTasksWaitingToSend, suspended, got>>

UnlockRx(t) ==
    LET n == Owed(cRxLock, xTasksWaitingToSend)  IN
    /\ Runs(t, "unlockRx")
    /\ Wake(Range(SubSeq(xTasksWaitingToSend, 1, n)))
    /\ xTasksWaitingToSend' = SubSeq(xTasksWaitingToSend, n + 1, Len(xTasksWaitingToSend))
    /\ cRxLock' = queueUNLOCKED
    /\ Goto(t, "resume")
    /\ UNCHANGED <<data, cTxLock, xTasksWaitingToReceive, suspended, got>>

(***************************************************************************)
(* xTaskResumeAll.  The call of a task that is blocked goes on when it is  *)
(* woken; a send that timed out returns.                                   *)
(***************************************************************************)
AfterResume(t) ==
    IF call[t].then = "fail" THEN Return(t) ELSE Goto(t, call[t].then)

ResumeAllForgets(t) ==
    /\ Runs(t, "resume")
    /\ suspended' = Nobody
    /\ xPendingReadyList' = {}
    /\ AfterResume(t)
    /\ UNCHANGED <<data, locks, waiting, blocked, got>>

ResumeAll(t) ==
    /\ Runs(t, "resume")
    /\ suspended' = Nobody
    /\ blocked' = blocked \ xPendingReadyList
    /\ xPendingReadyList' = {}
    /\ AfterResume(t)
    /\ UNCHANGED <<data, locks, waiting, got>>

\* A receive or peek that timed out fails, unless an item has come after all.
FailIfEmpty(t) ==
    /\ Runs(t, "failIfEmpty")
    /\ IF uxMessagesWaiting = 0 THEN Return(t) ELSE Goto(t, "try")
    /\ UNCHANGED <<data, locks, waiting, sched, got>>

Step(t) ==
    \/ Served(t) \/ Unserved(t)
    \/ SuspendAll(t) \/ LockQueue(t) \/ CheckForTimeOut(t) \/ Test(t) \/ Place(t)
    \/ UnlockTx(t) \/ UnlockRx(t) \/ ResumeAll(t) \/ FailIfEmpty(t)

-----------------------------------------------------------------------------
(***************************************************************************)
(* The time of a call is over.  xTaskIncrementTick does nothing while the  *)
(* scheduler is suspended; it takes a blocked task out of the delayed list *)
(* and out of its event list.                                              *)
(***************************************************************************)
Tick(t) ==
    /\ suspended = Nobody
    /\ call[t].pc # "idle" /\ call[t].ticks = "finite" /\ call[t].entered /\ ~call[t].expired
    /\ call' = [call EXCEPT ![t].expired = TRUE]
    /\ blocked' = blocked \ {t}
    /\ xTasksWaitingToSend' = Off(xTasksWaitingToSend, t)
    /\ xTasksWaitingToReceive' = Off(xTasksWaitingToReceive, t)
    /\ UNCHANGED <<data, locks, suspended, xPendingReadyList, got>>

(***************************************************************************)
(* xQueueGenericSendFromISR and xQueueReceiveFromISR.                      *)
(***************************************************************************)
SendFromISR(s) ==
    /\ Roomy(s.pos)
    /\ CopyDataToQueue(s.item, s.pos)
    /\ IF cTxLock = queueUNLOCKED
         THEN /\ Wake(Woken(xTasksWaitingToReceive))
              /\ xTasksWaitingToReceive' = Rest(xTasksWaitingToReceive)
              /\ UNCHANGED cTxLock
         ELSE /\ cTxLock < LockMax
              /\ cTxLock' = cTxLock + 1
              /\ UNCHANGED <<xTasksWaitingToReceive, xPendingReadyList, blocked>>
    /\ UNCHANGED <<cRxLock, xTasksWaitingToSend, suspended, call, got>>

ReceiveFromISR ==
    /\ IsrReceives
    /\ uxMessagesWaiting > 0
    /\ Take("isr")
    /\ IF cRxLock = queueUNLOCKED
         THEN /\ Wake(Woken(xTasksWaitingToSend))
              /\ xTasksWaitingToSend' = Rest(xTasksWaitingToSend)
              /\ UNCHANGED cRxLock
         ELSE /\ cRxLock < LockMax
              /\ cRxLock' = cRxLock + 1
              /\ UNCHANGED <<xTasksWaitingToSend, xPendingReadyList, blocked>>
    /\ UNCHANGED <<cTxLock, xTasksWaitingToReceive, suspended, call>>

Next ==
    \/ \E t \in Task : (\E c \in Calls[t] : Enter(t, c)) \/ Step(t) \/ Tick(t)
    \/ (\E s \in IsrSends : SendFromISR(s))
    \/ ReceiveFromISR

Spec == Init /\ [][Next]_vars

(***************************************************************************)
(* Tasks of one priority take turns, and time passes: the ticks that come  *)
(* while the scheduler is suspended are made up for when it is resumed.    *)
(***************************************************************************)
FairSpec == Spec /\ \A t \in Task : SF_vars(Step(t)) /\ SF_vars(Tick(t))

-----------------------------------------------------------------------------
TypeOK ==
    /\ storage \in [0 .. uxLength - 1 -> Item \cup {"nothing"}]
    /\ pcWriteTo \in 0 .. uxLength - 1 /\ pcReadFrom \in 0 .. uxLength - 1
    /\ uxMessagesWaiting \in 0 .. uxLength
    /\ cRxLock \in queueUNLOCKED .. LockMax /\ cTxLock \in queueUNLOCKED .. LockMax
    /\ Range(xTasksWaitingToSend) \subseteq Task /\ IsInjective(xTasksWaitingToSend)
    /\ Range(xTasksWaitingToReceive) \subseteq Task /\ IsInjective(xTasksWaitingToReceive)
    /\ suspended \in Task \cup {Nobody}
    /\ xPendingReadyList \subseteq blocked /\ blocked \subseteq Task
    /\ got \in [Caller -> Item \cup {"nothing"}]

(***************************************************************************)
(* The ring behind the two pointers is a bounded queue: items come out in  *)
(* the order the ends they went in at ask for, each to one receiver, none  *)
(* lost; a peek sees the next one.                                         *)
(***************************************************************************)
Items == [i \in 1 .. uxMessagesWaiting |-> storage[(pcReadFrom + i) % uxLength]]

Abstract == INSTANCE BoundedQueue WITH buf <- Items, Capacity <- uxLength

IsBoundedQueue == Abstract!Spec

Listed == Range(xTasksWaitingToSend) \cup Range(xTasksWaitingToReceive)

(***************************************************************************)
(* A task is blocked exactly while something can still wake it: it is on   *)
(* the event list of what it waits for, or on the pending ready list of a  *)
(* suspended scheduler, and never on both.                                 *)
(***************************************************************************)
NobodyForgotten ==
    /\ TypeOK
    /\ blocked = Listed \cup xPendingReadyList
    /\ Listed \cap xPendingReadyList = {}
    /\ xPendingReadyList # {} => suspended # Nobody
    /\ \A t \in Range(xTasksWaitingToSend) : IsSend(t)
    /\ \A t \in Range(xTasksWaitingToReceive) : ~IsSend(t)

(***************************************************************************)
(* No wakeup is lost.  While a receiver waits there are no more items than *)
(* receivers about to look at the queue, and wakeups owed by the lock;     *)
(* while a sender waits the same holds of the free places.                 *)
(***************************************************************************)
About(ops) ==
    {t \in Task \ Listed :
        /\ call[t].op \in ops
        /\ \/ call[t].pc \in {"try", "failIfEmpty"}
           \/ call[t].pc \in {"unlockTx", "unlockRx", "resume"} /\ call[t].then # "fail"}

OwedBy(lock) == IF lock > 0 THEN lock ELSE 0

NoLostWakeup ==
    /\ xTasksWaitingToReceive # << >> =>
         uxMessagesWaiting <= Cardinality(About({"receive", "peek"})) + OwedBy(cTxLock)
    /\ xTasksWaitingToSend # << >> =>
         uxLength - uxMessagesWaiting <= Cardinality(About({"send"})) + OwedBy(cRxLock)

(***************************************************************************)
(* Of the tasks that wait, the first to be woken is one of the highest     *)
(* priority, and among equals the one that has waited longest: whoever is  *)
(* behind another stays behind it, and has no higher priority.             *)
(***************************************************************************)
InOrder(list) == \A i, j \in DOMAIN list : i < j => Priority[list[i]] >= Priority[list[j]]

FirstComeFirstServed ==
    [][ \A list \in {<<xTasksWaitingToSend, xTasksWaitingToSend'>>,
                     <<xTasksWaitingToReceive, xTasksWaitingToReceive'>>} :
          /\ InOrder(list[2])
          /\ \A t, u \in Range(list[1]) \cap Range(list[2]) :
               (\E i, j \in DOMAIN list[1] : i < j /\ list[1][i] = t /\ list[1][j] = u) =>
               (\E i, j \in DOMAIN list[2] : i < j /\ list[2][i] = t /\ list[2][j] = u) ]_vars

(***************************************************************************)
(* A send with a limit ends, however often its place is taken by others.   *)
(***************************************************************************)
LimitedSendEnds ==
    \A t \in Task :
        (call[t].op = "send" /\ call[t].ticks = "finite") ~> (call[t].pc = "idle")
=============================================================================
