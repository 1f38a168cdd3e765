----------------------------- MODULE Semaphores -----------------------------
(***************************************************************************)
(* Mutexes, recursive mutexes and counting semaphores: the part of         *)
(* kernel/FreeRTOS/queue.c that serves queues without items, and the       *)
(* priority inheritance of tasks.c.                                        *)
(*                                                                         *)
(* A take that has to wait suspends the scheduler and locks the semaphore; *)
(* interrupts that give it meanwhile are counted in its lock, and what     *)
(* they owe is paid when it is unlocked.  A mutex is given and taken by    *)
(* tasks only.                                                             *)
(*                                                                         *)
(* Of a semaphore: count is uxMessagesWaiting, holder xMutexHolder, calls  *)
(* uxRecursiveCallCount, lock cTxLock.  Its xTasksWaitingToReceive is the  *)
(* event list of its name; nothing waits to send, and cRxLock changes      *)
(* nothing.  inSet tells that pxQueueSetContainer is not NULL; what is     *)
(* given is then told to the set (QueueSet), which is itself a queue that  *)
(* is waited for as a semaphore is.                                        *)
(***************************************************************************)
EXTENDS Tasks

CONSTANTS Semaphore,
          Kind,         \* "mutex", "recursive", "counting" or "set"
          Member,       \* the semaphores that are in the set at first
          MaxCount,     \* uxLength
          MaxTimes      \* bound: how often a locked semaphore is given, and
                        \* a mutex is taken by its holder

ASSUME SemaphoresAssumption ==
    /\ Semaphore \subseteq EventList
    /\ Kind \in [Semaphore -> {"mutex", "recursive", "counting", "set"}]
    /\ Member \subseteq {q \in Semaphore : Kind[q] = "counting"}
    /\ MaxCount \in [Semaphore -> Nat \ {0}]
    /\ \A q \in Semaphore : Kind[q] \in {"mutex", "recursive"} => MaxCount[q] = 1
    /\ MaxTimes \in 1 .. 127

VARIABLE semaphore

Nobody == "nobody"
queueUNLOCKED == -1
queueLOCKED_UNMODIFIED == 0

IsMutex(q) == Kind[q] \in {"mutex", "recursive"}

\* xQueueCreateMutex, prvInitialiseMutex; xQueueCreateCountingSemaphore
SemaphoresInit ==
    semaphore = [q \in Semaphore |-> [count |-> IF IsMutex(q) THEN 1 ELSE 0, holder |-> Nobody,
                                      calls |-> 0, lock |-> queueUNLOCKED, inSet |-> q \in Member]]

-----------------------------------------------------------------------------
(***************************************************************************)
(* Priority inheritance.                                                   *)
(***************************************************************************)
\* What raises or lowers a task: its ready list changes with it.
Lift(s, t, p) ==
    LET u == [SetItem(s, t, p) EXCEPT !.prio[t] = p]
    IN  IF t \in s.ready[s.prio[t]] THEN MakeReady(u, {t}) ELSE u

InheritNotIfBlocked(s, holder) ==
    LET p == s.prio[s.current]
    IN  IF holder # Nobody /\ s.prio[holder] < p /\ holder \in s.ready[s.prio[holder]]
          THEN Lift(s, holder, p) ELSE s

\* xTaskPriorityInherit, and what it returns
Inherit(s, holder) ==
    LET p == s.prio[s.current]
    IN  IF holder # Nobody /\ s.prio[holder] < p THEN Lift(s, holder, p) ELSE s

InheritanceOccurred(s, holder) ==
    holder # Nobody /\ Min({s.prio[holder], s.base[holder]}) < s.prio[s.current]

\* xTaskPriorityDisinherit, and what it returns
Disinherited(s) ==
    s.prio[s.current] # s.base[s.current] /\ s.held[s.current] = 1

Disinherit(s) ==
    LET t == s.current
        u == [s EXCEPT !.held[t] = @ - 1]
        down == [u EXCEPT !.prio[t] = s.base[t], !.item[t] = configMAX_PRIORITIES - s.base[t]]
    IN  IF Disinherited(s) THEN MakeReady(down, {t}) ELSE u

\* prvGetDisinheritPriorityAfterTimeout
DisinheritPriorityAfterTimeout(s, q) ==
    IF s.events[q] = << >> THEN 0 ELSE configMAX_PRIORITIES - s.item[Head(s.events[q])]

\* vTaskPriorityDisinheritAfterTimeout
DisinheritAfterTimeout(s, holder, highest) ==
    IF holder = Nobody THEN s
    ELSE LET p == Max({s.base[holder], highest})
         IN  IF s.prio[holder] # p /\ s.held[holder] = 1 THEN Lift(s, holder, p) ELSE s

-----------------------------------------------------------------------------
(***************************************************************************)
(* xQueueSemaphoreTake.  A call in progress keeps `out`, its xTimeOut and  *)
(* the ticks that remain, and `inherited`.  `until` is when it must end.   *)
(***************************************************************************)
Take(t, w) ==
    LET q == w.sem
        m == semaphore[q]
    IN  IF m.count > 0
          THEN /\ semaphore' = [semaphore EXCEPT ![q] =
                    IF IsMutex(q)
                      THEN [m EXCEPT !.count = 0, !.holder = t, !.calls = IF Kind[q] = "recursive" THEN 1 ELSE 0]
                      ELSE [m EXCEPT !.count = @ - 1]]
               /\ sched' = IF IsMutex(q) THEN [sched EXCEPT !.held[t] = @ + 1] ELSE sched
               /\ Goto(t, Run)
          ELSE /\ Goto(t, IF w.out.ticks = 0 THEN Run ELSE [w EXCEPT !.pc = "takeWaits"])
               /\ UNCHANGED <<sched, semaphore>>

SemaphoreTake(t, c) ==
    /\ Calls(t, c, "take")
    /\ c.ticks > 0 => sched.nesting = 0
    /\ Kind[c.sem] = "recursive" => semaphore[c.sem].holder # t
    /\ Take(t, [pc |-> "take", sem |-> c.sem, out |-> TimeOutState(sched, c.ticks),
                until |-> Wrap(sched.tick + c.ticks), inherited |-> FALSE, expired |-> FALSE])
    /\ UNCHANGED lastWake

SemaphoreTakeAgain(t) ==
    /\ At(t, "take")
    /\ Take(t, call[t])
    /\ UNCHANGED lastWake

\* xQueueTakeMutexRecursive by the holder
TakeMutexRecursive(t, c) ==
    /\ Calls(t, c, "take") /\ Kind[c.sem] = "recursive" /\ semaphore[c.sem].holder = t
    /\ semaphore[c.sem].calls < MaxTimes
    /\ semaphore' = [semaphore EXCEPT ![c.sem].calls = @ + 1]
    /\ UNCHANGED <<sched, call, lastWake>>

TakeSuspends(t) ==
    /\ At(t, "takeWaits")
    /\ sched' = SuspendAll(sched)
    /\ Goto(t, [call[t] EXCEPT !.pc = "takeLock"])
    /\ UNCHANGED <<semaphore, lastWake>>

\* prvLockQueue, xTaskCheckForTimeOut
TakeLocks(t) ==
    LET w == call[t]
    IN  /\ At(t, "takeLock")
        /\ semaphore' = [semaphore EXCEPT ![w.sem].lock =
                           IF @ = queueUNLOCKED THEN queueLOCKED_UNMODIFIED ELSE @]
        /\ Goto(t, [w EXCEPT !.expired = TimedOut(sched, w.out), !.out = TicksLeft(sched, @),
                             !.pc = IF TimedOut(sched, w.out) THEN "takeUnlock" ELSE "takeTest"])
        /\ UNCHANGED <<sched, lastWake>>

\* prvIsQueueEmpty; xTaskPriorityInherit; vTaskPlaceOnEventList
TakePlaces(t) ==
    LET w == call[t]
        m == semaphore[w.sem]
    IN  /\ At(t, "takeTest")
        /\ IF m.count > 0 THEN UNCHANGED sched /\ Goto(t, [w EXCEPT !.pc = "takeUnlock"])
           ELSE /\ sched' = PlaceOnEventList(IF IsMutex(w.sem) THEN Inherit(sched, m.holder) ELSE sched,
                                             w.sem, w.out.ticks)
                /\ Goto(t, [w EXCEPT !.pc = "takeUnlockYield",
                                     !.inherited = IsMutex(w.sem) /\ InheritanceOccurred(sched, m.holder)])
        /\ UNCHANGED <<semaphore, lastWake>>

\* prvUnlockQueue
Unlocked(s, q, lock) ==
    LET n == Max({0, Min({lock, Len(s.events[q])})})
        paid[i \in 0 .. n] == IF i = 0 THEN s ELSE RemoveFromEventList(paid[i - 1], q)
    IN  paid[n]

TakeUnlocks(t) ==
    LET w == call[t]
    IN  /\ t = sched.current /\ w.pc \in {"takeUnlock", "takeUnlockYield"}
        /\ sched' = Unlocked(sched, w.sem, semaphore[w.sem].lock)
        /\ semaphore' = [semaphore EXCEPT ![w.sem].lock = queueUNLOCKED]
        /\ Goto(t, [pc |-> "resume", yields |-> w.pc = "takeUnlockYield",
                    then |-> [w EXCEPT !.pc = IF w.expired THEN "takeExpired" ELSE "take"]])
        /\ UNCHANGED lastWake

\* Its time is over; a semaphore that is there after all is tried for.
TakeExpires(t) ==
    LET w == call[t]
    IN  /\ At(t, "takeExpired")
        /\ Goto(t, IF semaphore[w.sem].count > 0 THEN [w EXCEPT !.pc = "take"]
                   ELSE IF w.inherited THEN [w EXCEPT !.pc = "takeDisinherits"] ELSE Run)
        /\ UNCHANGED <<sched, semaphore, lastWake>>

TakeDisinherits(t) ==
    LET q == call[t].sem
    IN  /\ At(t, "takeDisinherits")
        /\ sched' = DisinheritAfterTimeout(sched, semaphore[q].holder, DisinheritPriorityAfterTimeout(sched, q))
        /\ Goto(t, Run)
        /\ UNCHANGED <<semaphore, lastWake>>

-----------------------------------------------------------------------------
(***************************************************************************)
(* xQueueGenericSend of no item and no wait, xQueueGiveMutexRecursive,     *)
(* and what interrupts do: xQueueGiveFromISR, xQueueReceiveFromISR.        *)
(***************************************************************************)
SemaphoreGive(t, c) ==
    LET q == c.sem
        m == semaphore[q]
        s == IF IsMutex(q) THEN Disinherit(sched) ELSE sched
    IN  /\ Calls(t, c, "give") /\ m.count < MaxCount[q] /\ m.calls <= 1 /\ ~m.inSet
        /\ IsMutex(q) => m.holder = t
        /\ semaphore' = [semaphore EXCEPT ![q].count = @ + 1, ![q].holder = Nobody, ![q].calls = 0]
        /\ sched' \in IF s.events[q] # << >>
                        THEN SwitchIf(HeadPreempts(s, q), RemoveFromEventList(s, q))
                        ELSE SwitchIf(IsMutex(q) /\ Disinherited(sched), s)
        /\ UNCHANGED <<call, lastWake>>

GiveMutexRecursive(t, c) ==
    /\ Calls(t, c, "give") /\ semaphore[c.sem].holder = t /\ semaphore[c.sem].calls > 1
    /\ semaphore' = [semaphore EXCEPT ![c.sem].calls = @ - 1]
    /\ UNCHANGED <<sched, call, lastWake>>

GiveFromISR(c) ==
    LET q == c.sem
        m == semaphore[q]
    IN  /\ c.op = "give" /\ m.count < MaxCount[q] /\ m.lock < MaxTimes /\ ~m.inSet
        /\ IF m.lock = queueUNLOCKED
             THEN /\ semaphore' = [semaphore EXCEPT ![q].count = @ + 1]
                  /\ sched' \in IF sched.events[q] = << >> THEN {sched}
                                ELSE SwitchIf(HeadPreempts(sched, q), RemoveFromEventList(sched, q))
             ELSE /\ semaphore' = [semaphore EXCEPT ![q].count = @ + 1, ![q].lock = @ + 1]
                  /\ UNCHANGED sched
        /\ UNCHANGED <<call, lastWake>>

TakeFromISR(c) ==
    /\ c.op = "take" /\ semaphore[c.sem].count > 0
    /\ semaphore' = [semaphore EXCEPT ![c.sem].count = @ - 1]
    /\ UNCHANGED <<sched, call, lastWake>>

SemaphoresStep(t) ==
    \/ SemaphoreTakeAgain(t) \/ TakeSuspends(t) \/ TakeLocks(t) \/ TakePlaces(t)
    \/ TakeUnlocks(t) \/ TakeExpires(t) \/ TakeDisinherits(t)
    \/ \E c \in program.calls[t] :
         \/ SemaphoreTake(t, c) \/ TakeMutexRecursive(t, c)
         \/ SemaphoreGive(t, c) \/ GiveMutexRecursive(t, c)

SemaphoresNext ==
    \/ \E t \in Task : SemaphoresStep(t)
    \/ \E c \in program.isr : GiveFromISR(c) \/ TakeFromISR(c)

-----------------------------------------------------------------------------
(***************************************************************************)
(* The holder of a mutex runs at least at the priority of every task that  *)
(* waits for it, also after one of them gave up, and a task that holds     *)
(* none runs at its own (xTaskPriorityInherit, xTaskPriorityDisinherit,    *)
(* vTaskPriorityDisinheritAfterTimeout) - unless the holder's own priority *)
(* is set below that of a task that waits: vTaskPrioritySet lowers it all  *)
(* the same (tasks.c:1618), and the programs do not do that.               *)
(***************************************************************************)
PriorityInherited ==
    /\ \A q \in {r \in Semaphore : semaphore[r].holder # Nobody} :
         \A w \in Range(sched.events[q]) : sched.prio[semaphore[q].holder] >= sched.base[w]
    /\ \A t \in Task :
         /\ sched.held[t] = Cardinality({q \in Semaphore : semaphore[q].holder = t})
         /\ sched.held[t] = 0 => sched.prio[t] = sched.base[t]

(***************************************************************************)
(* While tasks wait for a semaphore, as many others are on their way to    *)
(* take it as it could be taken, the wakeups its lock owes included        *)
(* (xQueueGiveFromISR, prvUnlockQueue, the last look of a take whose time  *)
(* is over).                                                               *)
(***************************************************************************)
Taking(q) == {t \in Task : "sem" \in DOMAIN Doing(t) /\ Doing(t).sem = q}

NoTakerForgotten ==
    \A q \in Semaphore :
        LET waiting == Range(sched.events[q])
        IN  waiting # {} => semaphore[q].count <= Cardinality(Taking(q) \ waiting)
                                                  + Max({0, semaphore[q].lock})
=============================================================================
