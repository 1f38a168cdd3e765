------------------------------- MODULE Tasks -------------------------------
(***************************************************************************)
(* The scheduler (kernel/FreeRTOS/tasks.c): the lists tasks are in, the    *)
(* tick, delays, suspension, priorities, deletion and notifications.       *)
(*                                                                         *)
(* One processor runs the current task.  What a critical section does is   *)
(* one step; the tick and the other interrupts come between any two steps, *)
(* also while the scheduler is suspended.  A section that has suspended    *)
(* the scheduler is one step up to xTaskResumeAll when no interrupt can    *)
(* tell the difference: interrupts then only count ticks and append to the *)
(* pending ready list.                                                     *)
(*                                                                         *)
(* The state of the scheduler is one record, and what the kernel does to   *)
(* it are operators on it, so that a call that makes several of them in    *)
(* one critical section is their composition:                              *)
(*   ready, delayed, overflow, suspended, terminating   the lists of state *)
(*        items: pxReadyTasksLists, pxDelayedTaskList, ...                 *)
(*   events, pending     the lists of event items: each object's, and      *)
(*        xPendingReadyList                                                *)
(*   wake, item, flags   the value of a task's state item, and of its      *)
(*        event item: a priority turned round, or bits to wait for         *)
(*   current, prio, base, held, notify, value   pxCurrentTCB, and of each  *)
(*        TCB uxPriority, uxBasePriority, uxMutexesHeld, ucNotifyState,    *)
(*        ulNotifiedValue                                                  *)
(*   nesting, pended, yield, top, tick, overflows, next                    *)
(*        uxSchedulerSuspended, uxPendedTicks, xYieldPending,              *)
(*        uxTopReadyPriority, xTickCount, xNumOfOverflows,                 *)
(*        xNextTaskUnblockTime                                             *)
(* A ready list is a set: the next of the highest one may be any of it,    *)
(* which covers its round robin.                                           *)
(*                                                                         *)
(* Definitions with a suffix (SwitchDelayedListsKeepsNext, ...) are        *)
(* mistakes, kept to show which property sees them.                        *)
(***************************************************************************)
EXTENDS Integers, Sequences, FiniteSets, SequencesExt, FiniteSetsExt

CONSTANTS Task, Idle,          \* the idle task is one of them
          configMAX_PRIORITIES,
          EventList,           \* the event lists of the objects
          portMAX_DELAY,       \* the greatest TickType_t
          configINITIAL_TICK_COUNT,
          MaxValue,            \* bound: what a notification value counts to
          Programs             \* what the tasks and the interrupts do, and
                               \* a bound on the ticks that come meanwhile

Priority == 0 .. configMAX_PRIORITIES - 1
Ticks == portMAX_DELAY + 1

ASSUME TasksAssumption ==
    /\ Idle \in Task /\ IsFiniteSet(Task)
    /\ configMAX_PRIORITIES \in Nat \ {0} /\ portMAX_DELAY \in Nat \ {0}
    /\ configINITIAL_TICK_COUNT \in 0 .. portMAX_DELAY
    /\ \A p \in Programs : /\ p.prio \in [Task -> Priority] /\ p.prio[Idle] = 0
                           /\ p.ticks \in 0 .. portMAX_DELAY

VARIABLES sched,
          call,       \* where each task is in its call
          lastWake,   \* what each task passes to vTaskDelayUntil
          program

tasksVars == <<sched, call, lastWake, program>>

\* TickType_t
Wrap(n) == n % Ticks

Run == [pc |-> "run"]

\* prvInitialiseNewTask, prvInitialiseTaskLists; the scheduler has started.
TasksInit ==
    /\ program \in Programs
    /\ \E first \in {t \in program.started : \A u \in program.started : program.prio[t] >= program.prio[u]} :
        sched = [ready |-> [p \in Priority |-> {t \in program.started : program.prio[t] = p}],
                 delayed |-> {}, overflow |-> {}, suspended |-> {}, terminating |-> {},
                 pending |-> << >>, events |-> [l \in EventList |-> << >>],
                 wake |-> [t \in Task |-> 0],
                 item |-> [t \in Task |-> configMAX_PRIORITIES - program.prio[t]],
                 flags |-> [t \in Task |-> {}],
                 prio |-> program.prio, base |-> program.prio,
                 held |-> [t \in Task |-> 0],
                 notify |-> [t \in Task |-> "NOT_WAITING"], value |-> [t \in Task |-> 0],
                 current |-> first, nesting |-> 0, pended |-> 0, yield |-> FALSE,
                 top |-> program.prio[first], tick |-> configINITIAL_TICK_COUNT,
                 overflows |-> 0, next |-> portMAX_DELAY]
    /\ call = [t \in Task |-> Run]
    /\ lastWake = [t \in Task |-> configINITIAL_TICK_COUNT]

-----------------------------------------------------------------------------
(***************************************************************************)
(* Lists.                                                                  *)
(***************************************************************************)

\* uxListRemove of the state items.  A value that no list is sorted by is 0.
Unlist(s, ts) ==
    [s EXCEPT !.ready = [p \in Priority |-> @[p] \ ts],
              !.delayed = @ \ ts, !.overflow = @ \ ts,
              !.suspended = @ \ ts, !.terminating = @ \ ts,
              !.wake = [t \in Task |-> IF t \in ts THEN 0 ELSE @[t]]]

\* What is left of a list without some, in its order.
Others(list, ts) ==
    LET left[i \in 0 .. Len(list)] ==
          IF i = 0 THEN << >>
          ELSE IF list[i] \in ts THEN left[i - 1] ELSE Append(left[i - 1], list[i])
    IN  left[Len(list)]

\* uxListRemove of the event items, whichever lists hold them.
Detach(s, ts) ==
    [s EXCEPT !.events = [l \in EventList |-> Others(@[l], ts)],
              !.pending = Others(@, ts)]

Attached(s, t) ==
    \/ t \in Range(s.pending)
    \/ \E l \in EventList : t \in Range(s.events[l])

\* prvAddTaskToReadyList, after the tasks have left the lists they were in.
MakeReady(s, ts) ==
    LET u == Unlist(s, ts)
    IN  [u EXCEPT !.ready = [p \in Priority |-> @[p] \cup {t \in ts : s.prio[t] = p}],
                  !.top = Max({@} \cup {s.prio[t] : t \in ts})]

\* vListInsert: before the first item of a greater value.
InsertByItem(s, list, t) ==
    LET later == {i \in DOMAIN list : s.item[list[i]] > s.item[t]}
    IN  InsertAt(list, IF later = {} THEN Len(list) + 1 ELSE Min(later), t)

InUse(s, t) == s.flags[t] # {}

SetItem(s, t, p) ==
    IF InUse(s, t) THEN s ELSE [s EXCEPT !.item[t] = configMAX_PRIORITIES - p]

\* prvResetNextTaskUnblockTime
ResetNext(s) ==
    [s EXCEPT !.next = IF s.delayed = {} THEN portMAX_DELAY
                       ELSE Min({s.wake[t] : t \in s.delayed})]

-----------------------------------------------------------------------------
(***************************************************************************)
(* Time.                                                                   *)
(***************************************************************************)

DelayCurrentInOneList(s, ticks, canBlockIndefinitely) ==
    LET t == s.current
        u == Unlist(s, {t})
        w == Wrap(s.tick + ticks)
    IN  IF ticks = portMAX_DELAY /\ canBlockIndefinitely
          THEN [u EXCEPT !.suspended = @ \cup {t}]
          ELSE [u EXCEPT !.wake[t] = w, !.delayed = @ \cup {t},
                         !.next = IF w < @ THEN w ELSE @]

\* prvAddCurrentTaskToDelayedList
DelayCurrent(s, ticks, canBlockIndefinitely) ==
    LET t == s.current
        u == Unlist(s, {t})
        w == Wrap(s.tick + ticks)
    IN  IF ticks = portMAX_DELAY /\ canBlockIndefinitely
          THEN [u EXCEPT !.suspended = @ \cup {t}]
        ELSE IF w < s.tick
          THEN [u EXCEPT !.wake[t] = w, !.overflow = @ \cup {t}]
          ELSE [u EXCEPT !.wake[t] = w, !.delayed = @ \cup {t},
                         !.next = IF w < @ THEN w ELSE @]

SwitchDelayedListsKeepsNext(s) ==
    [s EXCEPT !.delayed = s.overflow, !.overflow = s.delayed, !.overflows = @ + 1]

\* taskSWITCH_DELAYED_LISTS
SwitchDelayedLists(s) ==
    ResetNext([s EXCEPT !.delayed = s.overflow, !.overflow = s.delayed, !.overflows = @ + 1])

Due(s) == {t \in s.delayed : s.wake[t] <= s.tick}

\* All that are due are taken out of the lists of both their items.
WakeDue(s) ==
    IF s.tick >= s.next THEN ResetNext(MakeReady(Detach(s, Due(s)), Due(s))) ELSE s

\* xTaskIncrementTick while the scheduler is not suspended.
Advance(s) ==
    LET now == [s EXCEPT !.tick = Wrap(@ + 1)]
    IN  WakeDue(IF now.tick = 0 THEN SwitchDelayedLists(now) ELSE now)

SwitchRequiredByOthers(s) ==
    LET now == Advance(s)
    IN  Cardinality(now.ready[now.prio[now.current]]) > 1 \/ now.yield

\* What it returns: whether a switch is required.
SwitchRequired(s) ==
    LET now == Advance(s)
        woken == (s.delayed \cup s.overflow) \ (now.delayed \cup now.overflow)
    IN  \/ \E t \in woken : now.prio[t] >= now.prio[now.current]
        \/ Cardinality(now.ready[now.prio[now.current]]) > 1
        \/ now.yield

\* vTaskSetTimeOutState, and xTaskCheckForTimeOut with the ticks that remain.
TimeOutState(s, ticks) == [overflows |-> s.overflows, since |-> s.tick, ticks |-> ticks]

TimedOut(s, out) ==
    /\ out.ticks # portMAX_DELAY
    /\ \/ s.overflows # out.overflows /\ s.tick >= out.since
       \/ Wrap(s.tick - out.since) >= out.ticks

TicksLeftAll(s, out) == IF TimedOut(s, out) THEN [out EXCEPT !.ticks = 0] ELSE out

TicksLeft(s, out) ==
    LET elapsed == Wrap(s.tick - out.since)
    IN  IF out.ticks = portMAX_DELAY \/ (s.overflows # out.overflows /\ s.tick >= out.since) THEN out
        ELSE IF elapsed < out.ticks THEN TimeOutState(s, out.ticks - elapsed)
        ELSE [out EXCEPT !.ticks = 0]

-----------------------------------------------------------------------------
(***************************************************************************)
(* Switching, and suspending the scheduler.                                *)
(***************************************************************************)

\* vTaskSwitchContext: any task of the highest ready list that is not empty.
Switch(s) ==
    IF s.nesting > 0 THEN {[s EXCEPT !.yield = TRUE]}
    ELSE LET highest == Max({p \in 0 .. s.top : s.ready[p] # {}})
         IN  {[s EXCEPT !.yield = FALSE, !.top = highest, !.current = t] : t \in s.ready[highest]}

SwitchIf(required, s) == IF required THEN Switch(s) ELSE {s}

SuspendAll(s) == [s EXCEPT !.nesting = @ + 1]

\* The pending ready list is emptied into the ready lists ...
MovePending(s) ==
    LET moved == MakeReady(Detach(s, Range(s.pending)), Range(s.pending))
        preempt == \E t \in Range(s.pending) : s.prio[t] >= s.prio[s.current]
    IN  IF s.pending = << >> THEN s
        ELSE ResetNext([moved EXCEPT !.yield = @ \/ preempt])

\* ... and the ticks that came in the meantime are made up for.
AnotherTick(s) == [Advance(s) EXCEPT !.yield = SwitchRequired(s)]

MakeUpTicks(s) ==
    LET after[i \in 0 .. s.pended] == IF i = 0 THEN s ELSE AnotherTick(after[i - 1])
    IN  [after[s.pended] EXCEPT !.pended = 0]

\* xTaskResumeAll, up to the switch, and whether it makes one.
Resumed(s) ==
    LET u == [s EXCEPT !.nesting = @ - 1]
    IN  IF u.nesting > 0 THEN u ELSE MakeUpTicks(MovePending(u))

AlreadyYielded(s) == Resumed(s).nesting = 0 /\ Resumed(s).yield

ResumeAll(s) == SwitchIf(AlreadyYielded(s), Resumed(s))

-----------------------------------------------------------------------------
(***************************************************************************)
(* Event lists.                                                            *)
(***************************************************************************)

\* vTaskPlaceOnEventList, vTaskPlaceOnUnorderedEventList,
\* vTaskPlaceOnEventListRestricted
PlaceOnEventList(s, l, ticks) ==
    DelayCurrent([s EXCEPT !.events[l] = InsertByItem(s, @, s.current)], ticks, TRUE)

PlaceOnUnorderedEventList(s, l, flags, ticks) ==
    DelayCurrent([s EXCEPT !.events[l] = Append(@, s.current),
                           !.flags[s.current] = flags, !.item[s.current] = 0],
                 ticks, TRUE)

PlaceOnEventListRestricted(s, l, ticks, indefinitely) ==
    DelayCurrent([s EXCEPT !.events[l] = Append(@, s.current)],
                 IF indefinitely THEN portMAX_DELAY ELSE ticks, indefinitely)

\* A task whose wait is over is made ready, or pending.
Unblock(s, t) ==
    LET u == IF s.nesting = 0 THEN ResetNext(MakeReady(s, {t}))
             ELSE [s EXCEPT !.pending = Append(@, t)]
    IN  IF s.prio[t] > s.prio[s.current] THEN [u EXCEPT !.yield = TRUE] ELSE u

\* xTaskRemoveFromEventList of a list that is not empty, and what it returns.
RemoveFromEventList(s, l) ==
    LET t == Head(s.events[l])
    IN  Unblock([s EXCEPT !.events[l] = Tail(@)], t)

HeadPreempts(s, l) == s.prio[Head(s.events[l])] > s.prio[s.current]

\* vTaskRemoveFromUnorderedEventList, with the scheduler suspended.
RemoveFromUnorderedEventList(s, t, flags) ==
    LET u == MakeReady(Detach([s EXCEPT !.flags[t] = flags], {t}), {t})
    IN  IF s.prio[t] > s.prio[s.current] THEN [u EXCEPT !.yield = TRUE] ELSE u

\* uxTaskResetEventItemValue
ResetEventItemValue(s) ==
    [s EXCEPT !.item[s.current] = configMAX_PRIORITIES - s.prio[s.current],
              !.flags[s.current] = {}]

-----------------------------------------------------------------------------
(***************************************************************************)
(* Notifications.                                                          *)
(***************************************************************************)

\* The switch over eAction; eSetBits sets the lowest bit.
Notified(s, t, action, v) ==
    [s EXCEPT !.notify[t] = "RECEIVED",
              !.value[t] = CASE action = "eIncrement" -> @ + 1
                             [] action = "eNoAction" -> @
                             [] action = "eSetBits" -> @ + 1 - (@ % 2)
                             [] action = "eSetValueWithOverwrite" -> v
                             [] action = "eSetValueWithoutOverwrite" ->
                                  IF s.notify[t] = "RECEIVED" THEN @ ELSE v]

\* xTaskGenericNotify, up to the switch.
Notify(s, t, action, v) ==
    LET u == Notified(s, t, action, v)
    IN  IF s.notify[t] = "WAITING" THEN ResetNext(MakeReady(u, {t})) ELSE u

NotifyPreempts(s, t) == s.notify[t] = "WAITING" /\ s.prio[t] > s.prio[s.current]

\* xTaskGenericNotifyFromISR, vTaskNotifyGiveFromISR
NotifyFromISR(s, t, action, v) ==
    LET u == Notified(s, t, action, v)
        w == IF s.nesting = 0 THEN MakeReady(u, {t}) ELSE [u EXCEPT !.pending = Append(@, t)]
    IN  IF s.notify[t] = "WAITING"
          THEN [w EXCEPT !.yield = @ \/ NotifyPreempts(s, t)]
          ELSE u

-----------------------------------------------------------------------------
(***************************************************************************)
(* The current task makes one of its calls, and goes on with it.           *)
(***************************************************************************)
Calls(t, c, op) ==
    /\ t = sched.current /\ call[t].pc = "run"
    /\ c \in program.calls[t] /\ c.op = op

At(t, pc) == t = sched.current /\ call[t].pc = pc

Goto(t, where) == call' = [call EXCEPT ![t] = where]

\* What a call that has suspended the scheduler does at last.
ToResume(then) == [pc |-> "resume", yields |-> TRUE, then |-> then]
ToYield(then) == [pc |-> "yield", then |-> then]

\* The call a task is in, also while that resumes the scheduler, yields or
\* waits for a notification.
Doing(t) == IF "then" \in DOMAIN call[t] THEN call[t].then ELSE call[t]

\* A handle may be used while its task exists.
Exists(t) ==
    t \in sched.delayed \cup sched.overflow \cup sched.suspended \cup UNION Range(sched.ready)

Yield(t) ==
    /\ At(t, "yield")
    /\ sched' \in Switch(sched)
    /\ Goto(t, call[t].then)
    /\ UNCHANGED lastWake

\* xTaskResumeAll; if (xAlreadyYielded == pdFALSE) portYIELD_WITHIN_API();
Resume(t) ==
    /\ At(t, "resume")
    /\ sched' \in ResumeAll(sched)
    /\ Goto(t, IF call[t].yields /\ ~AlreadyYielded(sched) THEN ToYield(call[t].then) ELSE call[t].then)
    /\ UNCHANGED lastWake

\* taskYIELD
TaskYield(t, c) ==
    /\ Calls(t, c, "yield")
    /\ sched' \in Switch(sched)
    /\ UNCHANGED <<call, lastWake>>

\* vTaskSuspendAll and xTaskResumeAll as calls of the application.
CallSuspendAll(t, c) ==
    /\ Calls(t, c, "suspendAll") /\ sched.nesting = 0
    /\ sched' = SuspendAll(sched)
    /\ UNCHANGED <<call, lastWake>>

CallResumeAll(t, c) ==
    /\ Calls(t, c, "suspendAll") /\ sched.nesting > 0
    /\ sched' \in ResumeAll(sched)
    /\ UNCHANGED <<call, lastWake>>

\* vTaskDelay
Delay(t, c) ==
    /\ Calls(t, c, "delay") /\ sched.nesting = 0
    /\ IF c.ticks > 0
         THEN /\ sched' = DelayCurrent(SuspendAll(sched), c.ticks, FALSE)
              /\ Goto(t, ToResume(Run))
         ELSE sched' \in Switch(sched) /\ UNCHANGED call
    /\ UNCHANGED lastWake

\* Whether vTaskDelayUntil has to wait at all.
ShouldDelay(now, last, due) ==
    IF now < last THEN due < last /\ due > now
                  ELSE due < last \/ due > now

\* vTaskDelayUntil
DelayUntil(t, c) ==
    LET due == Wrap(lastWake[t] + c.ticks)
        ready == SuspendAll(sched)
    IN  /\ Calls(t, c, "delayUntil") /\ sched.nesting = 0
        /\ sched' = IF ShouldDelay(sched.tick, lastWake[t], due)
                      THEN DelayCurrent(ready, Wrap(due - sched.tick), FALSE) ELSE ready
        /\ lastWake' = [lastWake EXCEPT ![t] = due]
        /\ Goto(t, ToResume([pc |-> "run", until |-> due]))

\* vTaskSuspend: the task leaves its lists in one critical section, and the
\* time to wake the next one is found in another.
Suspend(t, c) ==
    LET u == Detach(Unlist(sched, {c.task}), {c.task})
    IN  /\ Calls(t, c, "suspend") /\ Exists(c.task)
        /\ c.task = t => sched.nesting = 0
        /\ sched' = [u EXCEPT !.suspended = @ \cup {c.task},
                              !.notify[c.task] = IF @ = "WAITING" THEN "NOT_WAITING" ELSE @]
        /\ Goto(t, [pc |-> "suspended", task |-> c.task])
        /\ UNCHANGED lastWake

SuspendEnds(t) ==
    /\ At(t, "suspended")
    /\ sched' = ResetNext(sched)
    /\ Goto(t, IF call[t].task = t THEN ToYield(Run) ELSE Run)
    /\ UNCHANGED lastWake

\* prvTaskIsTaskSuspended
TaskIsTaskSuspended(s, t) == t \in s.suspended /\ ~Attached(s, t)

\* vTaskResume
TaskResume(t, c) ==
    /\ Calls(t, c, "resume") /\ Exists(c.task) /\ c.task # t
    /\ sched' \in IF TaskIsTaskSuspended(sched, c.task)
                    THEN SwitchIf(sched.prio[c.task] >= sched.prio[t], MakeReady(sched, {c.task}))
                    ELSE {sched}
    /\ UNCHANGED <<call, lastWake>>

\* vTaskPrioritySet
PrioritySet(t, c) ==
    LET x == c.task
        s == sched
        yieldRequired == IF c.prio > s.base[x] THEN x # t /\ c.prio >= s.prio[t] ELSE x = t
        changed == SetItem([s EXCEPT !.prio[x] = IF s.base[x] = @ THEN c.prio ELSE @,
                                     !.base[x] = c.prio], x, c.prio)
    IN  /\ Calls(t, c, "prioritySet") /\ Exists(x) /\ c.prio # s.base[x]
        /\ sched' \in SwitchIf(yieldRequired,
                               IF x \in s.ready[s.prio[x]] THEN MakeReady(changed, {x}) ELSE changed)
        /\ UNCHANGED <<call, lastWake>>

\* xTaskCreate: prvInitialiseNewTask, and the critical section of
\* prvAddNewTaskToReadyList.
Create(t, c) ==
    LET x == c.task
        new == [sched EXCEPT !.prio[x] = c.prio, !.base[x] = c.prio, !.held[x] = 0,
                             !.item[x] = configMAX_PRIORITIES - c.prio, !.flags[x] = {},
                             !.notify[x] = "NOT_WAITING", !.value[x] = 0]
    IN  /\ Calls(t, c, "create") /\ ~Exists(x) /\ x \notin sched.terminating
        /\ sched' = MakeReady(new, {x})
        /\ call' = [call EXCEPT ![x] = Run, ![t] = [pc |-> "created", task |-> x]]
        /\ lastWake' = [lastWake EXCEPT ![x] = sched.tick]

\* The switch to the new task comes after it.
CreateEnds(t) ==
    /\ At(t, "created")
    /\ sched' \in SwitchIf(sched.prio[t] < sched.prio[call[t].task], sched)
    /\ Goto(t, Run)
    /\ UNCHANGED lastWake

(***************************************************************************)
(* vTaskDelete.  A task that deletes itself waits for the idle task, which *)
(* frees it (prvCheckTasksWaitingTermination).                             *)
(***************************************************************************)
Delete(t, c) ==
    LET u == Detach(Unlist(sched, {c.task}), {c.task})
    IN  /\ Calls(t, c, "delete") /\ Exists(c.task) /\ sched.held[c.task] = 0
        /\ c.task = t => sched.nesting = 0
        /\ sched' = ResetNext(IF c.task = t THEN [u EXCEPT !.terminating = @ \cup {t}] ELSE u)
        /\ Goto(t, IF c.task = t THEN ToYield(Run) ELSE Run)
        /\ UNCHANGED lastWake

CheckTasksWaitingTermination ==
    /\ At(Idle, "run")
    /\ \E t \in sched.terminating : sched' = Unlist(sched, {t})
    /\ UNCHANGED <<call, lastWake>>

\* prvGetExpectedIdleTime, when the idle task asks.
ExpectedIdleTime ==
    IF Cardinality(sched.ready[0]) > 1 \/ \E p \in Priority \ {0} : sched.ready[p] # {}
      THEN 0 ELSE sched.next - sched.tick

\* The rest of prvIdleTask: the port does nothing to suppress ticks.
IdleLoops ==
    /\ At(Idle, "run") /\ sched.terminating = {}
    /\ IF ExpectedIdleTime >= 2
         THEN sched' = SuspendAll(sched) /\ Goto(Idle, [pc |-> "resume", yields |-> FALSE, then |-> Run])
         ELSE UNCHANGED <<sched, call>>
    /\ UNCHANGED lastWake

(***************************************************************************)
(* ulTaskNotifyTake and xTaskNotifyWait: one critical section before the   *)
(* wait, one after it.  xTaskNotifyWait goes on to "then".                 *)
(***************************************************************************)
Waiting(s, ticks) ==
    LET u == [s EXCEPT !.notify[s.current] = "WAITING"]
    IN  IF ticks > 0 THEN Switch(DelayCurrent(u, ticks, TRUE)) ELSE {u}

NotifyTake(t, c) ==
    /\ Calls(t, c, "notifyTake") /\ sched.nesting = 0
    /\ sched' \in IF sched.value[t] = 0 THEN Waiting(sched, c.ticks) ELSE {sched}
    /\ Goto(t, [pc |-> "notified", take |-> TRUE, clear |-> c.clear, then |-> Run])
    /\ UNCHANGED lastWake

\* xTaskNotifyWait clears all bits on entry, on exit, or none.
WaitForNotification(s, ticks, clearOnEntry) ==
    IF s.notify[s.current] = "RECEIVED" THEN {s}
    ELSE Waiting([s EXCEPT !.value[s.current] = IF clearOnEntry THEN 0 ELSE @], ticks)

NotifyWaitGoes(clearOnExit, then) ==
    [pc |-> "notified", take |-> FALSE, clear |-> clearOnExit, then |-> then]

NotifyWait(t, c) ==
    /\ Calls(t, c, "notifyWait") /\ sched.nesting = 0
    /\ sched' \in WaitForNotification(sched, c.ticks, c.entry)
    /\ Goto(t, NotifyWaitGoes(c.exit, Run))
    /\ UNCHANGED lastWake

NotifyEnds(t) ==
    LET w == call[t]
        v == sched.value[t]
        left == IF w.take THEN (IF w.clear \/ v = 0 THEN 0 ELSE v - 1)
                ELSE IF w.clear /\ sched.notify[t] = "RECEIVED" THEN 0 ELSE v
    IN  /\ At(t, "notified")
        /\ sched' = [sched EXCEPT !.notify[t] = "NOT_WAITING", !.value[t] = left]
        /\ Goto(t, w.then)
        /\ UNCHANGED lastWake

NotifyStateClear(t, c) ==
    /\ Calls(t, c, "notifyStateClear") /\ Exists(c.task)
    /\ sched' = [sched EXCEPT !.notify[c.task] = IF @ = "RECEIVED" THEN "NOT_WAITING" ELSE @]
    /\ UNCHANGED <<call, lastWake>>

\* xTaskNotify, xTaskNotifyGive
GenericNotify(t, c) ==
    /\ Calls(t, c, "notify") /\ Exists(c.task)
    /\ c.action = "eIncrement" => sched.value[c.task] < MaxValue
    /\ sched' \in SwitchIf(NotifyPreempts(sched, c.task), Notify(sched, c.task, c.action, c.value))
    /\ UNCHANGED <<call, lastWake>>

TaskStep(t) ==
    \/ Yield(t) \/ Resume(t) \/ SuspendEnds(t) \/ CreateEnds(t) \/ NotifyEnds(t)
    \/ \E c \in program.calls[t] :
         \/ TaskYield(t, c) \/ CallSuspendAll(t, c) \/ CallResumeAll(t, c)
         \/ Delay(t, c) \/ DelayUntil(t, c) \/ Suspend(t, c) \/ TaskResume(t, c)
         \/ PrioritySet(t, c) \/ Create(t, c) \/ Delete(t, c)
         \/ NotifyTake(t, c) \/ NotifyWait(t, c) \/ GenericNotify(t, c) \/ NotifyStateClear(t, c)

-----------------------------------------------------------------------------
(***************************************************************************)
(* Interrupts.  One that a call tells to switch asks for it on its way out *)
(* (portYIELD_FROM_ISR).                                                   *)
(***************************************************************************)
Elapsed(s) == s.overflows * Ticks + s.tick - configINITIAL_TICK_COUNT

\* xPortSysTickHandler, xTaskIncrementTick
IncrementTick ==
    /\ Elapsed(sched) + sched.pended < program.ticks
    /\ sched' \in IF sched.nesting > 0
                    THEN SwitchIf(sched.yield, [sched EXCEPT !.pended = @ + 1])
                    ELSE SwitchIf(SwitchRequired(sched), Advance(sched))
    /\ UNCHANGED <<call, lastWake>>

InterruptNotifies(c) ==
    /\ c.op = "notify" /\ Exists(c.task)
    /\ c.action = "eIncrement" => sched.value[c.task] < MaxValue
    /\ sched' \in SwitchIf(NotifyPreempts(sched, c.task),
                           NotifyFromISR(sched, c.task, c.action, c.value))
    /\ UNCHANGED <<call, lastWake>>

\* xTaskResumeFromISR
ResumeFromISR(c) ==
    LET x == c.task
    IN  /\ c.op = "resume" /\ TaskIsTaskSuspended(sched, x)
        /\ sched' \in IF sched.nesting = 0
                        THEN SwitchIf(sched.prio[x] >= sched.prio[sched.current], MakeReady(sched, {x}))
                        ELSE {[sched EXCEPT !.pending = Append(@, x)]}
        /\ UNCHANGED <<call, lastWake>>

\* An interrupt of something else that asks for a switch.
InterruptYields(c) ==
    /\ c.op = "yield"
    /\ sched' \in Switch(sched)
    /\ UNCHANGED <<call, lastWake>>

Interrupt ==
    \/ IncrementTick
    \/ \E c \in program.isr : InterruptNotifies(c) \/ ResumeFromISR(c) \/ InterruptYields(c)

TasksNext ==
    /\ (\E t \in Task : TaskStep(t)) \/ CheckTasksWaitingTermination \/ IdleLoops \/ Interrupt
    /\ UNCHANGED program

-----------------------------------------------------------------------------
(***************************************************************************)
(* A task is in one list of state items and in at most one list of event   *)
(* items; ready ones are in the list of their priority; what waits for the *)
(* scheduler to go on does so only while it is suspended; every wake time  *)
(* is on the right side of the wrap; and the next one is not overlooked.   *)
(***************************************************************************)
ListsAgree ==
    LET s == sched
        Count(t) == Cardinality({p \in Priority : t \in s.ready[p]})
                    + Cardinality({l \in {s.delayed, s.overflow, s.suspended, s.terminating} : t \in l})
        Entries(t) == Cardinality({l \in EventList : t \in Range(s.events[l])})
                      + Cardinality({i \in DOMAIN s.pending : s.pending[i] = t})
    IN  /\ \A t \in Task : Count(t) <= 1 /\ Entries(t) <= 1
        /\ \A p \in Priority : \A t \in s.ready[p] : s.prio[t] = p
        /\ s.nesting = 0 => s.pending = << >> /\ s.pended = 0
        /\ \A t \in s.delayed : s.wake[t] > s.tick /\ s.next <= s.wake[t]
        /\ \A t \in s.overflow : s.wake[t] < s.tick
        /\ s.next >= s.tick

(***************************************************************************)
(* No ready task has a higher priority than the one that runs, but one the *)
(* latter has just created and is about to yield to; while the scheduler   *)
(* is suspended the switch to it is remembered (xYieldPending).            *)
(***************************************************************************)
Above == UNION {sched.ready[p] : p \in {q \in Priority : q > sched.prio[sched.current]}}

NewTask == IF call[sched.current].pc = "created" THEN {call[sched.current].task} ELSE {}

NoneAbove == Above \subseteq NewTask \/ (sched.nesting > 0 /\ sched.yield)

(***************************************************************************)
(* What the code does against the comment at tasks.c:4085-4092: a task     *)
(* gives its last mutex back, wakes a waiter, and falls to its own         *)
(* priority without a switch (queue.c:824).                                *)
(***************************************************************************)
FallsBack ==
    /\ sched'.current = sched.current
    /\ sched.held[sched.current] = 1 /\ sched'.held[sched.current] = 0
    /\ sched'.prio[sched.current] < sched.prio[sched.current]
    /\ \E l \in EventList : Len(sched'.events[l]) < Len(sched.events[l])

(***************************************************************************)
(* The running task is ready or about to give way, and no ready task is    *)
(* above it.  No step leaves one above it waiting, a give as in FallsBack  *)
(* excepted, and what that did ends with the next switch.                  *)
(***************************************************************************)
HighestRuns ==
    /\ [](sched.nesting = 0 => \/ sched.current \in sched.ready[sched.prio[sched.current]]
                               \/ call[sched.current].pc \in {"yield", "suspended"})
    /\ NoneAbove
    /\ [][NoneAbove' \/ FallsBack \/ (~NoneAbove /\ sched'.current = sched.current)]_<<sched, call>>

(***************************************************************************)
(* Delays and time-outs are kept to the tick.                              *)
(***************************************************************************)
Asleep == (sched.delayed \cup sched.overflow) \ Range(sched.pending)

TheAlarm == INSTANCE Alarm WITH
    Sleeper <- Task, now <- Elapsed(sched),
    left <- LET asleep == Asleep
            IN  [t \in Task |-> IF t \in asleep THEN Wrap(sched.wake[t] - sched.tick) ELSE 0]

IsAlarm == TheAlarm!Init /\ [][TheAlarm!Next]_TheAlarm!vars

(***************************************************************************)
(* A call that waits again, because what it was woken for was gone, waits  *)
(* for what is left of its time: it sleeps until the time it had to end by *)
(* when it was made (xTaskCheckForTimeOut).  A task that calls             *)
(* vTaskDelayUntil sleeps until its due time.  (A sender to a stream       *)
(* buffer has no such time: ticks between its check, stream_buffer.c:568,  *)
(* and the wait that follows, 565, are not counted.)                       *)
(***************************************************************************)
WaitEndsOnTime ==
    \A t \in Asleep :
        "until" \in DOMAIN Doing(t) => sched.wake[t] = Doing(t).until

(***************************************************************************)
(* A task sleeps in ulTaskNotifyTake only while its value is zero: no      *)
(* notification that was given to it is left lying.                        *)
(***************************************************************************)
NotificationsTaken ==
    \A t \in Task :
        /\ call[t].pc = "notified" /\ call[t].take /\ sched.notify[t] = "WAITING"
        /\ t \in Asleep \cup (sched.suspended \ Range(sched.pending))
        => sched.value[t] = 0
=============================================================================
