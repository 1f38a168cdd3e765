------------------------------- MODULE Timers -------------------------------
(***************************************************************************)
(* Software timers (kernel/FreeRTOS/timers.c): tasks and interrupts send   *)
(* commands to the timer daemon through a queue, and the daemon alone      *)
(* keeps the two lists of running timers, calls their callbacks and the    *)
(* functions that were pended.                                             *)
(*                                                                         *)
(* The daemon sleeps on its queue until the next timer is due.  It tells   *)
(* that the tick count has wrapped from the last time it looked, and may   *)
(* come late for timers and for commands: what is due already when it is   *)
(* put into a list is called at once, and an auto-reload timer goes on     *)
(* with a command that the daemon sends to itself.                         *)
(*                                                                         *)
(* Of the daemon: queue xTimerQueue, lock its cTxLock, current and         *)
(* overflow pxCurrentTimerList and pxOverflowTimerList, last xLastTime.    *)
(* Of a timer: value of its list item, period, reload and active of        *)
(* ucStatus; exists is "ending" between a call that deletes it and the     *)
(* daemon's doing so.  due is not in the code: when the timer has to be    *)
(* called next, counted from the start of the scheduler; early tells of a  *)
(* callback before that.                                                   *)
(*                                                                         *)
(* A list is a set: of timers that are due at one tick any is first.  A    *)
(* task that sends a command does not wait for a place in the queue; how   *)
(* a task waits for one is in Queue.                                       *)
(***************************************************************************)
EXTENDS EventGroup, Semaphores

CONSTANTS Timer, Daemon,
          xTimerQueue,                 \* the event list of the queue
          configTIMER_QUEUE_LENGTH

ASSUME TimersAssumption ==
    /\ Daemon \in Task \ {Idle} /\ xTimerQueue \in EventList
    /\ configTIMER_QUEUE_LENGTH \in Nat \ {0}
    /\ \A p \in Programs : p.calls[Daemon] = {}

VARIABLE timers

\* No time: nothing is due when the scheduler starts.
Never == 0

\* xTimerCreateTimerTask, prvCheckForValidListAndQueue; the program's timers
\* are created, and some started, before the scheduler.
TimersInit ==
    timers = [queue |-> program.commands, lock |-> queueUNLOCKED,
              current |-> {}, overflow |-> {}, last |-> 0,
              value |-> [x \in Timer |-> 0],
              period |-> [x \in Timer |-> program.timers[x].period],
              reload |-> [x \in Timer |-> program.timers[x].reload],
              active |-> [x \in Timer |-> FALSE], exists |-> [x \in Timer |-> "yes"],
              due |-> [x \in Timer |-> Never], early |-> FALSE]

-----------------------------------------------------------------------------
(***************************************************************************)
(* Commands.                                                               *)
(***************************************************************************)
\* xTimerStart and xTimerReset send the time they are called at; `at` is it
\* without the wrap.
Message(c) ==
    [id |-> c.id, timer |-> c.timer, at |-> Elapsed(sched),
     value |-> IF c.id = "START" THEN sched.tick ELSE c.value]

\* What the daemon sends to itself; nobody notices when there is no place.
StartAgain(ts, x, value) ==
    IF Len(ts.queue) = configTIMER_QUEUE_LENGTH THEN ts
    ELSE [ts EXCEPT !.queue = Append(@, [id |-> "START_DONT_TRACE", timer |-> x, at |-> 0, value |-> value])]

\* A pended function is a command without a timer.
Pended(id) == id \in {"SET_BITS", "CLEAR_BITS"}

Usable(c) == Pended(c.id) \/ timers.exists[c.timer] = "yes"

\* xTimerStart, xTimerReset, xTimerStop, xTimerChangePeriod, xTimerDelete,
\* xTimerPendFunctionCall.  A timer is not used once it is to be deleted.
TimerCommand(t, c) ==
    /\ Calls(t, c, "timer") /\ Usable(c)
    /\ IF c.id = "DELETE"
         THEN /\ \A u \in Task : call[u].pc = "timerSend" => call[u].message.timer # c.timer
              /\ timers' = [timers EXCEPT !.exists[c.timer] = "ending"]
         ELSE UNCHANGED timers
    /\ Goto(t, [pc |-> "timerSend", message |-> Message(c)])
    /\ UNCHANGED <<sched, lastWake, group>>

\* xTimerGenericCommand: xQueueSendToBack
TimerSends(t) ==
    /\ At(t, "timerSend")
    /\ IF Len(timers.queue) = configTIMER_QUEUE_LENGTH THEN UNCHANGED <<sched, timers>>
       ELSE /\ timers' = [timers EXCEPT !.queue = Append(@, call[t].message)]
            /\ sched' \in IF sched.events[xTimerQueue] = << >> THEN {sched}
                          ELSE SwitchIf(HeadPreempts(sched, xTimerQueue), RemoveFromEventList(sched, xTimerQueue))
    /\ Goto(t, Run)
    /\ UNCHANGED <<lastWake, group>>

\* xTimerStartFromISR, ..., xTimerPendFunctionCallFromISR
TimerFromISR(c) ==
    LET unlocked == timers.lock = queueUNLOCKED
    IN  /\ c.op = "timer" /\ Usable(c)
        /\ Len(timers.queue) < configTIMER_QUEUE_LENGTH /\ timers.lock < MaxTimes
        /\ timers' = [timers EXCEPT !.queue = Append(@, Message(c)), !.lock = IF unlocked THEN @ ELSE @ + 1]
        /\ sched' \in IF ~unlocked \/ sched.events[xTimerQueue] = << >> THEN {sched}
                      ELSE SwitchIf(HeadPreempts(sched, xTimerQueue), RemoveFromEventList(sched, xTimerQueue))
        /\ UNCHANGED <<call, lastWake, group>>

\* xTimerCreate
TimerCreate(t, c) ==
    /\ Calls(t, c, "timerCreate") /\ timers.exists[c.timer] = "no"
    /\ timers' = [timers EXCEPT !.exists[c.timer] = "yes", !.period[c.timer] = c.period,
                                !.reload[c.timer] = c.reload, !.active[c.timer] = FALSE]
    /\ UNCHANGED <<sched, call, lastWake, group>>

\* vTimerSetReloadMode
TimerSetReloadMode(t, c) ==
    /\ Calls(t, c, "timerReload") /\ timers.exists[c.timer] = "yes"
    /\ timers' = [timers EXCEPT !.reload[c.timer] = c.reload]
    /\ UNCHANGED <<sched, call, lastWake, group>>

-----------------------------------------------------------------------------
(***************************************************************************)
(* The lists, and the callbacks.                                           *)
(***************************************************************************)
Heads(ts) == {x \in ts.current : \A y \in ts.current : ts.value[x] <= ts.value[y]}

Stopped(ts, x) == [ts EXCEPT !.current = @ \ {x}, !.overflow = @ \ {x}]

\* pxCallbackFunction
CallBack(ts, x) ==
    LET due == ts.due[x]
    IN  [ts EXCEPT !.early = @ \/ due = Never \/ (due # Never /\ due > Elapsed(sched)),
                   !.due[x] = IF ts.reload[x] /\ due # Never THEN due + ts.period[x] ELSE Never]

ProcessNowBeforeWrap(ts, x, expiry, now, command) ==
    expiry <= now /\ Wrap(now - command) >= ts.period[x]

\* prvInsertTimerInActiveList: whether the timer is to be called now ...
ProcessNow(ts, x, expiry, now, command) ==
    IF expiry <= now THEN Wrap(now - command) >= ts.period[x]
                     ELSE now < command /\ expiry >= command

\* ... and the lists if it is not.
Insert(ts, x, expiry, now) ==
    IF expiry <= now THEN [ts EXCEPT !.value[x] = expiry, !.overflow = @ \cup {x}]
                     ELSE [ts EXCEPT !.value[x] = expiry, !.current = @ \cup {x}]

-----------------------------------------------------------------------------
(***************************************************************************)
(* The daemon (prvTimerTask).                                              *)
(***************************************************************************)
(***************************************************************************)
(* prvGetNextExpireTime, prvSampleTimeNow, prvProcessTimerOrBlockTask up   *)
(* to what it finds to do: the lists have to be switched; a timer is due;  *)
(* or the queue is locked, to wait.                                        *)
(***************************************************************************)
DaemonLooks ==
    LET now == sched.tick
        empty == timers.current = {}
        next == IF empty THEN 0 ELSE timers.value[CHOOSE x \in Heads(timers) : TRUE]
        resume == [pc |-> "resume", yields |-> FALSE, then |-> [pc |-> "timerCommands"]]
    IN  /\ At(Daemon, "run")
        /\ IF now < timers.last
             THEN /\ Goto(Daemon, [pc |-> "timerSwitch", after |-> resume])
                  /\ sched' = SuspendAll(sched)
                  /\ timers' = [timers EXCEPT !.last = now]
           ELSE IF ~empty /\ next <= now
             THEN /\ Goto(Daemon, [pc |-> "timerExpired", now |-> now])
                  /\ sched' \in ResumeAll(SuspendAll(sched))
                  /\ timers' = [timers EXCEPT !.last = now]
             ELSE /\ Goto(Daemon, [pc |-> "timerWait", ticks |-> Wrap(next - now),
                                   indefinitely |-> empty /\ timers.overflow = {}])
                  /\ sched' = SuspendAll(sched)
                  /\ timers' = [timers EXCEPT !.last = now, !.lock = queueLOCKED_UNMODIFIED]
        /\ UNCHANGED <<lastWake, group>>

\* vQueueWaitForMessageRestricted
DaemonWaits ==
    LET w == call[Daemon]
    IN  /\ At(Daemon, "timerWait")
        /\ sched' = IF timers.queue = << >>
                      THEN PlaceOnEventListRestricted(sched, xTimerQueue, w.ticks, w.indefinitely)
                      ELSE sched
        /\ Goto(Daemon, [pc |-> "timerUnlock"])
        /\ UNCHANGED <<lastWake, timers, group>>

DaemonUnlocks ==
    /\ At(Daemon, "timerUnlock")
    /\ sched' = Unlocked(sched, xTimerQueue, timers.lock)
    /\ timers' = [timers EXCEPT !.lock = queueUNLOCKED]
    /\ Goto(Daemon, ToResume([pc |-> "timerCommands"]))
    /\ UNCHANGED <<lastWake, group>>

\* prvProcessExpiredTimer
DaemonExpires ==
    LET now == call[Daemon].now
    IN  /\ At(Daemon, "timerExpired")
        /\ \E x \in Heads(timers) :
             LET at == timers.value[x]
                 next == Wrap(at + timers.period[x])
                 ts == CallBack(Stopped(timers, x), x)
             IN  timers' = IF ~timers.reload[x] THEN [ts EXCEPT !.active[x] = FALSE]
                           ELSE IF ProcessNow(ts, x, next, now, at) THEN StartAgain([ts EXCEPT !.value[x] = next], x, at)
                           ELSE Insert(ts, x, next, now)
        /\ Goto(Daemon, [pc |-> "timerCommands"])
        /\ UNCHANGED <<sched, lastWake, group>>

(***************************************************************************)
(* prvSwitchTimerLists: the timers of the current list are all due, some   *)
(* of them more than once; and then the lists change places.               *)
(***************************************************************************)
DaemonSwitches ==
    /\ At(Daemon, "timerSwitch")
    /\ IF timers.current = {}
         THEN /\ timers' = [timers EXCEPT !.current = timers.overflow, !.overflow = {}]
              /\ Goto(Daemon, call[Daemon].after)
         ELSE /\ \E x \in Heads(timers) :
                   LET at == timers.value[x]
                       next == Wrap(at + timers.period[x])
                       ts == CallBack(Stopped(timers, x), x)
                   IN  timers' = IF ~timers.reload[x] THEN ts
                                 ELSE IF next > at THEN [ts EXCEPT !.value[x] = next, !.current = @ \cup {x}]
                                 ELSE StartAgain(ts, x, at)
              /\ UNCHANGED call
    /\ UNCHANGED <<sched, lastWake, group>>

\* prvProcessReceivedCommands: the next command is taken ...
DaemonReceives ==
    /\ At(Daemon, "timerCommands")
    /\ IF timers.queue = << >> THEN Goto(Daemon, Run) /\ UNCHANGED timers
       ELSE /\ Goto(Daemon, [pc |-> "timerCommand", message |-> Head(timers.queue)])
            /\ timers' = [timers EXCEPT !.queue = Tail(@)]
    /\ UNCHANGED <<sched, lastWake, group>>

\* ... a pended function is called, which sets or clears bits of the group ...
DaemonCallsPended ==
    LET m == call[Daemon].message
        bits == group \cup m.value
    IN  /\ At(Daemon, "timerCommand") /\ Pended(m.id)
        /\ IF m.id = "SET_BITS"
             THEN /\ sched' = SetBits(SuspendAll(sched), bits)
                  /\ group' = BitsLeft(sched, bits)
                  /\ Goto(Daemon, [pc |-> "resume", yields |-> FALSE, then |-> [pc |-> "timerCommands"]])
             ELSE /\ group' = group \ m.value
                  /\ Goto(Daemon, [pc |-> "timerCommands"])
                  /\ UNCHANGED sched
        /\ UNCHANGED <<lastWake, timers>>

\* ... or a timer leaves its list, and the time is looked at ...
DaemonTakesTimer ==
    LET m == call[Daemon].message
        obeys == [pc |-> "timerObeys", message |-> m, now |-> sched.tick, at |-> Elapsed(sched)]
    IN  /\ At(Daemon, "timerCommand") /\ ~Pended(m.id)
        /\ timers' = [Stopped(timers, m.timer) EXCEPT !.last = sched.tick]
        /\ Goto(Daemon, IF sched.tick < timers.last THEN [pc |-> "timerSwitch", after |-> obeys] ELSE obeys)
        /\ UNCHANGED <<sched, lastWake, group>>

\* ... for what the command says to be done with it.
Started(ts, m, now) ==
    LET x == m.timer
        next == Wrap(m.value + ts.period[x])
        s == [ts EXCEPT !.active[x] = TRUE,
                        !.due[x] = IF m.id = "START" THEN m.at + ts.period[x] ELSE @]
        called == CallBack([s EXCEPT !.value[x] = next], x)
    IN  IF ~ProcessNow(s, x, next, now, m.value) THEN Insert(s, x, next, now)
        ELSE IF s.reload[x] THEN StartAgain(called, x, next)
        ELSE called

DaemonObeys ==
    LET w == call[Daemon]
        m == w.message
        x == m.timer
        s == timers
    IN  /\ At(Daemon, "timerObeys")
        /\ timers' = CASE m.id \in {"START", "START_DONT_TRACE"} -> Started(s, m, w.now)
                       [] m.id = "STOP" -> [s EXCEPT !.active[x] = FALSE, !.due[x] = Never]
                       [] m.id = "CHANGE_PERIOD" ->
                            Insert([s EXCEPT !.active[x] = TRUE, !.period[x] = m.value, !.due[x] = w.at + m.value],
                                   x, Wrap(w.now + m.value), w.now)
                       [] m.id = "DELETE" -> [s EXCEPT !.exists[x] = "no", !.due[x] = Never]
        /\ Goto(Daemon, [pc |-> "timerCommands"])
        /\ UNCHANGED <<sched, lastWake, group>>

TimersStep(t) ==
    \/ TimerSends(t)
    \/ \E c \in program.calls[t] : TimerCommand(t, c) \/ TimerCreate(t, c) \/ TimerSetReloadMode(t, c)

TimersNext ==
    \/ \E t \in Task : TimersStep(t)
    \/ DaemonLooks \/ DaemonWaits \/ DaemonUnlocks \/ DaemonExpires \/ DaemonSwitches
    \/ DaemonReceives \/ DaemonCallsPended \/ DaemonTakesTimer \/ DaemonObeys
    \/ \E c \in program.isr : TimerFromISR(c)

-----------------------------------------------------------------------------
(***************************************************************************)
(* No callback is early.  While the daemon sleeps, none is late: the time  *)
(* of every running timer is still to come, whichever wraps have passed    *)
(* and however late the daemon was before, it is in the list that belongs  *)
(* to that time, and the daemon will be awake by then; and no command lies *)
(* in the queue, unless the lock owes the wakeup.                          *)
(***************************************************************************)
DaemonSleeps == Daemon \in Range(sched.events[xTimerQueue])

WakesBy(x) ==
    \/ Daemon \in sched.delayed /\ (x \in timers.current => sched.wake[Daemon] <= timers.value[x])
    \/ Daemon \in sched.overflow /\ x \in timers.overflow /\ sched.wake[Daemon] <= timers.value[x]

TimersOnTime ==
    /\ ~timers.early
    /\ DaemonSleeps =>
         /\ timers.queue # << >> => timers.lock > 0
         /\ timers.queue = << >> => \A x \in Timer : timers.due[x] # Never =>
              /\ x \in timers.current \cup timers.overflow
              /\ timers.due[x] > Elapsed(sched)
              /\ timers.value[x] = Wrap(configINITIAL_TICK_COUNT + timers.due[x])
              /\ WakesBy(x)

(***************************************************************************)
(* A timer that was stopped, and not started since, does not run           *)
(* (xTimerStop).                                                           *)
(***************************************************************************)
StoppedStaysStopped ==
    \A x \in Timer : timers.due[x] = Never => x \notin timers.current \cup timers.overflow
=============================================================================
