------------------------------ MODULE MCKernel ------------------------------
(***************************************************************************)
(* Instances of Kernel for TLC: what three tasks, the timer daemon and the *)
(* interrupts do in each of several programs.  The tick count wraps after  *)
(* two or three ticks.                                                     *)
(***************************************************************************)
EXTENDS Kernel, TLC

CONSTANTS taskA, taskB, taskC, daemon, idle,      \* tasks
          timerX, timerY                        \* timers

MCTask == {taskA, taskB, taskC, daemon, idle}
MCSemaphore == {"mutex", "recursive", "counting", "signal", "binary", "set"}
MCEventList == MCSemaphore \cup {"group", "timers"}
MCKind == [q \in MCSemaphore |-> IF q \in {"signal", "binary"} THEN "counting" ELSE q]
MCMaxCount == [q \in MCSemaphore |-> IF q \in {"counting", "signal"} THEN 2 ELSE IF q = "set" THEN 3 ELSE 1]

\* The priorities and the calls of the tasks; the daemon has the priority
\* dp, or is not there.
Absent == -1

Program(prios, dp, ticks, callsA, callsB, callsC, isr) ==
    [prio |-> taskA :> prios[1] @@ taskB :> prios[2] @@ taskC :> prios[3] @@ daemon :> Max({dp, 0}) @@ idle :> 0,
     started |-> {taskA, taskB, taskC, idle} \cup (IF dp = Absent THEN {} ELSE {daemon}),
     ticks |-> ticks,
     calls |-> taskA :> callsA @@ taskB :> callsB @@ taskC :> callsC @@ daemon :> {} @@ idle :> {},
     isr |-> isr, message |-> FALSE, commands |-> << >>,
     timers |-> timerX :> [period |-> 2, reload |-> FALSE] @@ timerY :> [period |-> 3, reload |-> TRUE]]

Without(p, ts) == [p EXCEPT !.started = @ \ ts]

Op(op) == [op |-> op]
Wait(op, ticks) == [op |-> op, ticks |-> ticks]
On(op, task) == [op |-> op, task |-> task]
AtPrio(op, task, prio) == [op |-> op, task |-> task, prio |-> prio]
Forever == portMAX_DELAY

-----------------------------------------------------------------------------
\* Delays, from now and from the last time, and stretches without switches.
Delays == Program(<<2, 1, 1>>, Absent, 6,
    {Wait("delayUntil", 2)},
    {Wait("delay", 3), Op("suspendAll"), Wait("delay", 1)},
    {Wait("delay", 1), Wait("delay", 15), Op("yield"), Wait("delay", 0)},
    {})

\* Tasks come, go, sleep and change their priorities.
Lives == Without(Program(<<1, 1, 2>>, Absent, 2,
    {On("suspend", taskB), On("resume", taskB), AtPrio("prioritySet", taskB, 2), AtPrio("prioritySet", taskA, 0),
     AtPrio("create", taskC, 2), On("suspend", taskA), On("delete", taskC)},
    {Wait("delay", 2), On("resume", taskA), Op("suspendAll")},
    {On("delete", taskC), Wait("delay", 1)},
    {On("resume", taskB), Op("yield")}), {taskC})

\* Notifications of every kind.
TakeNotification(ticks, clear) == [op |-> "notifyTake", ticks |-> ticks, clear |-> clear]
WaitNotification(ticks, entry, exit) == [op |-> "notifyWait", ticks |-> ticks, entry |-> entry, exit |-> exit]
NotifyBy(task, action, value) == [op |-> "notify", task |-> task, action |-> action, value |-> value]

Notifications == Program(<<2, 1, 1>>, Absent, 2,
    {TakeNotification(2, FALSE), TakeNotification(Forever, TRUE)},
    {WaitNotification(1, TRUE, FALSE), WaitNotification(Forever, FALSE, TRUE), Op("suspendAll"),
     NotifyBy(taskA, "eIncrement", 0), On("notifyStateClear", taskB)},
    {NotifyBy(taskB, "eSetValueWithOverwrite", 2), NotifyBy(taskB, "eSetValueWithoutOverwrite", 1),
     NotifyBy(taskB, "eSetBits", 1), NotifyBy(taskA, "eIncrement", 0)},
    {NotifyBy(taskA, "eIncrement", 0)})

-----------------------------------------------------------------------------
TakeFor(sem, ticks) == [op |-> "take", sem |-> sem, ticks |-> ticks]
GiveOf(sem) == [op |-> "give", sem |-> sem]

\* A mutex that the lowest task holds while the others wait, one of them
\* with a limit.
Inheritance == Program(<<3, 2, 1>>, Absent, 4,
    {TakeFor("mutex", 3), GiveOf("mutex"), Wait("delay", 1)},
    {TakeFor("mutex", Forever), GiveOf("mutex"), Wait("delay", 2)},
    {TakeFor("mutex", 0), GiveOf("mutex"), TakeFor("recursive", 2), GiveOf("recursive")},
    {})

\* A wait for one of two mutexes is given up while another task waits for
\* the other.
GivenUp == Program(<<3, 2, 1>>, Absent, 3,
    {TakeFor("recursive", 1), GiveOf("recursive"), Wait("delay", 1)},
    {TakeFor("mutex", Forever), GiveOf("mutex"), Wait("delay", 1)},
    {TakeFor("mutex", 0), GiveOf("mutex"), TakeFor("recursive", 0), GiveOf("recursive")},
    {})

\* Two mutexes that one task holds at once and gives in any order, while the
\* others wait with and without a limit, or take its own priority from it.
TwoMutexes == Program(<<3, 1, 1>>, Absent, 2,
    {TakeFor("recursive", 2), GiveOf("recursive"), AtPrio("prioritySet", taskC, 2), AtPrio("prioritySet", taskC, 1),
     Wait("delay", 1)},
    {TakeFor("mutex", Forever), GiveOf("mutex")},
    {TakeFor("mutex", 0), GiveOf("mutex"), TakeFor("recursive", 0), GiveOf("recursive")},
    {})

\* A semaphore that interrupts give and take.
Signals == Without(Program(<<2, 1, 1>>, Absent, 2,
    {TakeFor("counting", 2)},
    {TakeFor("counting", Forever), Wait("delay", 1)},
    {},
    {GiveOf("counting"), [op |-> "take", sem |-> "counting"]}), {taskC})

\* A task selects from a set; interrupts give one member, a task the other.
Sets == Without(Program(<<2, 1, 1>>, Absent, 2,
    {TakeFor("set", 2), TakeFor("set", Forever), TakeFor("signal", 0), TakeFor("binary", 0),
     [op |-> "removeFromSet", sem |-> "binary"], [op |-> "addToSet", sem |-> "binary"]},
    {GiveOf("binary"), Op("suspendAll")}, {}, {GiveOf("signal")}), {taskC})

-----------------------------------------------------------------------------
SetOf(bits) == [op |-> "setBits", bits |-> bits]
BitsFor(wait, ticks) == [op |-> "waitBits", wait |-> wait, ticks |-> ticks]
MeetAt(bits, wait, ticks) == [op |-> "sync", bits |-> bits, wait |-> wait, ticks |-> ticks]

\* Three tasks meet; two meet or give up; two wait for bits.
Meeting == Program(<<2, 1, 1>>, Absent, 2,
    {MeetAt({"1"}, Bit, Forever)}, {MeetAt({"2"}, Bit, Forever)}, {MeetAt({"3"}, Bit, Forever)}, {})

Missing == Program(<<1, 2, 1>>, Absent, 3,
    {MeetAt({"1"}, {"1", "2"}, 1), MeetAt({"1"}, {"1", "2"}, 0)},
    {MeetAt({"2"}, {"1", "2"}, 2)},
    {BitsFor({"1", "clear"}, Forever)}, {})

Flags == Program(<<2, 2, 1>>, Absent, 4,
    {BitsFor({"1", "2", "all", "clear"}, 2)},
    {BitsFor({"1", "clear"}, 1), BitsFor({"2"}, 0)},
    {SetOf({"1"}), SetOf({"2"}), [op |-> "clearBits", bits |-> {"2"}], Op("deleteGroup"),
     Wait("delay", 1)}, {})

\* The holder of a mutex waits for bits, and inherits a priority meanwhile.
HolderWaits == Program(<<3, 1, 2>>, Absent, 3,
    {TakeFor("mutex", 2), GiveOf("mutex"), Wait("delay", 1)},
    {TakeFor("mutex", 0), GiveOf("mutex"), BitsFor({"1", "clear"}, Forever)},
    {SetOf({"1"}), Wait("delay", 1)}, {})

-----------------------------------------------------------------------------
SendBytes(len, ticks) == [op |-> "streamSend", len |-> len, ticks |-> ticks]
ReceiveUpTo(max, ticks) == [op |-> "streamReceive", max |-> max, ticks |-> ticks]

\* A reader above its writer, and below it with limits and a trigger level.
Stream == Without(Program(<<2, 1, 1>>, Absent, 2,
    {ReceiveUpTo(2, Forever)}, {SendBytes(1, Forever), SendBytes(2, Forever)}, {}, {}), {taskC})

\* The reader is notified by others as well.
NotifiedReader == Program(<<2, 1, 1>>, Absent, 1,
    {ReceiveUpTo(2, Forever), TakeNotification(Forever, TRUE)}, {SendBytes(2, Forever)},
    {NotifyBy(taskA, "eIncrement", 0), Op("yield")}, {})

LimitedStream == Without(Program(<<1, 2, 1>>, Absent, 3,
    {ReceiveUpTo(2, 1), [op |-> "setTriggerLevel", level |-> 2]},
    {SendBytes(2, 2), Op("streamReset")}, {}, {}), {taskC})

\* Messages between tasks of one priority; streams from and to interrupts.
Messages == [Without(Program(<<1, 1, 1>>, Absent, 1,
    {ReceiveUpTo(2, Forever)}, {SendBytes(1, Forever), SendBytes(2, Forever)}, {}, {}), {taskC})
    EXCEPT !.message = TRUE]

FromInterrupts == Without(Program(<<1, 1, 1>>, Absent, 2,
    {ReceiveUpTo(2, Forever), ReceiveUpTo(1, 0)}, {}, {},
    {SendBytes(1, 0), SendBytes(2, 0)}), {taskB, taskC})

ToInterrupts == [Without(Program(<<1, 1, 1>>, Absent, 2,
    {}, {SendBytes(1, Forever), SendBytes(2, 0)}, {},
    {ReceiveUpTo(2, 0)}), {taskA, taskC})
    EXCEPT !.message = TRUE]

\* One task that is both, and finds a message too long for it.
TooLong == [Without(Program(<<1, 1, 1>>, Absent, 1,
    {ReceiveUpTo(1, 0), SendBytes(2, 0), ReceiveUpTo(2, 0)}, {}, {}, {}), {taskB, taskC})
    EXCEPT !.message = TRUE]

-----------------------------------------------------------------------------
Command(id, timer, value) == [op |-> "timer", id |-> id, timer |-> timer, value |-> value]
StartAtOnce(timer) == [id |-> "START", timer |-> timer, value |-> configINITIAL_TICK_COUNT, at |-> 0]

\* One-shot timers, with a daemon that comes late, and from interrupts.
OneShots == Without(Program(<<2, 1, 1>>, 1, 3,
    {Command("START", timerX, 0), Command("CHANGE_PERIOD", timerX, 3), Wait("delay", 2)}, {}, {}, {}), {taskB, taskC})

StoppedByInterrupts == Without(Program(<<1, 1, 1>>, 1, 3,
    {}, {}, {}, {Command("START", timerX, 0), Command("STOP", timerX, 0)}), {taskA, taskB, taskC})

\* Timers that are started once and go on, with a daemon that comes late.
AutoReload == [Without(Program(<<2, 1, 1>>, 1, 7,
    {Wait("delay", 3), Op("suspendAll"), [op |-> "timerReload", timer |-> timerY, reload |-> FALSE]},
    {}, {}, {}), {taskB, taskC})
    EXCEPT !.commands = <<StartAtOnce(timerX), StartAtOnce(timerY)>>,
           !.timers[timerX] = [period |-> 1, reload |-> TRUE]]

\* A timer that is deleted and made anew; and functions that are pended.
Renewed == Without(Program(<<1, 1, 1>>, 2, 2,
    {Command("START", timerX, 0), Command("DELETE", timerX, 0),
     [op |-> "timerCreate", timer |-> timerX, period |-> 2, reload |-> FALSE]}, {}, {}, {}), {taskB, taskC})

PendedBits == Without(Program(<<1, 1, 1>>, 2, 1,
    {BitsFor({"1", "2", "all", "clear"}, Forever)}, {}, {Command("SET_BITS", timerX, {"1"})},
    {Command("SET_BITS", timerX, {"2"}), Command("CLEAR_BITS", timerX, {"2"})}), {taskB})

-----------------------------------------------------------------------------
MCPrograms == {Delays, Lives, Notifications, Inheritance, GivenUp, TwoMutexes, Signals, Sets, Meeting, Missing, Flags,
               HolderWaits, Stream, NotifiedReader, LimitedStream, Messages, FromInterrupts, ToInterrupts, TooLong,
               OneShots, StoppedByInterrupts, AutoReload, Renewed, PendedBits}

\* An auto-reload timer that is stopped when the daemon is a period late.
LateStop == [Without(Program(<<2, 1, 1>>, 1, 3,
    {Command("STOP", timerX, 0), Wait("delay", 2)}, {}, {}, {}), {taskB, taskC})
    EXCEPT !.commands = <<StartAtOnce(timerX)>>, !.timers[timerX] = [period |-> 1, reload |-> TRUE]]

MCLateStop == {LateStop}
=============================================================================
