------------------------------- MODULE Kernel -------------------------------
(***************************************************************************)
(* The kernel: the scheduler and the objects that tasks wait at, together. *)
(* One object changes the lists and the priorities that the others rely    *)
(* on, tasks wait at any of them with the same time-outs, and a stream     *)
(* buffer uses the notification that its task may get from elsewhere.      *)
(* (Queues with items are in Queue, which sees of the scheduler only who   *)
(* is blocked.)                                                            *)
(***************************************************************************)
EXTENDS StreamBuffer, Timers, QueueSet

(***************************************************************************)
(* What a program may ask for.  Times, priorities, tasks and objects are   *)
(* ones there are; the kernel asserts most of it (a priority that is too   *)
(* high, a period of zero).  The idle task makes no call but its own loop, *)
(* and nobody suspends or deletes it: the scheduler relies on it being     *)
(* ready (vTaskSwitchContext).  The daemon is created once, when the       *)
(* scheduler starts.                                                       *)
(*                                                                         *)
(* An interrupt resumes no task that may wait for a notification:          *)
(* prvTaskIsTaskSuspended takes such a wait for a suspension, and a        *)
(* notification would then append the task to the pending ready list a     *)
(* second time (xTaskResumeFromISR, xTaskNotifyFromISR).                   *)
(***************************************************************************)
CommandOf(c) ==
    /\ c.id \in {"START", "START_DONT_TRACE", "STOP", "DELETE", "CHANGE_PERIOD", "SET_BITS", "CLEAR_BITS"}
    /\ c.timer \in Timer
    /\ IF Pended(c.id) THEN c.value \subseteq Bit ELSE c.value \in 0 .. portMAX_DELAY
    /\ c.id = "CHANGE_PERIOD" => c.value # 0

MessageOf(m) ==
    /\ CommandOf(m) /\ m.at \in Int
    /\ m = [id |-> m.id, timer |-> m.timer, at |-> m.at, value |-> m.value]

Notifiable(p, t) ==
    \E c \in p.calls[t] : c.op \in {"notifyTake", "notifyWait", "streamSend", "streamReceive"}

CallOf(c) ==
    /\ c.op \in {"delay", "delayUntil", "notifyTake", "notifyWait", "waitBits", "sync", "take",
                 "streamSend", "streamReceive"} => c.ticks \in 0 .. portMAX_DELAY
    /\ c.op \in {"suspend", "resume", "prioritySet", "create", "delete", "notify", "notifyStateClear"} =>
         c.task \in Task
    /\ c.op \in {"suspend", "delete"} => c.task # Idle
    /\ c.op = "create" => c.task # Daemon
    /\ c.op \in {"prioritySet", "create"} => c.prio \in Priority
    /\ c.op \in {"take", "give", "addToSet", "removeFromSet"} => c.sem \in Semaphore
    /\ c.op = "timer" => CommandOf(c)
    /\ c.op = "timerCreate" => c.timer \in Timer /\ c.period \in 1 .. portMAX_DELAY

InterruptOf(p, c) ==
    /\ c.op \in {"notify", "resume"} => c.task \in Task
    /\ c.op = "resume" => ~Notifiable(p, c.task)
    /\ c.op \in {"give", "take"} => c.sem \in Semaphore
    /\ c.op = "timer" => CommandOf(c)

ASSUME KernelAssumption ==
    /\ TasksWaitingForBits \notin Semaphore
    /\ \A p \in Programs :
         /\ Idle \in p.started /\ p.started \subseteq Task
         /\ p.calls[Idle] = {}
         /\ \A t \in Task : \A c \in p.calls[t] : CallOf(c)
         /\ \A c \in p.isr : InterruptOf(p, c)
         /\ \A x \in Timer : p.timers[x].period \in 1 .. portMAX_DELAY
         /\ p.commands \in Seq(Range(p.commands))
         /\ \A m \in Range(p.commands) : MessageOf(m)

kernelVars == <<tasksVars, semaphore, setVars, groupVars, stream, timers>>

KernelInit ==
    TasksInit /\ SemaphoresInit /\ QueueSetInit /\ EventGroupInit /\ StreamBufferInit /\ TimersInit

KernelNext ==
    \/ TasksNext        /\ UNCHANGED <<semaphore, setVars, groupVars, stream, timers>>
    \/ QueueSetNext     /\ UNCHANGED <<program, groupVars, stream, timers>>
    \/ EventGroupNext   /\ UNCHANGED <<program, semaphore, setVars, stream, timers>>
    \/ StreamBufferNext /\ UNCHANGED <<program, semaphore, setVars, groupVars, timers>>
    \/ TimersNext       /\ UNCHANGED <<program, semaphore, setVars, meetings, stream>>

Spec == KernelInit /\ [][KernelNext]_kernelVars

-----------------------------------------------------------------------------
(***************************************************************************)
(* No task is left waiting for something that is there: a semaphore or a   *)
(* member of the set, bits of the event group, bytes or room in the stream *)
(* buffer, a notification.                                                 *)
(***************************************************************************)
NobodyLeftWaiting ==
    /\ NoTakerForgotten /\ NoEventForgotten /\ NoWaiterForgotten
    /\ NoStreamUserForgotten /\ NotificationsTaken
=============================================================================
