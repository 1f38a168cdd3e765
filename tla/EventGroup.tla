----------------------------- MODULE EventGroup -----------------------------
(***************************************************************************)
(* An event group (kernel/FreeRTOS/event_groups.c): tasks set bits, and    *)
(* wait for any or for all of some bits, or meet at them                   *)
(* (xEventGroupSync).                                                      *)
(*                                                                         *)
(* Everything but clearing bits happens with the scheduler suspended, and  *)
(* interrupts do not touch the bits (they pend functions: Timers), so that *)
(* such a section is one step up to xTaskResumeAll.  A waiter whose time   *)
(* is over looks at the bits once more, later.                             *)
(*                                                                         *)
(* The value of a waiter's event item is the set of the bits it waits for  *)
(* with its control bits: "all" and "clear"; when it was woken for its     *)
(* bits, what they were, and "unblocked".                                  *)
(***************************************************************************)
EXTENDS Tasks

CONSTANTS Bit, TasksWaitingForBits       \* the event list of the group

ASSUME EventGroupAssumption ==
    /\ TasksWaitingForBits \in EventList
    /\ {"all", "clear", "unblocked"} \cap Bit = {}

VARIABLES group,      \* uxEventBits
          meetings    \* how often each task has met the others

groupVars == <<group, meetings>>

EventGroupInit == group = {} /\ meetings = [t \in Task |-> 0]

TestAnyBit(bits, wait) == wait \cap bits # {}

\* prvTestWaitCondition, with eventWAIT_FOR_ALL_BITS as a control bit
TestWaitCondition(bits, wait) ==
    LET waitedFor == wait \cap Bit
    IN  IF "all" \in wait THEN waitedFor \subseteq bits ELSE waitedFor \cap bits # {}

Clears(wait) == IF "clear" \in wait THEN wait \cap Bit ELSE {}

-----------------------------------------------------------------------------
(***************************************************************************)
(* xEventGroupSetBits, up to xTaskResumeAll: the waiters are looked at one *)
(* after the other, and what they clear is cleared at the end.             *)
(***************************************************************************)
Waiters(s) == Range(s.events[TasksWaitingForBits])

WakeWaiters(s, ts, flags) ==
    LET list == s.events[TasksWaitingForBits]
        woken[i \in 0 .. Len(list)] ==
          IF i = 0 THEN s
          ELSE IF list[i] \in ts THEN RemoveFromUnorderedEventList(woken[i - 1], list[i], flags)
          ELSE woken[i - 1]
    IN  woken[Len(list)]

Met(s, bits) == {t \in Waiters(s) : TestWaitCondition(bits, s.flags[t])}

SetBits(s, bits) == WakeWaiters(s, Met(s, bits), bits \cup {"unblocked"})

BitsLeft(s, bits) == bits \ UNION {Clears(s.flags[t]) : t \in Met(s, bits)}

EventGroupSetBits(t, c) ==
    LET bits == group \cup c.bits
    IN  /\ Calls(t, c, "setBits")
        /\ sched' = SetBits(SuspendAll(sched), bits)
        /\ group' = BitsLeft(sched, bits)
        /\ Goto(t, [pc |-> "resume", yields |-> FALSE, then |-> Run])
        /\ UNCHANGED <<lastWake, meetings>>

\* vEventGroupDelete wakes all that wait; a new group takes its place.  Nobody
\* else may be using it.
EventGroupDelete(t, c) ==
    /\ Calls(t, c, "deleteGroup")
    /\ \A u \in Task \ Waiters(sched) : Doing(u).pc \notin {"waitedForBits", "bitsExpired"}
    /\ sched' = WakeWaiters(SuspendAll(sched), Waiters(sched), {"unblocked"})
    /\ group' = {}
    /\ Goto(t, [pc |-> "resume", yields |-> FALSE, then |-> Run])
    /\ UNCHANGED <<lastWake, meetings>>

EventGroupClearBits(t, c) ==
    /\ Calls(t, c, "clearBits")
    /\ group' = group \ c.bits
    /\ UNCHANGED <<sched, call, lastWake, meetings>>

-----------------------------------------------------------------------------
(***************************************************************************)
(* xEventGroupWaitBits and xEventGroupSync.  The latter sets bits first,   *)
(* and waits for all of the others' with clearing.                         *)
(***************************************************************************)
Returns(t, s, bits) ==
    /\ sched' = s
    /\ group' = bits
    /\ Goto(t, [pc |-> "resume", yields |-> FALSE, then |-> Run])

WaitsFor(t, c, s, bits, wait) ==
    /\ sched' = PlaceOnUnorderedEventList(s, TasksWaitingForBits, wait, c.ticks)
    /\ group' = bits
    /\ Goto(t, ToResume([pc |-> "waitedForBits", wait |-> wait, meets |-> c.op = "sync",
                         until |-> Wrap(sched.tick + c.ticks)]))

WaitBits(t, c) ==
    LET met == TestWaitCondition(group, c.wait)
    IN  /\ Calls(t, c, "waitBits")
        /\ c.ticks > 0 => sched.nesting = 0
        /\ IF met THEN Returns(t, SuspendAll(sched), group \ Clears(c.wait))
           ELSE IF c.ticks = 0 THEN Returns(t, SuspendAll(sched), group)
           ELSE WaitsFor(t, c, SuspendAll(sched), group, c.wait)
        /\ UNCHANGED <<lastWake, meetings>>

Meet(t) == meetings' = [meetings EXCEPT ![t] = (@ + 1) % 4]

Sync(t, c) ==
    LET bits == group \cup c.bits
        s == SetBits(SuspendAll(sched), bits)
        left == BitsLeft(sched, bits)
    IN  /\ Calls(t, c, "sync")
        /\ c.ticks > 0 => sched.nesting = 0
        /\ IF c.wait \subseteq bits THEN Returns(t, s, left \ c.wait) /\ Meet(t)
           ELSE /\ IF c.ticks = 0 THEN Returns(t, s, left)
                   ELSE WaitsFor(t, c, s, left, c.wait \cup {"all", "clear"})
                /\ UNCHANGED meetings
        /\ UNCHANGED lastWake

\* uxTaskResetEventItemValue
WaitedForBits(t) ==
    LET unblocked == "unblocked" \in sched.flags[t]
    IN  /\ At(t, "waitedForBits")
        /\ sched' = ResetEventItemValue(sched)
        /\ Goto(t, IF unblocked THEN Run ELSE [call[t] EXCEPT !.pc = "bitsExpired"])
        /\ IF unblocked /\ call[t].meets THEN Meet(t) ELSE UNCHANGED meetings
        /\ UNCHANGED <<lastWake, group>>

\* Its time is over; bits that are there after all are taken.
BitsExpired(t) ==
    LET met == TestWaitCondition(group, call[t].wait)
    IN  /\ At(t, "bitsExpired")
        /\ group' = IF met THEN group \ Clears(call[t].wait) ELSE group
        /\ Goto(t, Run)
        /\ UNCHANGED <<sched, lastWake, meetings>>

EventGroupNext ==
    \E t \in Task :
        \/ WaitedForBits(t) \/ BitsExpired(t)
        \/ \E c \in program.calls[t] :
             \/ EventGroupSetBits(t, c) \/ EventGroupClearBits(t, c) \/ EventGroupDelete(t, c)
             \/ WaitBits(t, c) \/ Sync(t, c)

-----------------------------------------------------------------------------
(***************************************************************************)
(* Nobody waits for bits that are there (xEventGroupSetBits,               *)
(* xEventGroupWaitBits).                                                   *)
(***************************************************************************)
NoWaiterForgotten ==
    \A t \in Waiters(sched) : ~TestWaitCondition(group, sched.flags[t])

(***************************************************************************)
(* Tasks that only ever meet at xEventGroupSync, without a time limit,     *)
(* meet equally often: none is ahead of another by more than the meeting   *)
(* the other has still to hear of.                                         *)
(***************************************************************************)
Meets(t) == program.calls[t] # {} /\ \A c \in program.calls[t] : c.op = "sync" /\ c.ticks = portMAX_DELAY

MeetTogether ==
    \A t, u \in {x \in Task : Meets(x)} : (meetings[t] - meetings[u]) % 4 # 2
=============================================================================
