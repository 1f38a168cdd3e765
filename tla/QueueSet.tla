------------------------------ MODULE QueueSet ------------------------------
(***************************************************************************)
(* A queue set (kernel/FreeRTOS/queue.c): a queue of the handles of those  *)
(* of its members that were given.  Whoever waits for the set              *)
(* (xQueueSelectFromSet) waits for that queue; its receive takes the same  *)
(* steps as the take of a semaphore, and takes a handle with it.           *)
(*                                                                         *)
(* The members are semaphores.  A task takes a member that is in the set   *)
(* only for a handle that it has selected, and does not wait for it, as    *)
(* include/freertos/queue.h asks of it.                                    *)
(***************************************************************************)
EXTENDS Semaphores

CONSTANT Set

ASSUME QueueSetAssumption == Set \in Semaphore /\ Kind[Set] = "set"

VARIABLES handles,     \* what is in the queue of the set
          selected     \* the handles each task has and has not yet used

setVars == <<handles, selected>>

QueueSetInit == handles = << >> /\ selected = [t \in Task |-> << >>]

\* prvNotifyQueueSetContainer by a member: what becomes of the set's queue
\* and its waiters, and whether a switch is due.
HasRoom == semaphore[Set].count < MaxCount[Set]

NotifySetContainer(m) ==
    LET given == [semaphore EXCEPT ![m].count = @ + 1]
        set == given[Set]
        told == [set EXCEPT !.count = set.count + 1,
                            !.lock = IF set.lock = queueUNLOCKED THEN set.lock ELSE set.lock + 1]
    IN
    /\ semaphore' = IF HasRoom THEN [given EXCEPT ![Set] = told] ELSE given
    /\ handles' = IF HasRoom THEN Append(handles, m) ELSE handles
    /\ sched' \in IF HasRoom /\ semaphore[Set].lock = queueUNLOCKED /\ sched.events[Set] # << >>
                    THEN SwitchIf(HeadPreempts(sched, Set), RemoveFromEventList(sched, Set))
                    ELSE {sched}
    /\ UNCHANGED <<call, lastWake, selected>>

MemberGiveable(c) ==
    c.op = "give" /\ semaphore[c.sem].inSet /\ semaphore[c.sem].count < MaxCount[c.sem]

MemberGive(t, c) == Calls(t, c, "give") /\ MemberGiveable(c) /\ NotifySetContainer(c.sem)

MemberGiveFromISR(c) ==
    MemberGiveable(c) /\ semaphore[Set].lock < MaxTimes /\ NotifySetContainer(c.sem)

-----------------------------------------------------------------------------
AddToSet(t, c) ==
    /\ Calls(t, c, "addToSet") /\ ~semaphore[c.sem].inSet /\ semaphore[c.sem].count = 0
    /\ semaphore' = [semaphore EXCEPT ![c.sem].inSet = TRUE]
    /\ UNCHANGED <<sched, call, lastWake, setVars>>

\* xQueueRemoveFromSet looks before it enters its critical section.
RemovalTests(t, c) ==
    /\ Calls(t, c, "removeFromSet") /\ semaphore[c.sem].inSet /\ semaphore[c.sem].count = 0
    /\ Goto(t, [pc |-> "removes", member |-> c.sem])
    /\ UNCHANGED <<sched, semaphore, lastWake, setVars>>

RemoveFromSet(t) ==
    /\ At(t, "removes")
    /\ semaphore' = [semaphore EXCEPT ![call[t].member].inSet = FALSE]
    /\ Goto(t, Run)
    /\ UNCHANGED <<sched, lastWake, setVars>>

\* A take of the set takes a handle from it, one of a member uses one up.
Taken(q) == semaphore'[q].count < semaphore[q].count

WithHandles ==
    LET t == sched.current
    IN  /\ \A m \in Semaphore : Taken(m) /\ semaphore[m].inSet => m \in Range(selected[t])
        /\ handles' = IF Taken(Set) THEN Tail(handles) ELSE handles
        /\ selected' = [selected EXCEPT ![t] =
             IF Taken(Set) THEN Append(@, Head(handles))
             ELSE IF \E m \in Range(@) : Taken(m) THEN RemoveFirst(@, CHOOSE m \in Range(@) : Taken(m))
             ELSE @]

QueueSetNext ==
    \/ SemaphoresNext /\ WithHandles
    \/ \E t \in Task :
         \/ RemoveFromSet(t)
         \/ \E c \in program.calls[t] : MemberGive(t, c) \/ AddToSet(t, c) \/ RemovalTests(t, c)
    \/ \E c \in program.isr : MemberGiveFromISR(c)

-----------------------------------------------------------------------------
(***************************************************************************)
(* For everything that can be taken from a member there is one handle of   *)
(* it, in the set or with a task that has selected it: no event is lost,   *)
(* and no handle leads to nothing (prvNotifyQueueSetContainer,             *)
(* xQueueSelectFromSet).                                                   *)
(***************************************************************************)
NoEventForgotten ==
    /\ semaphore[Set].count = Len(handles)
    /\ \A m \in {q \in Semaphore : semaphore[q].inSet} :
         semaphore[m].count =
           Cardinality({i \in DOMAIN handles : handles[i] = m})
           + Cardinality({e \in Task \X (1 .. MaxCount[Set]) :
                            e[2] \in DOMAIN selected[e[1]] /\ selected[e[1]][e[2]] = m})
=============================================================================
