---------------------------- MODULE KernelProofs ----------------------------
(***************************************************************************)
(* The scheduler's lists agree with each other at every step of every      *)
(* program: the invariant, and that each action keeps it.                  *)
(***************************************************************************)
EXTENDS SchedulerProofs
(***************************************************************************)
(* The invariant of the kernel.  The lists stay sound because of what the  *)
(* tasks are doing: who has suspended the scheduler is the one task that   *)
(* runs; a task that is blocked is at a place where it waits; who waits    *)
(* for a notification waits for nothing else.  Shape says what a call in   *)
(* progress carries with it, Fits what the scheduler knows of its task.    *)
(***************************************************************************)
DaemonTaskMessage ==
    [id : {"START", "START_DONT_TRACE", "STOP", "DELETE"}, timer : Timer, at : Int, value : 0 .. portMAX_DELAY]
    \cup [id : {"CHANGE_PERIOD"}, timer : Timer, at : Int, value : 1 .. portMAX_DELAY]
    \cup [id : {"SET_BITS", "CLEAR_BITS"}, timer : Timer, at : Int, value : SUBSET Bit]

TakePCs == {"take", "takeWaits", "takeLock", "takeTest", "takeUnlock", "takeUnlockYield",
            "takeExpired", "takeDisinherits"}
SendPCs == {"sendTry", "sendWait", "sendWoken", "sendCheck", "sendSpace"}
ReceivePCs == {"receiveWait", "receiveWoken", "receiveLooks", "receiveLength"}
DaemonPCs == {"timerExpired", "timerWait", "timerUnlock", "timerCommands", "timerCommand", "timerObeys"}
OtherPCs == {"removes", "waitedForBits", "bitsExpired", "sendCopy", "sendPublish", "sent", "sendCompleted",
             "receiveRestores", "receiveCopies", "receiveMoves", "received", "receiveCompleted"}

TakeCall(c) ==
    /\ DOMAIN c = {"pc", "sem", "out", "until", "inherited", "expired"}
    /\ c.sem \in Semaphore
    /\ c.out \in [overflows : Nat, since : Time, ticks : Time]
    /\ c.pc \in {"takeWaits", "takeLock", "takeTest"} => c.out.ticks > 0

SendCall(c) ==
    /\ DOMAIN c = {"pc", "len", "out", "space"}
    /\ c.out \in [overflows : Nat, since : Time, ticks : Time]

ReceiveCall(c) == DOMAIN c = {"pc", "max", "ticks", "available"} /\ c.ticks \in Time

DaemonCall(c) ==
    /\ c.pc = "timerWait" => c.indefinitely \/ c.ticks \in Time \ {0}
    /\ c.pc = "timerCommand" => c.message \in DaemonTaskMessage
    /\ c.pc = "timerObeys" => c.message \in DaemonTaskMessage /\ ~Pended(c.message.id) /\ c.at \in Int

Plain(t, c) ==
    /\ "pc" \in DOMAIN c
    /\ c.pc \in {"run", "suspended", "created", "timerSend"} \cup TakePCs \cup SendPCs \cup ReceivePCs \cup DaemonPCs \cup OtherPCs
    /\ c.pc \in TakePCs => TakeCall(c)
    /\ c.pc \in SendPCs => SendCall(c) /\ Notifiable(program, t)
    /\ c.pc \in ReceivePCs => ReceiveCall(c) /\ Notifiable(program, t)
    /\ c.pc = "timerSend" => c.message \in DaemonTaskMessage
    /\ c.pc \in DaemonPCs => t = Daemon /\ DaemonCall(c)
    /\ t = Daemon => c.pc \in DaemonPCs \cup {"run"}
    /\ t = Idle => c.pc = "run"

Resuming(t, c) ==
    /\ {"pc", "yields", "then"} \subseteq DOMAIN c /\ c.pc = "resume" /\ c.yields \in BOOLEAN
    /\ c.then.pc \in {"run", "take", "takeExpired", "waitedForBits", "timerCommands"}
    /\ Plain(t, c.then)
    /\ t = Idle => ~c.yields

Yielding(t, c) ==
    /\ {"pc", "then"} \subseteq DOMAIN c /\ c.pc = "yield"
    /\ c.then.pc \in {"run", "take", "takeExpired", "waitedForBits", "timerCommands"}
    /\ Plain(t, c.then)
    /\ t # Idle

Notifying(t, c) ==
    /\ {"pc", "then"} \subseteq DOMAIN c /\ c.pc = "notified"
    /\ c.then.pc \in {"run", "sendWoken", "receiveWoken"}
    /\ Plain(t, c.then)
    /\ t \notin {Idle, Daemon} /\ Notifiable(program, t)

Switching(t, c) ==
    /\ {"pc", "after"} \subseteq DOMAIN c /\ c.pc = "timerSwitch" /\ t = Daemon
    /\ \/ Resuming(t, c.after) /\ ~c.after.yields /\ c.after.then.pc = "timerCommands"
       \/ Plain(t, c.after) /\ c.after.pc = "timerObeys"

Shape(t, c) == Plain(t, c) \/ Resuming(t, c) \/ Yielding(t, c) \/ Notifying(t, c) \/ Switching(t, c)

\* Flat: nobody has suspended the scheduler.  Once: this call has, and no
\* other.  Nested: this call has, perhaps inside another.  Gives: the task
\* may be blocked already, and yields next.
OncePCs == {"takeLock", "takeTest", "takeUnlock", "takeUnlockYield", "timerWait", "timerUnlock"}

Flat(t, c) ==
    \/ c.pc \in {"yield", "notified", "take", "takeWaits", "takeExpired", "sendTry", "sendWait", "sendWoken",
                 "sendCheck", "receiveWait", "timerExpired", "timerCommands", "timerCommand", "timerObeys"}
    \/ c.pc = "suspended" /\ c.task = t
    \/ c.pc = "run" /\ t = Daemon
    \/ c.pc = "timerSwitch" /\ c.after.pc = "timerObeys"

Once(t, c) ==
    \/ c.pc \in OncePCs
    \/ c.pc = "resume" /\ (c.yields \/ Flat(t, c.then))
    \/ c.pc = "timerSwitch" /\ c.after.pc = "resume"

Nested(t, c) == Once(t, c) \/ c.pc \in {"resume", "sendCompleted", "receiveCompleted"}

Gives(t, c) ==
    \/ c.pc \in {"yield", "takeUnlockYield", "timerUnlock"}
    \/ c.pc = "suspended" /\ c.task = t
    \/ c.pc = "resume" /\ c.yields

WaitsForBits(c) ==
    c.pc = "waitedForBits" \/ (c.pc \in {"resume", "yield"} /\ c.then.pc = "waitedForBits")

Fits(t, c, s) ==
    /\ Shape(t, c)
    /\ s.notify[t] = "WAITING" => c.pc = "notified"
    /\ s.item[t] = 0 => WaitsForBits(c)
    /\ Nested(t, c) => t = s.current /\ s.nesting > 0
    /\ t = s.current => /\ Flat(t, c) => s.nesting = 0
                        /\ Once(t, c) => s.nesting = 1
                        /\ Awake(s, t) \/ Gives(t, c)

CallsFit == \A t \in Task : Fits(t, call[t], sched)

(***************************************************************************)
(* The objects.                                                            *)
(***************************************************************************)
SemaphoresTyped ==
    semaphore \in [Semaphore -> [count : Int, holder : Task \cup {Nobody}, calls : Int, lock : Int, inSet : BOOLEAN]]

StreamTyped ==
    /\ {"receiver", "sender"} \subseteq DOMAIN stream
    /\ stream.receiver \in Task \cup {None} /\ stream.sender \in Task \cup {None}

TimersTyped ==
    /\ DOMAIN timers = {"queue", "lock", "current", "overflow", "last", "value", "period", "reload",
                        "active", "exists", "due", "early"}
    /\ timers.queue \in Seq(DaemonTaskMessage)
    /\ timers.lock \in Int
    /\ timers.current \subseteq Timer /\ timers.overflow \subseteq Timer
    /\ timers.last \in Time /\ timers.value \in [Timer -> Time] /\ timers.period \in [Timer -> Time \ {0}]

\* The values in the overflow list are behind the last look at the tick
\* count, so that the lists are switched before one of them is due.
TimerLists ==
    LET c == call[Daemon]
    IN  /\ c.pc # "timerSwitch" => \A x \in timers.overflow : timers.value[x] < timers.last
        /\ c.pc = "timerExpired" => c.now = timers.last
        /\ c.pc = "timerObeys" => c.now = timers.last /\ c.message.timer \notin timers.overflow
        /\ c.pc = "timerSwitch" /\ c.after.pc = "timerObeys" => c.after.now = timers.last

KInv ==
    /\ program \in Programs
    /\ Core(sched) /\ Settled(sched)
    /\ lastWake \in [Task -> Time]
    /\ DOMAIN call = Task /\ CallsFit
    /\ SemaphoresTyped /\ StreamTyped /\ TimersTyped /\ TimerLists

-----------------------------------------------------------------------------
(***************************************************************************)
(* One step of one task.                                                   *)
(***************************************************************************)
LEMMA CallsPrimed ==
    ASSUME program' = program, \A t \in Task : Fits(t, call'[t], sched')
    PROVE  CallsFit'
  <1> SUFFICES ASSUME NEW t \in Task PROVE Fits(t, call[t], sched)'
    BY DEF CallsFit
  <1>1. Fits(t, call'[t], sched')
    OBVIOUS
  <1>2. Plain(t, call'[t]) => Plain(t, call[t])'
    BY DEF Plain
  <1>3. Plain(t, call'[t].then) => Plain(t, call[t].then)'
    BY DEF Plain
  <1>4. Plain(t, call'[t].after) => Plain(t, call[t].after)'
    BY DEF Plain
  <1>5. Plain(t, call'[t].after.then) => Plain(t, call[t].after.then)'
    BY DEF Plain
  <1>6. Resuming(t, call'[t]) => Resuming(t, call[t])'
    BY <1>3 DEF Resuming
  <1>7. Resuming(t, call'[t].after) => Resuming(t, call[t].after)'
    BY <1>5 DEF Resuming
  <1>8. Yielding(t, call'[t]) => Yielding(t, call[t])'
    BY <1>3 DEF Yielding
  <1>9. Notifying(t, call'[t]) => Notifying(t, call[t])'
    BY <1>3 DEF Notifying
  <1>10. Switching(t, call'[t]) => Switching(t, call[t])'
    BY <1>4, <1>7 DEF Switching
  <1>11. Shape(t, call'[t]) => Shape(t, call[t])'
    BY <1>2, <1>6, <1>8, <1>9, <1>10 DEF Shape
  <1> QED
    BY <1>1, <1>11 DEF Fits

\* The others find what they found.
LEMMA BystanderFits ==
    ASSUME NEW s, NEW u, Acts(s, u), NEW x \in Task, x # s.current, NEW c, Fits(x, c, s)
    PROVE  Fits(x, c, u)
  <1>1. Shape(x, c) /\ (s.notify[x] = "WAITING" => c.pc = "notified") /\ (s.item[x] = 0 => WaitsForBits(c))
        /\ ~ Nested(x, c)
    BY DEF Fits
  <1>2. /\ u.notify[x] = "WAITING" => s.notify[x] = "WAITING"
        /\ u.item[x] = 0 => s.item[x] = 0
        /\ x = u.current => u.nesting = 0 /\ Awake(u, x)
    BY DEF Acts, BeginsNoWait
  <1>3. ~ Once(x, c)
    BY <1>1 DEF Nested
  <1> QED
    BY <1>1, <1>2, <1>3 DEF Fits

\* And so does a task whose call is where it was.
LEMMA StillFits ==
    ASSUME NEW s, NEW u, Core(s), Moves(s, u), NEW x \in Task, NEW c, Fits(x, c, s)
    PROVE  Fits(x, c, u)
  <1>1. Shape(x, c) /\ (s.notify[x] = "WAITING" => c.pc = "notified") /\ (s.item[x] = 0 => WaitsForBits(c))
    BY DEF Fits
  <1>2. /\ u.notify[x] = "WAITING" => s.notify[x] = "WAITING"
        /\ u.item[x] = 0 => s.item[x] = 0
        /\ u.nesting = s.nesting /\ s.nesting \in Nat
        /\ s.nesting > 0 => u.current = s.current
        /\ \/ u.current = s.current /\ (Awake(s, s.current) => Awake(u, u.current))
           \/ u.nesting = 0 /\ Awake(u, u.current)
    BY CoreParts DEF Moves, Goes, NobodyWaits, BeginsNoWait
  <1>3. Nested(x, c) => x = u.current /\ u.nesting > 0
    BY <1>2 DEF Fits
  <1>4. x = u.current => (Flat(x, c) => u.nesting = 0) /\ (Once(x, c) => u.nesting = 1) /\ (Awake(u, x) \/ Gives(x, c))
    <2>1. CASE u.current = s.current
      BY <1>2, <2>1 DEF Fits
    <2>2. CASE u.current # s.current
      <3>1. u.nesting = 0 /\ Awake(u, u.current) /\ ~ (u.nesting > 0)
        BY <1>2, <2>2
      <3>2. ~ Once(x, c)
        BY <1>3, <3>1 DEF Nested
      <3> QED
        BY <3>1, <3>2
    <2> QED
      BY <2>1, <2>2
  <1> QED
    BY <1>1, <1>2, <1>3, <1>4 DEF Fits

(***************************************************************************)
(* What every step has to show of the scheduler and the calls.             *)
(***************************************************************************)
Quiet(c) == c.pc \notin {"timerSwitch", "timerExpired", "timerObeys"}

Scheduled ==
    /\ Core(sched') /\ Settled(sched') /\ DOMAIN call' = Task /\ CallsFit' /\ lastWake' \in [Task -> Time]
    /\ call'[Daemon] = call[Daemon] \/ (Quiet(call[Daemon]) /\ Quiet(call'[Daemon]))

LEMMA Remains ==
    ASSUME KInv, program' = program, lastWake' = lastWake, call' = call, Core(sched'), Moves(sched, sched')
    PROVE  Scheduled
  <1>1. \A t \in Task : Fits(t, call'[t], sched')
    BY StillFits DEF KInv, CallsFit
  <1>2. CallsFit'
    BY <1>1, CallsPrimed
  <1> QED
    BY <1>2 DEF Scheduled, KInv, Moves, Goes

LEMMA ProceedsTo ==
    ASSUME KInv, program' = program, lastWake' = lastWake \/ lastWake' \in [Task -> Time],
           NEW t \in Task, t = sched.current, DOMAIN call' = Task, \A x \in Task \ {t} : call'[x] = call[x],
           Acts(sched, sched'), Fits(t, call'[t], sched'),
           t # Daemon \/ (Quiet(call[t]) /\ Quiet(call'[t]))
    PROVE  Scheduled
  <1>1. \A x \in Task : Fits(x, call'[x], sched')
    <2> TAKE x \in Task
    <2>1. CASE x # t
      <3>1. Fits(x, call[x], sched) /\ call'[x] = call[x]
        BY <2>1 DEF KInv, CallsFit
      <3> QED
        BY <2>1, <3>1, BystanderFits
    <2> QED
      BY <2>1
  <1>2. CallsFit'
    BY <1>1, CallsPrimed
  <1>3. call'[Daemon] = call[Daemon] \/ (Quiet(call[Daemon]) /\ Quiet(call'[Daemon]))
    BY Constants DEF KInv
  <1> QED
    BY <1>2, <1>3 DEF Scheduled, KInv, Acts

LEMMA Proceeds ==
    ASSUME KInv, program' = program, lastWake' = lastWake \/ lastWake' \in [Task -> Time],
           NEW t \in Task, t = sched.current, NEW w, call' = [call EXCEPT ![t] = w],
           Acts(sched, sched'), Fits(t, w, sched'), t # Daemon \/ (Quiet(call[t]) /\ Quiet(w))
    PROVE  Scheduled
  <1>1. DOMAIN call' = Task /\ call'[t] = w /\ \A x \in Task \ {t} : call'[x] = call[x]
    BY DEF KInv
  <1> QED
    BY <1>1, ProceedsTo

\* A task that runs, between two calls or in one.
LEMMA RunsNow ==
    ASSUME KInv, NEW t \in Task, t = sched.current
    PROVE  /\ Core(sched) /\ Settled(sched) /\ Shape(t, call[t])
           /\ call[t].pc # "notified" => sched.notify[t] # "WAITING"
           /\ ~ WaitsForBits(call[t]) => sched.item[t] # 0
           /\ Nested(t, call[t]) => sched.nesting > 0
           /\ Flat(t, call[t]) => sched.nesting = 0
           /\ Once(t, call[t]) => sched.nesting = 1
           /\ Awake(sched, t) \/ Gives(t, call[t])
           /\ sched.nesting \in Nat
  BY CoreParts DEF KInv, CallsFit, Fits

LEMMA CallerRuns ==
    ASSUME KInv, NEW t \in Task, NEW c \in program.calls[t], NEW op, Calls(t, c, op)
    PROVE  /\ t = sched.current /\ call[t].pc = "run" /\ c.op = op /\ CallOf(c)
           /\ Core(sched) /\ Settled(sched) /\ Shape(t, call[t]) /\ Plain(t, call[t])
           /\ t # Idle /\ t # Daemon /\ Quiet(call[t])
           /\ sched.notify[t] # "WAITING" /\ sched.item[t] # 0 /\ Awake(sched, t) /\ sched.nesting \in Nat
  <1>1. t = sched.current /\ call[t].pc = "run" /\ c.op = op
    BY DEF Calls
  <1>2. CallOf(c) /\ t # Idle /\ t # Daemon
    BY KernelAssumption, TimersAssumption DEF KInv
  <1>3. ~ WaitsForBits(call[t]) /\ ~ Gives(t, call[t])
    BY <1>1 DEF WaitsForBits, Gives
  <1>4. Plain(t, call[t])
    BY <1>1, RunsNow DEF Shape, Resuming, Yielding, Notifying, Switching
  <1>5. Quiet(call[t])
    BY <1>1 DEF Quiet
  <1> QED
    BY <1>1, <1>2, <1>3, <1>4, <1>5, RunsNow

LEMMA RunFits ==
    ASSUME NEW t, NEW w, "pc" \in DOMAIN w, w.pc = "run", NEW u,
           u.notify[t] # "WAITING", u.item[t] # 0, t = u.current => Awake(u, t),
           t = Daemon => u.nesting = 0
    PROVE  Fits(t, w, u)
  <1>1. Plain(t, w)
    BY DEF Plain, TakePCs, SendPCs, ReceivePCs, DaemonPCs, OtherPCs
  <1>2. ~ Nested(t, w) /\ ~ Once(t, w) /\ (Flat(t, w) => t = Daemon)
    BY DEF Nested, Once, Flat, OncePCs
  <1> QED
    BY <1>1, <1>2 DEF Fits, Shape

\* What a task goes on to that has neither to hold nor to be in the scheduler.
LEMMA AnywhereFits ==
    ASSUME NEW t, t # Daemon, NEW w, Plain(t, w),
           w.pc \in {"created", "timerSend", "takeDisinherits", "sendSpace", "receiveLooks", "receiveLength", "removes",
                     "bitsExpired", "sendCopy", "sendPublish", "sent", "receiveRestores", "receiveCopies",
                     "receiveMoves", "received", "receiveWoken"},
           NEW u, u.notify[t] # "WAITING", u.item[t] # 0, t = u.current => Awake(u, t)
    PROVE  Fits(t, w, u)
  <1>1. ~ Nested(t, w) /\ ~ Once(t, w) /\ ~ Flat(t, w)
    BY DEF Nested, Once, Flat, OncePCs
  <1> QED
    BY <1>1 DEF Fits, Shape

LEMMA FlatFits ==
    ASSUME NEW t, NEW w, Plain(t, w),
           w.pc \in {"take", "takeWaits", "takeExpired", "sendTry", "sendWait", "sendWoken", "sendCheck",
                     "receiveWait", "timerExpired", "timerCommands", "timerCommand", "timerObeys"},
           NEW u, u.notify[t] # "WAITING", u.item[t] # 0, t = u.current => Awake(u, t) /\ u.nesting = 0
    PROVE  Fits(t, w, u)
  <1>1. ~ Nested(t, w) /\ ~ Once(t, w)
    BY DEF Nested, Once, OncePCs
  <1> QED
    BY <1>1 DEF Fits, Shape

LEMMA OnceFits ==
    ASSUME NEW t, NEW w, Plain(t, w), w.pc \in {"takeLock", "takeTest", "takeUnlock", "timerWait"},
           NEW u, u.notify[t] # "WAITING", u.item[t] # 0, t = u.current, Awake(u, t), u.nesting = 1
    PROVE  Fits(t, w, u)
  <1>1. ~ Flat(t, w)
    BY DEF Flat
  <1> QED
    BY <1>1 DEF Fits, Shape

\* The scheduler is to be resumed.
LEMMA ResumeFits ==
    ASSUME NEW t, NEW w, Resuming(t, w), NEW u, u.notify[t] # "WAITING",
           u.item[t] = 0 => w.then.pc = "waitedForBits",
           t = u.current, u.nesting \in Nat, u.nesting > 0,
           Awake(u, t) \/ w.yields,
           w.yields \/ Flat(t, w.then) => u.nesting = 1
    PROVE  Fits(t, w, u)
  <1>1. w.pc = "resume"
    BY DEF Resuming
  <1>2. ~ Flat(t, w) /\ (Once(t, w) => w.yields \/ Flat(t, w.then))
    BY <1>1 DEF Flat, Once, OncePCs
  <1> QED
    BY <1>1, <1>2 DEF Fits, Shape, WaitsForBits, Gives

LEMMA YieldFits ==
    ASSUME NEW t, t # Idle, NEW then, Plain(t, then),
           then.pc \in {"run", "take", "takeExpired", "waitedForBits", "timerCommands"},
           NEW u, u.notify[t] # "WAITING", u.item[t] = 0 => then.pc = "waitedForBits",
           t = u.current => u.nesting = 0
    PROVE  Fits(t, ToYield(then), u)
  <1> DEFINE w == ToYield(then)
  <1>1. w.pc = "yield" /\ w.then = then /\ {"pc", "then"} \subseteq DOMAIN w
    BY DEF ToYield
  <1> HIDE DEF w
  <1>2. Yielding(t, w) /\ ~ Nested(t, w) /\ ~ Once(t, w) /\ Gives(t, w) /\ (then.pc = "waitedForBits" => WaitsForBits(w))
    BY <1>1 DEF Yielding, Nested, Once, OncePCs, Gives, WaitsForBits
  <1>3. Fits(t, w, u)
    BY <1>2 DEF Fits, Shape
  <1> QED
    BY <1>3 DEF w

LEMMA ThenFits ==
    ASSUME NEW t, NEW w, Plain(t, w), w.pc \in {"run", "take", "takeExpired", "waitedForBits", "timerCommands"},
           NEW u, u.notify[t] # "WAITING", u.item[t] = 0 => w.pc = "waitedForBits",
           t = u.current => Awake(u, t) /\ (Flat(t, w) => u.nesting = 0)
    PROVE  Fits(t, w, u)
  <1>1. ~ Nested(t, w) /\ ~ Once(t, w) /\ (w.pc = "waitedForBits" => WaitsForBits(w))
    BY DEF Nested, Once, OncePCs, WaitsForBits
  <1> QED
    BY <1>1 DEF Fits, Shape

LEMMA NotifiedFits ==
    ASSUME NEW t, NEW w, Notifying(t, w), NEW u, u.item[t] # 0, t = u.current => Awake(u, t) /\ u.nesting = 0
    PROVE  Fits(t, w, u)
  <1>1. w.pc = "notified"
    BY DEF Notifying
  <1>2. ~ Nested(t, w) /\ ~ Once(t, w)
    BY <1>1 DEF Nested, Once, OncePCs
  <1> QED
    BY <1>1, <1>2 DEF Fits, Shape

-----------------------------------------------------------------------------
(***************************************************************************)
(* The steps of Tasks.                                                     *)
(***************************************************************************)
LEMMA YieldStep ==
    ASSUME KInv, program' = program, NEW t \in Task, Yield(t)
    PROVE  Scheduled
  <1> DEFINE c == call[t]
  <1>1. t = sched.current /\ c.pc = "yield" /\ sched' \in Switch(sched) /\ call' = [call EXCEPT ![t] = c.then]
        /\ lastWake' = lastWake
    BY DEF Yield, At, Goto
  <1>2. /\ Core(sched) /\ Settled(sched) /\ Shape(t, c) /\ sched.notify[t] # "WAITING"
        /\ ~ WaitsForBits(c) => sched.item[t] # 0
        /\ Flat(t, c) => sched.nesting = 0
    BY <1>1, RunsNow
  <1>3. Flat(t, c)
    BY <1>1 DEF Flat
  <1>4. Yielding(t, c)
    BY <1>1, <1>2 DEF Shape, Plain, TakePCs, SendPCs, ReceivePCs, DaemonPCs, OtherPCs, Resuming, Notifying, Switching
  <1>5. /\ Core(sched') /\ Settled(sched') /\ Same(sched, sched', {"yield", "top", "current"})
        /\ NobodyWaits(sched, sched') /\ Awake(sched', sched'.current)
    BY <1>1, <1>2, <1>3, Switched
  <1>6. sched'.nesting = 0 /\ sched'.notify = sched.notify /\ sched'.item = sched.item
    BY <1>2, <1>3, <1>5 DEF Same, Fields
  <1>7. Acts(sched, sched')
    BY <1>5, <1>6 DEF Acts, NobodyWaits
  <1>8. Plain(t, c.then) /\ c.then.pc \in {"run", "take", "takeExpired", "waitedForBits", "timerCommands"}
    BY <1>4 DEF Yielding
  <1>9. sched.item[t] = 0 => c.then.pc = "waitedForBits"
    BY <1>1, <1>2 DEF WaitsForBits
  <1>10. Fits(t, c.then, sched')
    BY <1>2, <1>5, <1>6, <1>8, <1>9, ThenFits
  <1>11. Quiet(c) /\ Quiet(c.then)
    BY <1>1, <1>8 DEF Quiet
  <1> QED
    BY <1>1, <1>7, <1>10, <1>11, Proceeds

LEMMA ResumeStep ==
    ASSUME KInv, program' = program, NEW t \in Task, Resume(t)
    PROVE  Scheduled
  <1> DEFINE c == call[t]
             w == IF c.yields /\ ~AlreadyYielded(sched) THEN ToYield(c.then) ELSE c.then
  <1>1. t = sched.current /\ c.pc = "resume" /\ sched' \in ResumeAll(sched) /\ call' = [call EXCEPT ![t] = w]
        /\ lastWake' = lastWake
    BY DEF Resume, At, Goto
  <1>2. /\ Core(sched) /\ Settled(sched) /\ Shape(t, c) /\ sched.notify[t] # "WAITING"
        /\ ~ WaitsForBits(c) => sched.item[t] # 0
        /\ Nested(t, c) => sched.nesting > 0
        /\ Once(t, c) => sched.nesting = 1
        /\ Awake(sched, t) \/ Gives(t, c)
    BY <1>1, RunsNow
  <1>3. sched.nesting > 0 /\ (c.yields \/ Flat(t, c.then) => sched.nesting = 1) /\ (Awake(sched, t) \/ c.yields)
    BY <1>1, <1>2 DEF Nested, Once, Gives
  <1>4. Resuming(t, c)
    BY <1>1, <1>2 DEF Shape, Plain, TakePCs, SendPCs, ReceivePCs, DaemonPCs, OtherPCs, Yielding, Notifying, Switching
  <1>5. /\ Core(sched') /\ Goes(sched, sched') /\ sched'.nesting = sched.nesting - 1
        /\ AlreadyYielded(sched) => sched'.nesting = 0 /\ Awake(sched', sched'.current)
    BY <1>1, <1>2, <1>3, ResumedAll
  <1>6. /\ sched'.notify[t] # "WAITING"
        /\ sched'.item[t] = 0 => c.then.pc = "waitedForBits"
    BY <1>1, <1>2, <1>5 DEF Goes, NobodyWaits, BeginsNoWait, WaitsForBits
  <1>7. Acts(sched, sched')
    BY <1>5 DEF Acts, Goes, NobodyWaits
  <1>8. Plain(t, c.then) /\ c.then.pc \in {"run", "take", "takeExpired", "waitedForBits", "timerCommands"}
        /\ (t = Idle => ~ c.yields)
    BY <1>4 DEF Resuming
  <1>9. Fits(t, w, sched') /\ Quiet(w)
    <2>1. CASE c.yields /\ ~AlreadyYielded(sched)
      <3>1. t # Idle /\ sched'.nesting = 0
        BY <1>3, <1>5, <1>8, <2>1
      <3>2. Fits(t, ToYield(c.then), sched')
        BY <1>6, <1>8, <3>1, YieldFits
      <3> QED
        BY <2>1, <3>2 DEF Quiet, ToYield
    <2>2. CASE ~ (c.yields /\ ~AlreadyYielded(sched))
      <3>1. t = sched'.current => Awake(sched', t)
        BY <1>1, <1>3, <1>5, <2>2 DEF Goes
      <3>2. Flat(t, c.then) => sched'.nesting = 0
        BY <1>3, <1>5
      <3>3. Fits(t, c.then, sched')
        BY <1>6, <1>8, <3>1, <3>2, ThenFits
      <3> QED
        BY <1>8, <2>2, <3>3 DEF Quiet
    <2> QED
      BY <2>1, <2>2
  <1>10. Quiet(c)
    BY <1>1 DEF Quiet
  <1> HIDE DEF w
  <1> QED
    BY <1>1, <1>7, <1>9, <1>10, Proceeds

\* Run, at any time the task runs.
LEMMA RunAgain ==
    ASSUME NEW t, t # Daemon, NEW u, u.notify[t] # "WAITING", u.item[t] # 0, t = u.current => Awake(u, t)
    PROVE  Fits(t, Run, u) /\ Quiet(Run)
  BY RunFits DEF Run, Quiet

LEMMA RunIsPlain ==
    ASSUME NEW t PROVE Plain(t, Run) /\ Run.pc = "run" /\ ~ WaitsForBits(Run)
  BY DEF Plain, Run, WaitsForBits, TakePCs, SendPCs, ReceivePCs, DaemonPCs, OtherPCs

LEMMA SuspendEndsStep ==
    ASSUME KInv, program' = program, NEW t \in Task, SuspendEnds(t)
    PROVE  Scheduled
  <1> DEFINE c == call[t]
             w == IF c.task = t THEN ToYield(Run) ELSE Run
  <1>1. t = sched.current /\ c.pc = "suspended" /\ sched' = ResetNext(sched) /\ call' = [call EXCEPT ![t] = w]
        /\ lastWake' = lastWake
    BY DEF SuspendEnds, At, Goto
  <1>2. /\ Core(sched) /\ Settled(sched) /\ Shape(t, c) /\ sched.notify[t] # "WAITING"
        /\ ~ WaitsForBits(c) => sched.item[t] # 0
        /\ Flat(t, c) => sched.nesting = 0
        /\ Awake(sched, t) \/ Gives(t, c)
    BY <1>1, RunsNow
  <1>3. /\ ~ WaitsForBits(c)
        /\ c.task = t => sched.nesting = 0
        /\ c.task # t => Awake(sched, t)
    BY <1>1, <1>2 DEF WaitsForBits, Flat, Gives
  <1>4. Plain(t, c) /\ t # Daemon /\ t # Idle
    <2>1. Plain(t, c)
      BY <1>1, <1>2 DEF Shape, Yielding, Resuming, Notifying, Switching
    <2> QED
      BY <1>1, <2>1 DEF Plain, DaemonPCs
  <1>5. Lists(sched', {}) /\ Benign(sched, sched') /\ Times(sched')
    BY <1>1, <1>2, CoreParts, NextReset DEF Times
  <1>6. Core(sched') /\ Acts(sched, sched')
    BY <1>2, <1>5, BenignActs DEF Core
  <1>7. /\ sched'.notify[t] # "WAITING" /\ sched'.item[t] # 0 /\ sched'.nesting = sched.nesting
        /\ sched'.current = t /\ (Awake(sched, t) => Awake(sched', t))
    BY <1>1, <1>2, <1>3, <1>5 DEF Benign, Calm, NobodyWaits, BeginsNoWait
  <1>8. Fits(t, w, sched')
    <2>1. CASE c.task = t
      <3>1. Fits(t, ToYield(Run), sched')
        BY <1>3, <1>4, <1>7, <2>1, RunIsPlain, YieldFits
      <3> QED
        BY <2>1, <3>1
    <2>2. CASE c.task # t
      BY <1>3, <1>4, <1>7, <2>2, RunAgain
    <2> QED
      BY <2>1, <2>2
  <1> HIDE DEF w
  <1> QED
    BY <1>1, <1>4, <1>6, <1>8, Proceeds

LEMMA NotifyEndsStep ==
    ASSUME KInv, program' = program, NEW t \in Task, NotifyEnds(t)
    PROVE  Scheduled
  <1> DEFINE c == call[t]
             v == sched.value[t]
             left == IF c.take THEN (IF c.clear \/ v = 0 THEN 0 ELSE v - 1)
                     ELSE IF c.clear /\ sched.notify[t] = "RECEIVED" THEN 0 ELSE v
  <1>1. t = sched.current /\ c.pc = "notified" /\ call' = [call EXCEPT ![t] = c.then]
        /\ sched' = [sched EXCEPT !.notify[t] = "NOT_WAITING", !.value[t] = left]
        /\ lastWake' = lastWake
    BY DEF NotifyEnds, At, Goto
  <1> HIDE DEF left
  <1>2. /\ Core(sched) /\ Settled(sched) /\ Shape(t, c)
        /\ ~ WaitsForBits(c) => sched.item[t] # 0
        /\ Flat(t, c) => sched.nesting = 0
        /\ Awake(sched, t) \/ Gives(t, c)
    BY <1>1, RunsNow
  <1>3. sched.item[t] # 0 /\ sched.nesting = 0 /\ Awake(sched, t)
    BY <1>1, <1>2 DEF WaitsForBits, Flat, Gives
  <1>4. Notifying(t, c)
    BY <1>1, <1>2 DEF Shape, Plain, TakePCs, SendPCs, ReceivePCs, DaemonPCs, OtherPCs, Yielding, Resuming, Switching
  <1>5. DOMAIN sched = Fields /\ sched.notify \in [Task -> Notices]
    BY <1>2, CoreParts DEF Types, Notices
  <1>6. Same(sched, sched', {"notify", "value"}) /\ sched'.notify = [sched.notify EXCEPT ![t] = "NOT_WAITING"]
    BY <1>1, <1>5 DEF Same, Fields
  <1>7. /\ sched'.notify \in [Task -> Notices] /\ sched'.notify[t] # "WAITING"
        /\ \A x \in Task : sched'.notify[x] = "WAITING" => sched.notify[x] = "WAITING"
    BY <1>5, <1>6 DEF Notices
  <1>8. Core(sched') /\ Benign(sched, sched') /\ sched'.nesting = sched.nesting /\ sched'.current = sched.current
    BY <1>2, <1>6, <1>7, Quieted
  <1>9. Acts(sched, sched')
    BY <1>2, <1>8, BenignActs
  <1>10. sched'.item[t] # 0 /\ Awake(sched', t) /\ sched'.nesting = 0
    BY <1>1, <1>3, <1>8 DEF Benign, Calm, NobodyWaits, BeginsNoWait
  <1>11. Plain(t, c.then) /\ c.then.pc \in {"run", "sendWoken", "receiveWoken"} /\ t # Daemon
    BY <1>4 DEF Notifying
  <1>12. Fits(t, c.then, sched')
    <2>1. CASE c.then.pc = "run"
      BY <1>7, <1>10, <1>11, <2>1, RunFits DEF Plain
    <2>2. CASE c.then.pc = "sendWoken"
      BY <1>7, <1>10, <1>11, <2>2, FlatFits
    <2>3. CASE c.then.pc = "receiveWoken"
      BY <1>7, <1>10, <1>11, <2>3, AnywhereFits
    <2> QED
      BY <1>11, <2>1, <2>2, <2>3
  <1> QED
    BY <1>1, <1>9, <1>11, <1>12, Proceeds

\* A step that changes no call.
LEMMA Switches ==
    ASSUME KInv, program' = program, lastWake' = lastWake, call' = call,
           NEW v, Core(v), Benign(sched, v), NEW required, sched' \in SwitchIf(required, v)
    PROVE  Scheduled
  BY Movement, Remains DEF KInv

LEMMA Unchanged ==
    ASSUME KInv, program' = program, lastWake' = lastWake, call' = call, Core(sched'), Benign(sched, sched')
    PROVE  Scheduled
  <1>1. sched' \in SwitchIf(FALSE, sched')
    BY DEF SwitchIf
  <1> QED
    BY <1>1, Switches

LEMMA SwitchesAtOnce ==
    ASSUME KInv, program' = program, lastWake' = lastWake, call' = call, sched' \in Switch(sched)
    PROVE  Scheduled
  <1>1. sched' \in SwitchIf(TRUE, sched)
    BY DEF SwitchIf
  <1>2. Core(sched) /\ Benign(sched, sched)
    BY BenignOnce DEF KInv
  <1> QED
    BY <1>1, <1>2, Switches

LEMMA TaskYieldStep ==
    ASSUME KInv, program' = program, NEW t \in Task, NEW c \in program.calls[t], TaskYield(t, c)
    PROVE  Scheduled
  BY SwitchesAtOnce DEF TaskYield

LEMMA CallSuspendAllStep ==
    ASSUME KInv, program' = program, NEW t \in Task, NEW c \in program.calls[t], CallSuspendAll(t, c)
    PROVE  Scheduled
  <1>1. Calls(t, c, "suspendAll") /\ sched' = SuspendAll(sched) /\ call' = call /\ lastWake' = lastWake
    BY DEF CallSuspendAll
  <1>2. /\ t = sched.current /\ call[t].pc = "run" /\ Core(sched) /\ Settled(sched) /\ Plain(t, call[t])
        /\ t # Idle /\ t # Daemon /\ sched.notify[t] # "WAITING" /\ sched.item[t] # 0 /\ Awake(sched, t)
    BY <1>1, CallerRuns
  <1>3. Core(sched') /\ Calm(sched, sched') /\ Settled(sched')
    BY <1>1, <1>2, AllSuspended
  <1>4. Acts(sched, sched')
    BY <1>3 DEF Acts, Calm, NobodyWaits
  <1>5. sched'.notify[t] # "WAITING" /\ sched'.item[t] # 0 /\ Awake(sched', t)
    BY <1>2, <1>3 DEF Calm, NobodyWaits, BeginsNoWait
  <1>6. Fits(t, call'[t], sched')
    BY <1>1, <1>2, <1>5, RunFits DEF Plain
  <1>7. DOMAIN call' = Task /\ \A x \in Task \ {t} : call'[x] = call[x]
    BY <1>1 DEF KInv
  <1> QED
    BY <1>1, <1>2, <1>4, <1>6, <1>7, ProceedsTo

LEMMA CallResumeAllStep ==
    ASSUME KInv, program' = program, NEW t \in Task, NEW c \in program.calls[t], CallResumeAll(t, c)
    PROVE  Scheduled
  <1>1. Calls(t, c, "suspendAll") /\ sched.nesting > 0 /\ sched' \in ResumeAll(sched) /\ call' = call
        /\ lastWake' = lastWake
    BY DEF CallResumeAll
  <1>2. /\ t = sched.current /\ call[t].pc = "run" /\ Core(sched) /\ Settled(sched) /\ Plain(t, call[t])
        /\ t # Idle /\ t # Daemon /\ sched.notify[t] # "WAITING" /\ sched.item[t] # 0 /\ Awake(sched, t)
    BY <1>1, CallerRuns
  <1>3. Core(sched') /\ Goes(sched, sched')
    BY <1>1, <1>2, ResumedAll
  <1>4. Acts(sched, sched')
    BY <1>3 DEF Acts, Goes, NobodyWaits
  <1>5. sched'.notify[t] # "WAITING" /\ sched'.item[t] # 0 /\ (t = sched'.current => Awake(sched', t))
    BY <1>2, <1>3 DEF Goes, NobodyWaits, BeginsNoWait
  <1>6. Fits(t, call'[t], sched')
    BY <1>1, <1>2, <1>5, RunFits DEF Plain
  <1>7. DOMAIN call' = Task /\ \A x \in Task \ {t} : call'[x] = call[x]
    BY <1>1 DEF KInv
  <1> QED
    BY <1>1, <1>2, <1>4, <1>6, <1>7, ProceedsTo

(***************************************************************************)
(* A task that has suspended the scheduler goes to sleep.                  *)
(***************************************************************************)
LEMMA SleepActs ==
    ASSUME NEW s, NEW v, Core(v), Settled(v), Calm(s, v), NEW ticks, NEW u, FallsAsleep(v, u, ticks)
    PROVE  Acts(s, u) /\ u.nesting = v.nesting /\ u.current = s.current
  BY DEF Acts, FallsAsleep, Calm, NobodyWaits, BeginsNoWait

LEMMA ToResumeFits ==
    ASSUME NEW t, t # Idle, NEW then, Plain(t, then),
           then.pc \in {"run", "take", "takeExpired", "waitedForBits", "timerCommands"},
           NEW u, u.notify[t] # "WAITING", u.item[t] = 0 => then.pc = "waitedForBits",
           t = u.current, u.nesting = 1
    PROVE  Fits(t, ToResume(then), u) /\ Quiet(ToResume(then))
  <1> DEFINE w == ToResume(then)
  <1>1. w.pc = "resume" /\ w.then = then /\ w.yields = TRUE /\ {"pc", "yields", "then"} \subseteq DOMAIN w
    BY DEF ToResume
  <1> HIDE DEF w
  <1>2. Resuming(t, w) /\ Quiet(w)
    BY <1>1 DEF Resuming, Quiet
  <1>3. Fits(t, w, u)
    BY <1>1, <1>2, ResumeFits
  <1> QED
    BY <1>2, <1>3 DEF w

LEMMA DelayStep ==
    ASSUME KInv, program' = program, NEW t \in Task, NEW c \in program.calls[t], Delay(t, c)
    PROVE  Scheduled
  <1> DEFINE a == SuspendAll(sched)
  <1>1. Calls(t, c, "delay") /\ sched.nesting = 0 /\ lastWake' = lastWake
        /\ \/ c.ticks > 0 /\ sched' = DelayCurrent(a, c.ticks, FALSE) /\ call' = [call EXCEPT ![t] = ToResume(Run)]
           \/ sched' \in Switch(sched) /\ call' = call
    BY DEF Delay, Goto
  <1> HIDE DEF a
  <1>2. /\ t = sched.current /\ c.op = "delay" /\ CallOf(c) /\ Core(sched) /\ Settled(sched)
        /\ t # Idle /\ t # Daemon /\ sched.notify[t] # "WAITING" /\ sched.item[t] # 0
    BY <1>1, CallerRuns
  <1>3. CASE c.ticks > 0 /\ sched' = DelayCurrent(a, c.ticks, FALSE) /\ call' = [call EXCEPT ![t] = ToResume(Run)]
    <2>1. c.ticks \in 1 .. portMAX_DELAY
      BY <1>2, <1>3, Constants DEF CallOf
    <2>2. Core(a) /\ Calm(sched, a) /\ a.nesting = 1 /\ Settled(a)
      BY <1>1, <1>2, AllSuspended DEF a
    <2>3. a.current = t
      BY <1>2, <2>2 DEF Calm
    <2>4. FallsAsleep(a, sched', c.ticks) /\ sched'.notify = a.notify /\ sched'.item = a.item
      BY <1>2, <1>3, <2>1, <2>2, <2>3, Slept
    <2>5. Acts(sched, sched') /\ sched'.nesting = 1 /\ sched'.current = t
      BY <1>2, <2>2, <2>4, SleepActs
    <2>6. sched'.notify[t] # "WAITING" /\ sched'.item[t] # 0
      BY <1>2, <2>2, <2>4 DEF Calm, NobodyWaits, BeginsNoWait
    <2>7. Fits(t, ToResume(Run), sched')
      BY <1>2, <2>5, <2>6, RunIsPlain, ToResumeFits
    <2> QED
      BY <1>1, <1>2, <1>3, <2>5, <2>7, Proceeds
  <1>4. CASE sched' \in Switch(sched) /\ call' = call
    BY <1>1, <1>4, SwitchesAtOnce
  <1> QED
    BY <1>1, <1>3, <1>4

LEMMA DelayUntilStep ==
    ASSUME KInv, program' = program, NEW t \in Task, NEW c \in program.calls[t], DelayUntil(t, c)
    PROVE  Scheduled
  <1> DEFINE a == SuspendAll(sched)
             last == lastWake[t]
             due == Wrap(last + c.ticks)
             ticks == Wrap(due - sched.tick)
             then == [pc |-> "run", until |-> due]
  <1>1. Calls(t, c, "delayUntil") /\ sched.nesting = 0 /\ lastWake' = [lastWake EXCEPT ![t] = due]
        /\ call' = [call EXCEPT ![t] = ToResume(then)]
        /\ \/ ShouldDelay(sched.tick, last, due) /\ sched' = DelayCurrent(a, ticks, FALSE)
           \/ sched' = a
    BY DEF DelayUntil, Goto
  <1>2. /\ t = sched.current /\ c.op = "delayUntil" /\ CallOf(c) /\ Core(sched) /\ Settled(sched)
        /\ t # Idle /\ t # Daemon /\ sched.notify[t] # "WAITING" /\ sched.item[t] # 0
    BY <1>1, CallerRuns
  <1>3. last \in Time /\ c.ticks \in Time /\ sched.tick \in Time /\ lastWake \in [Task -> Time]
    BY <1>2, CoreParts DEF KInv, CallOf, Time
  <1>4. due \in Time
    <2>1. last + c.ticks \in Int
      BY <1>3, TimeIsInt
    <2> QED
      BY <2>1, Wrapped
  <1>5. lastWake' \in [Task -> Time]
    BY <1>1, <1>3, <1>4
  <1>6. Plain(t, then) /\ then.pc = "run"
    BY <1>2 DEF Plain, TakePCs, SendPCs, ReceivePCs, DaemonPCs, OtherPCs
  <1> HIDE DEF due, then, last
  <1>7. Core(a) /\ Calm(sched, a) /\ a.nesting = 1 /\ Settled(a)
    BY <1>1, <1>2, AllSuspended
  <1> HIDE DEF a
  <1>8. a.current = t /\ a.notify[t] # "WAITING" /\ a.item[t] # 0
    BY <1>2, <1>7 DEF Calm, NobodyWaits, BeginsNoWait
  <1>9. Acts(sched, sched') /\ sched'.nesting = 1 /\ sched'.current = t /\ sched'.notify[t] # "WAITING" /\ sched'.item[t] # 0
    <2>1. CASE ShouldDelay(sched.tick, last, due) /\ sched' = DelayCurrent(a, ticks, FALSE)
      <3>1. due # sched.tick
        BY <2>1, <1>3, <1>4, TimeIsInt DEF ShouldDelay
      <3> DEFINE n == due - sched.tick
      <3>2. n \in Int /\ n # 0 /\ -portMAX_DELAY <= n /\ n <= portMAX_DELAY
        BY <3>1, <1>3, <1>4, TimeIsInt
      <3>3. ticks = Wrap(n)
        OBVIOUS
      <3> HIDE DEF n, ticks
      <3>4. ticks \in 1 .. portMAX_DELAY
        <4>1. CASE n > 0
          <5>1. n \in Time
            BY <3>2, <4>1, Constants
          <5> QED
            BY <3>2, <3>3, <4>1, <5>1, Wrapped
        <4>2. CASE ~ (n > 0)
          <5>1. n \in -portMAX_DELAY .. -1
            BY <3>2, <4>2, Constants
          <5>2. Wrap(n) = n + Ticks
            BY <3>2, <5>1, Wrapped
          <5> QED
            BY <3>2, <3>3, <5>1, <5>2, Constants
        <4> QED
          BY <4>1, <4>2
      <3>5. FallsAsleep(a, sched', ticks) /\ sched'.notify = a.notify /\ sched'.item = a.item
        BY <1>2, <1>7, <1>8, <2>1, <3>4, Slept
      <3> QED
        BY <1>2, <1>7, <1>8, <3>5, SleepActs
    <2>2. CASE sched' = a
      BY <1>2, <1>7, <1>8, <2>2 DEF Acts, Calm, NobodyWaits
    <2> QED
      BY <1>1, <2>1, <2>2
  <1>10. Fits(t, ToResume(then), sched')
    BY <1>2, <1>6, <1>9, ToResumeFits
  <1> QED
    BY <1>1, <1>2, <1>5, <1>9, <1>10, Proceeds

LEMMA SuspendStep ==
    ASSUME KInv, program' = program, NEW t \in Task, NEW c \in program.calls[t], Suspend(t, c)
    PROVE  Scheduled
  <1> DEFINE x == c.task
             u == Detach(Unlist(sched, {x}), {x})
             a == [u EXCEPT !.suspended = @ \cup {x}]
             w == [pc |-> "suspended", task |-> x]
  <1>1. Calls(t, c, "suspend") /\ lastWake' = lastWake /\ (x = t => sched.nesting = 0)
        /\ sched' = [u EXCEPT !.suspended = @ \cup {x},
                              !.notify[x] = IF @ = "WAITING" THEN "NOT_WAITING" ELSE @]
        /\ call' = [call EXCEPT ![t] = w]
    BY DEF Suspend, Goto
  <1>2. /\ t = sched.current /\ c.op = "suspend" /\ CallOf(c) /\ Core(sched) /\ Settled(sched) /\ Awake(sched, t)
        /\ t # Idle /\ t # Daemon /\ sched.notify[t] # "WAITING" /\ sched.item[t] # 0
    BY <1>1, CallerRuns
  <1>3. x \in Task /\ x # Idle
    BY <1>2 DEF CallOf
  <1>0. u = Detach(Unlist(sched, {x}), {x})
    OBVIOUS
  <1>5. w.pc = "suspended" /\ w.task = x /\ Plain(t, w)
    BY <1>2 DEF Plain, TakePCs, SendPCs, ReceivePCs, DaemonPCs, OtherPCs
  <1> HIDE DEF w, x, u
  <1>4. /\ Core(u) /\ NobodyWaits(sched, u) /\ Settled(u)
        /\ u.nesting = sched.nesting /\ u.current = sched.current /\ u.notify = sched.notify /\ u.item = sched.item
        /\ x \notin Blocked(u) /\ x \notin u.terminating /\ \A p \in Priority : x \notin u.ready[p]
        /\ t # x => Awake(u, t)
    <2>1. Departs(sched, x, u)
      BY <1>0, <1>2, <1>3, Removed
    <2> QED
      BY <1>2, <2>1 DEF Departs
  <1>6. DOMAIN u = Fields /\ u.notify \in [Task -> Notices]
    BY <1>4, CoreParts DEF Types, Notices
  <1>7. Same(u, a, {"suspended"}) /\ a.suspended = u.suspended \cup {x}
    BY <1>6 DEF Same, Fields
  <1>8. /\ Same(a, sched', {"notify", "value"})
        /\ sched'.notify = [u.notify EXCEPT ![x] = IF @ = "WAITING" THEN "NOT_WAITING" ELSE @]
    BY <1>1, <1>6 DEF Same, Fields
  <1> HIDE DEF a
  <1>9. /\ Core(a) /\ NobodyWaits(u, a) /\ Settled(a)
        /\ a.nesting = u.nesting /\ a.current = u.current /\ a.notify = u.notify /\ a.item = u.item
        /\ \A y \in Task : Awake(u, y) <=> Awake(a, y)
    BY <1>3, <1>4, <1>7, Parked
  <1>10. /\ sched'.notify \in [Task -> Notices]
         /\ \A y \in Task : sched'.notify[y] = "WAITING" => a.notify[y] = "WAITING"
    BY <1>3, <1>6, <1>8, <1>9 DEF Notices
  <1>11. Core(sched') /\ Benign(a, sched') /\ sched'.nesting = a.nesting /\ sched'.current = a.current
    BY <1>8, <1>9, <1>10, Quieted
  <1>12. Acts(sched, sched') /\ Settled(sched')
    BY <1>4, <1>9, <1>11 DEF Acts, Benign, Calm, NobodyWaits, BeginsNoWait
  <1>13. /\ sched'.notify[t] # "WAITING" /\ sched'.item[t] # 0 /\ sched'.current = t /\ sched'.nesting = sched.nesting
         /\ t # x => Awake(sched', t)
    BY <1>2, <1>4, <1>9, <1>11 DEF Benign, Calm, NobodyWaits, BeginsNoWait
  <1>14. Fits(t, w, sched')
    <2>1. ~ Nested(t, w) /\ ~ Once(t, w) /\ (Flat(t, w) => x = t) /\ (x = t => Gives(t, w))
      BY <1>5 DEF Nested, Once, OncePCs, Flat, Gives
    <2> QED
      BY <1>1, <1>5, <1>13, <2>1 DEF Fits, Shape
  <1> QED
    BY <1>1, <1>2, <1>12, <1>14, Proceeds

LEMMA TaskResumeStep ==
    ASSUME KInv, program' = program, NEW t \in Task, NEW c \in program.calls[t], TaskResume(t, c)
    PROVE  Scheduled
  <1> DEFINE x == c.task
             ts == {x}
             v == MakeReady(sched, ts)
  <1>1. Calls(t, c, "resume") /\ lastWake' = lastWake /\ call' = call /\ x # t
        /\ \/ TaskIsTaskSuspended(sched, x) /\ sched' \in SwitchIf(sched.prio[x] >= sched.prio[t], v)
           \/ sched' = sched
    BY DEF TaskResume
  <1>2. t = sched.current /\ c.op = "resume" /\ CallOf(c) /\ Core(sched)
    BY <1>1, CallerRuns
  <1>3. x \in Task
    BY <1>2 DEF CallOf
  <1>4. ts \in SUBSET Task /\ \A y : y \in ts <=> y = x
    BY <1>3
  <1> HIDE DEF x, ts
  <1>5. CASE TaskIsTaskSuspended(sched, x) /\ sched' \in SwitchIf(sched.prio[x] >= sched.prio[t], v)
    <2>1. \A l \in EventList : x \notin Range(sched.events[l])
      BY <1>5 DEF TaskIsTaskSuspended, Attached
    <2>2. /\ \A l \in EventList : ts \cap Range(sched.events[l]) = {}
          /\ sched.current \in ts => sched.current \notin Range(sched.pending)
      BY <1>1, <1>2, <1>4, <2>1
    <2>3. Lists(v, {}) /\ Times(v) /\ Benign(sched, v)
      BY <1>2, <1>4, <2>2, MadeReady DEF Core
    <2> HIDE DEF v
    <2> QED
      BY <1>1, <1>5, <2>3, Switches DEF Core
  <1>6. CASE sched' = sched
    BY <1>1, <1>2, <1>6, BenignOnce, Unchanged
  <1> QED
    BY <1>1, <1>5, <1>6

LEMMA PrioritySetStep ==
    ASSUME KInv, program' = program, NEW t \in Task, NEW c \in program.calls[t], PrioritySet(t, c)
    PROVE  Scheduled
  <1> DEFINE x == c.task
             s == sched
             p == IF s.base[x] = s.prio[x] THEN c.prio ELSE s.prio[x]
             a == [s EXCEPT !.prio[x] = IF s.base[x] = @ THEN c.prio ELSE @, !.base[x] = c.prio]
             v == SetItem(a, x, c.prio)
             yieldRequired == IF c.prio > s.base[x] THEN x # t /\ c.prio >= s.prio[t] ELSE x = t
             m == IF Awake(s, x) THEN MakeReady(v, {x}) ELSE v
  <1>1. Calls(t, c, "prioritySet") /\ lastWake' = lastWake /\ call' = call /\ s' \in SwitchIf(yieldRequired, m)
    BY DEF PrioritySet, Awake
  <1>2. c.op = "prioritySet" /\ CallOf(c) /\ Core(s)
    BY <1>1, CallerRuns
  <1>3. x \in Task /\ c.prio \in Priority
    BY <1>2 DEF CallOf
  <1>4. /\ DOMAIN s = Fields /\ s.prio \in [Task -> Priority] /\ s.base \in [Task -> Priority]
        /\ s.item \in [Task -> 0 .. configMAX_PRIORITIES]
    BY <1>2, CoreParts DEF Types
  <1>5. p \in Priority
    BY <1>3, <1>4
  <1>6. Same(s, a, {"prio", "base"}) /\ a.prio = [s.prio EXCEPT ![x] = p] /\ a.base = [s.base EXCEPT ![x] = c.prio]
    BY <1>4 DEF Same, Fields
  <1> HIDE DEF a, p
  <1>7. DOMAIN a = Fields /\ a.item = s.item
    BY <1>6 DEF Same, Fields
  <1>8. /\ Same(a, v, {"item"}) /\ v.item \in [Task -> 0 .. configMAX_PRIORITIES]
        /\ \A y \in Task : v.item[y] = 0 => s.item[y] = 0
    BY <1>3, <1>4, <1>7, ItemSet
  <1> HIDE DEF v
  <1>9. v.prio = a.prio /\ v.base = a.base /\ Same(s, v, {"prio", "base", "item", "held"})
    BY <1>6, <1>8 DEF Same, Fields
  <1>10. Reranks(s, v, x, p)
    BY <1>3, <1>4, <1>6, <1>8, <1>9 DEF Reranks
  <1>11. RankKept(s, m)
    BY <1>2, <1>3, <1>5, <1>10, Reranked
  <1> HIDE DEF m, yieldRequired
  <1> QED
    BY <1>1, <1>11, Switches DEF RankKept

LEMMA CreateStep ==
    ASSUME KInv, program' = program, NEW t \in Task, NEW c \in program.calls[t], Create(t, c)
    PROVE  Scheduled
  <1> DEFINE x == c.task
             s == sched
             p == c.prio
             new == [s EXCEPT !.prio[x] = p, !.base[x] = p, !.held[x] = 0,
                              !.item[x] = configMAX_PRIORITIES - p, !.flags[x] = {},
                              !.notify[x] = "NOT_WAITING", !.value[x] = 0]
             m == MakeReady(new, {x})
             w == [pc |-> "created", task |-> x]
  <1>1. Calls(t, c, "create") /\ ~ Exists(x) /\ s' = m /\ call' = [call EXCEPT ![x] = Run, ![t] = w]
        /\ lastWake' = [lastWake EXCEPT ![x] = s.tick]
    BY DEF Create
  <1>2. /\ t = s.current /\ c.op = "create" /\ CallOf(c) /\ Core(s) /\ Settled(s) /\ Awake(s, t)
        /\ t # Idle /\ t # Daemon /\ s.notify[t] # "WAITING" /\ s.item[t] # 0
    BY <1>1, CallerRuns
  <1>3. x \in Task /\ x # Daemon /\ p \in Priority
    BY <1>2 DEF CallOf
  <1> HIDE DEF x, p
  <1>4. /\ DOMAIN s = Fields /\ s.ready \in [Priority -> SUBSET Task] /\ \A y \in Task : s.prio[y] \in Priority
    BY <1>2, CoreParts DEF Types
  <1>5. x \notin Blocked(s) /\ \A y \in Task : Awake(s, y) => y # x
    <2>1. x \notin Blocked(s) /\ x \notin UNION Range(s.ready)
      BY <1>1 DEF Exists, Blocked
    <2>2. \A r \in Priority : x \notin s.ready[r]
      BY <1>4, <2>1 DEF Range
    <2> QED
      BY <1>4, <2>1, <2>2 DEF Awake
  <1>6. /\ Same(s, new, Marks)
        /\ new.prio = [s.prio EXCEPT ![x] = p] /\ new.base = [s.base EXCEPT ![x] = p]
        /\ new.item = [s.item EXCEPT ![x] = configMAX_PRIORITIES - p]
        /\ new.notify = [s.notify EXCEPT ![x] = "NOT_WAITING"]
    BY <1>4 DEF Same, Fields, Marks
  <1> HIDE DEF new
  <1>7. /\ Core(m) /\ Benign(s, m) /\ m.notify[x] # "WAITING" /\ m.item[x] # 0
    <2>1. Creates(s, new, x, p)
      BY <1>6 DEF Creates
    <2>2. CreatedWell(s, x, m)
      BY <1>2, <1>3, <1>5, <2>1, Created
    <2> QED
      BY <2>2 DEF CreatedWell
  <1> HIDE DEF m
  <1>8. Core(s') /\ Moves(s, s')
    <2>1. s' \in SwitchIf(FALSE, m)
      BY <1>1 DEF SwitchIf
    <2> QED
      BY <1>2, <1>7, <2>1, Movement
  <1>9. s'.current = t /\ s'.notify[t] # "WAITING" /\ s'.item[t] # 0 /\ Awake(s', t) /\ x # t
    BY <1>1, <1>2, <1>5, <1>7 DEF Benign, Calm, NobodyWaits, BeginsNoWait
  <1>10. x = s'.current => Awake(s', x)
    BY <1>2, <1>5, <1>8 DEF Moves, Goes
  <1>11. Fits(x, Run, s')
    BY <1>1, <1>3, <1>7, <1>10, RunAgain
  <1>12. Fits(t, w, s')
    <2>1. "pc" \in DOMAIN w /\ w.pc = "created"
      OBVIOUS
    <2> HIDE DEF w
    <2>2. Plain(t, w)
      BY <1>2, <2>1 DEF Plain, TakePCs, SendPCs, ReceivePCs, DaemonPCs, OtherPCs
    <2> QED
      BY <1>2, <1>9, <2>1, <2>2, AnywhereFits
  <1> HIDE DEF w
  <1>13. \A y \in Task : Fits(y, call'[y], s')
    <2> TAKE y \in Task
    <2>1. CASE y = x
      BY <1>1, <1>9, <1>11, <2>1 DEF KInv
    <2>2. CASE y = t
      BY <1>1, <1>9, <1>12, <2>2 DEF KInv
    <2>3. CASE y # x /\ y # t
      <3>1. Fits(y, call[y], s) /\ call'[y] = call[y]
        BY <1>1, <2>3 DEF KInv, CallsFit
      <3> QED
        BY <1>2, <1>8, <3>1, StillFits
    <2> QED
      BY <2>1, <2>2, <2>3
  <1>14. CallsFit'
    BY <1>13, CallsPrimed
  <1>15. DOMAIN call' = Task /\ call'[Daemon] = call[Daemon]
    BY <1>1, <1>2, <1>3, Constants DEF KInv
  <1>16. lastWake' \in [Task -> Time]
    <2>1. s.tick \in Time /\ lastWake \in [Task -> Time]
      BY <1>2, CoreParts DEF KInv
    <2> QED
      BY <1>1, <2>1
  <1> QED
    BY <1>8, <1>14, <1>15, <1>16 DEF Scheduled, Moves, Goes

\* The creator goes on, or gives way to the task that it made.
LEMMA CreateEndsStep ==
    ASSUME KInv, program' = program, NEW t \in Task, CreateEnds(t)
    PROVE  Scheduled
  <1> DEFINE c == call[t]
             required == sched.prio[t] < sched.prio[c.task]
  <1>1. t = sched.current /\ c.pc = "created" /\ sched' \in SwitchIf(required, sched)
        /\ call' = [call EXCEPT ![t] = Run] /\ lastWake' = lastWake
    BY DEF CreateEnds, At, Goto
  <1> HIDE DEF required
  <1>2. /\ Core(sched) /\ Settled(sched) /\ Shape(t, c) /\ sched.notify[t] # "WAITING"
        /\ ~ WaitsForBits(c) => sched.item[t] # 0
        /\ Awake(sched, t) \/ Gives(t, c)
    BY <1>1, RunsNow
  <1>3. sched.item[t] # 0 /\ Awake(sched, t)
    BY <1>1, <1>2 DEF WaitsForBits, Gives
  <1>4. Plain(t, c) /\ t # Daemon
    <2>1. Plain(t, c)
      BY <1>1, <1>2 DEF Shape, Yielding, Resuming, Notifying, Switching
    <2> QED
      BY <1>1, <2>1 DEF Plain, DaemonPCs
  <1>5. Core(sched') /\ Moves(sched, sched')
    BY <1>1, <1>2, BenignOnce, Movement
  <1>6. Acts(sched, sched')
    BY <1>5, CoreParts DEF Acts, Moves, Goes, NobodyWaits
  <1>7. sched'.notify[t] # "WAITING" /\ sched'.item[t] # 0 /\ (t = sched'.current => Awake(sched', t))
    BY <1>1, <1>2, <1>3, <1>5 DEF Moves, Goes, NobodyWaits, BeginsNoWait
  <1>8. Fits(t, Run, sched')
    BY <1>4, <1>7, RunAgain
  <1> QED
    BY <1>1, <1>4, <1>6, <1>8, Proceeds

LEMMA DeleteStep ==
    ASSUME KInv, program' = program, NEW t \in Task, NEW c \in program.calls[t], Delete(t, c)
    PROVE  Scheduled
  <1> DEFINE x == c.task
             u == Detach(Unlist(sched, {x}), {x})
             a == [u EXCEPT !.terminating = @ \cup {t}]
             b == IF x = t THEN a ELSE u
             w == IF x = t THEN ToYield(Run) ELSE Run
  <1>1. Calls(t, c, "delete") /\ lastWake' = lastWake /\ (x = t => sched.nesting = 0)
        /\ sched' = ResetNext(b) /\ call' = [call EXCEPT ![t] = w]
    BY DEF Delete, Goto
  <1>2. /\ t = sched.current /\ c.op = "delete" /\ CallOf(c) /\ Core(sched) /\ Settled(sched) /\ Awake(sched, t)
        /\ t # Idle /\ t # Daemon /\ sched.notify[t] # "WAITING" /\ sched.item[t] # 0
    BY <1>1, CallerRuns
  <1>3. x \in Task /\ x # Idle
    BY <1>2 DEF CallOf
  <1>0. u = Detach(Unlist(sched, {x}), {x})
    OBVIOUS
  <1> HIDE DEF x, u
  <1>4. Departs(sched, x, u)
    BY <1>0, <1>2, <1>3, Removed
  <1>5. /\ Core(u) /\ NobodyWaits(sched, u) /\ Settled(u)
        /\ u.nesting = sched.nesting /\ u.current = sched.current /\ u.notify = sched.notify /\ u.item = sched.item
        /\ x \notin Blocked(u) /\ x \notin u.terminating /\ \A p \in Priority : x \notin u.ready[p]
        /\ t # x => Awake(u, t)
    BY <1>2, <1>4 DEF Departs
  <1>6. /\ Core(b) /\ NobodyWaits(u, b) /\ Settled(b) /\ b.nesting = u.nesting /\ b.current = u.current
        /\ t # x => Awake(b, t)
    <2>1. CASE x = t
      <3>1. DOMAIN u = Fields
        BY <1>5, CoreParts
      <3>2. Same(u, a, {"terminating"}) /\ a.terminating = u.terminating \cup {x}
        BY <2>1, <3>1 DEF Same, Fields
      <3> HIDE DEF a
      <3>3. Core(a) /\ NobodyWaits(u, a) /\ Settled(a) /\ a.nesting = u.nesting /\ a.current = u.current
        BY <1>3, <1>5, <3>2, Parked
      <3>4. b = a
        BY <2>1
      <3> HIDE DEF b
      <3> QED
        BY <2>1, <3>3, <3>4
    <2>2. CASE x # t
      <3>1. b = u
        BY <2>2
      <3> HIDE DEF b
      <3> QED
        BY <1>5, <3>1 DEF NobodyWaits, BeginsNoWait
    <2> QED
      BY <2>1, <2>2
  <1> HIDE DEF b
  <1>7. Lists(sched', {}) /\ Benign(b, sched') /\ Times(sched')
    BY <1>1, <1>6, CoreParts, NextReset DEF Times
  <1>8. Acts(sched, sched')
    BY <1>5, <1>6, <1>7 DEF Acts, Core, Benign, Calm, NobodyWaits, BeginsNoWait
  <1>9. /\ sched'.notify[t] # "WAITING" /\ sched'.item[t] # 0 /\ sched'.current = t /\ sched'.nesting = sched.nesting
        /\ t # x => Awake(sched', t)
    BY <1>2, <1>5, <1>6, <1>7 DEF Benign, Calm, NobodyWaits, BeginsNoWait
  <1>10. Fits(t, w, sched')
    <2>1. CASE x = t
      <3>1. Fits(t, ToYield(Run), sched')
        BY <1>1, <1>2, <1>9, <2>1, RunIsPlain, YieldFits
      <3> QED
        BY <2>1, <3>1
    <2>2. CASE x # t
      BY <1>2, <1>9, <2>2, RunAgain
    <2> QED
      BY <2>1, <2>2
  <1> HIDE DEF w
  <1> QED
    BY <1>1, <1>2, <1>8, <1>10, Proceeds

LEMMA CheckTasksWaitingTerminationStep ==
    ASSUME KInv, program' = program, CheckTasksWaitingTermination
    PROVE  Scheduled
  <1>1. PICK x \in sched.terminating : sched' = Unlist(sched, {x})
    BY DEF CheckTasksWaitingTermination
  <1>2. Core(sched') /\ Benign(sched, sched')
    BY <1>1, Freed DEF KInv
  <1> QED
    BY <1>2, Unchanged DEF CheckTasksWaitingTermination

LEMMA IdleLoopsStep ==
    ASSUME KInv, program' = program, IdleLoops
    PROVE  Scheduled
  <1> DEFINE w == [pc |-> "resume", yields |-> FALSE, then |-> Run]
  <1>1. Idle = sched.current /\ call[Idle].pc = "run" /\ lastWake' = lastWake
        /\ \/ sched' = SuspendAll(sched) /\ call' = [call EXCEPT ![Idle] = w]
           \/ sched' = sched /\ call' = call
    BY DEF IdleLoops, At, Goto
  <1>2. Core(sched) /\ Idle \in Task /\ Idle # Daemon /\ Settled(sched)
    BY Constants DEF KInv
  <1>3. CASE sched' = SuspendAll(sched) /\ call' = [call EXCEPT ![Idle] = w]
    <2>1. /\ ~ WaitsForBits(call[Idle]) /\ ~ Gives(Idle, call[Idle]) /\ call[Idle].pc # "notified"
      BY <1>1 DEF WaitsForBits, Gives
    <2>2. sched.item[Idle] # 0 /\ sched.notify[Idle] # "WAITING" /\ Awake(sched, Idle) /\ sched.nesting \in Nat
      BY <1>1, <1>2, <2>1, RunsNow
    <2>3. Core(sched') /\ Calm(sched, sched') /\ Settled(sched') /\ sched'.nesting = sched.nesting + 1
      BY <1>2, <1>3, AllSuspended
    <2>4. Acts(sched, sched')
      BY <2>3 DEF Acts, Calm, NobodyWaits
    <2>5. /\ sched'.notify[Idle] # "WAITING" /\ sched'.item[Idle] # 0 /\ Awake(sched', Idle)
          /\ sched'.current = Idle /\ sched'.nesting \in Nat /\ sched'.nesting > 0
      BY <1>1, <1>2, <2>2, <2>3 DEF Calm, NobodyWaits, BeginsNoWait
    <2>6. Resuming(Idle, w) /\ w.yields = FALSE /\ w.then = Run
      BY RunIsPlain DEF Resuming
    <2>7. ~ Flat(Idle, Run)
      BY <1>2 DEF Flat, Run
    <2> HIDE DEF w
    <2>8. Fits(Idle, w, sched')
      BY <2>5, <2>6, <2>7, ResumeFits
    <2> QED
      BY <1>1, <1>2, <1>3, <2>4, <2>8, Proceeds
  <1>4. CASE sched' = sched /\ call' = call
    BY <1>1, <1>2, <1>4, BenignOnce, Unchanged
  <1> QED
    BY <1>1, <1>3, <1>4

(***************************************************************************)
(* Notifications: a call goes on to "then" when it has waited.             *)
(***************************************************************************)
LEMMA BeginsToWait ==
    ASSUME KInv, program' = program, lastWake' = lastWake, NEW t \in Task, t = sched.current, t \notin {Idle, Daemon},
           sched.nesting = 0, sched.item[t] # 0, Awake(sched, t), Notifiable(program, t),
           NEW w, call' = [call EXCEPT ![t] = w], {"pc", "then"} \subseteq DOMAIN w, w.pc = "notified",
           w.then.pc \in {"run", "sendWoken", "receiveWoken"}, Plain(t, w.then),
           Acts(sched, sched'), sched'.item = sched.item,
           sched'.current = sched.current => sched'.nesting = 0 /\ Awake(sched', sched'.current)
    PROVE  Scheduled
  <1>1. Notifying(t, w)
    BY DEF Notifying
  <1>2. Fits(t, w, sched')
    BY <1>1, NotifiedFits
  <1> QED
    BY <1>2, Proceeds

LEMMA NotifyTakeStep ==
    ASSUME KInv, program' = program, NEW t \in Task, NEW c \in program.calls[t], NotifyTake(t, c)
    PROVE  Scheduled
  <1> DEFINE w == [pc |-> "notified", take |-> TRUE, clear |-> c.clear, then |-> Run]
  <1>1. Calls(t, c, "notifyTake") /\ sched.nesting = 0 /\ lastWake' = lastWake /\ call' = [call EXCEPT ![t] = w]
        /\ (sched' \in Waiting(sched, c.ticks) \/ sched' = sched)
    BY DEF NotifyTake, Goto
  <1>2. /\ t = sched.current /\ c.op = "notifyTake" /\ CallOf(c) /\ Core(sched) /\ Settled(sched) /\ Awake(sched, t)
        /\ t # Idle /\ t # Daemon /\ sched.notify[t] # "WAITING" /\ sched.item[t] # 0
    BY <1>1, CallerRuns
  <1>3. c.ticks \in Time /\ Notifiable(program, t)
    BY <1>2 DEF CallOf, Notifiable, Time
  <1>4. /\ {"pc", "then"} \subseteq DOMAIN w /\ w.pc = "notified" /\ w.then = Run
    OBVIOUS
  <1> HIDE DEF w
  <1>5. /\ Acts(sched, sched') /\ sched'.item = sched.item
        /\ sched'.current = sched.current => sched'.nesting = 0 /\ Awake(sched', sched'.current)
    <2>1. CASE sched' \in Waiting(sched, c.ticks)
      BY <1>1, <1>2, <1>3, <2>1, StartsToWait
    <2>2. CASE sched' = sched
      BY <1>1, <1>2, <2>2, BenignOnce, BenignActs
    <2> QED
      BY <1>1, <2>1, <2>2
  <1> QED
    BY <1>1, <1>2, <1>3, <1>4, <1>5, RunIsPlain, BeginsToWait

LEMMA NotifyWaitStep ==
    ASSUME KInv, program' = program, NEW t \in Task, NEW c \in program.calls[t], NotifyWait(t, c)
    PROVE  Scheduled
  <1> DEFINE w == NotifyWaitGoes(c.exit, Run)
  <1>1. Calls(t, c, "notifyWait") /\ sched.nesting = 0 /\ lastWake' = lastWake /\ call' = [call EXCEPT ![t] = w]
        /\ sched' \in WaitForNotification(sched, c.ticks, c.entry)
    BY DEF NotifyWait, Goto
  <1>2. /\ t = sched.current /\ c.op = "notifyWait" /\ CallOf(c) /\ Core(sched) /\ Settled(sched) /\ Awake(sched, t)
        /\ t # Idle /\ t # Daemon /\ sched.notify[t] # "WAITING" /\ sched.item[t] # 0
    BY <1>1, CallerRuns
  <1>3. c.ticks \in Time /\ Notifiable(program, t)
    BY <1>2 DEF CallOf, Notifiable, Time
  <1>4. /\ {"pc", "then"} \subseteq DOMAIN w /\ w.pc = "notified" /\ w.then = Run
    BY DEF NotifyWaitGoes
  <1> HIDE DEF w
  <1>5. /\ Acts(sched, sched') /\ sched'.item = sched.item
        /\ sched'.current = sched.current => sched'.nesting = 0 /\ Awake(sched', sched'.current)
    BY <1>1, <1>2, <1>3, WaitsForNotification
  <1> QED
    BY <1>1, <1>2, <1>3, <1>4, <1>5, RunIsPlain, BeginsToWait

LEMMA StateCleared ==
    ASSUME NEW s, Core(s), NEW x \in Task, NEW u,
           u = [s EXCEPT !.notify[x] = IF @ = "RECEIVED" THEN "NOT_WAITING" ELSE @]
    PROVE  /\ Core(u) /\ Benign(s, u) /\ u.nesting = s.nesting /\ u.current = s.current
  <1> DEFINE v == [s EXCEPT !.notify[x] = IF @ = "RECEIVED" THEN "NOT_WAITING" ELSE @]
  <1>0. u = v
    OBVIOUS
  <1>1. DOMAIN s = Fields /\ s.notify \in [Task -> Notices]
    BY CoreParts DEF Types, Notices
  <1>2. Same(s, v, {"notify", "value"})
        /\ v.notify = [s.notify EXCEPT ![x] = IF @ = "RECEIVED" THEN "NOT_WAITING" ELSE @]
    BY <1>1 DEF Same, Fields
  <1> HIDE DEF v
  <1>3. v.notify \in [Task -> Notices]
    BY <1>1, <1>2 DEF Notices
  <1>4. \A y \in Task : v.notify[y] = "WAITING" => s.notify[y] = "WAITING"
    BY <1>1, <1>2 DEF Notices
  <1>5. Core(v) /\ Benign(s, v) /\ v.nesting = s.nesting /\ v.current = s.current
    BY <1>2, <1>3, <1>4, Quieted
  <1> QED
    BY <1>0, <1>5

LEMMA NotifyStateClearStep ==
    ASSUME KInv, program' = program, NEW t \in Task, NEW c \in program.calls[t], NotifyStateClear(t, c)
    PROVE  Scheduled
  <1> DEFINE x == c.task
  <1>1. Calls(t, c, "notifyStateClear") /\ lastWake' = lastWake /\ call' = call
        /\ sched' = [sched EXCEPT !.notify[x] = IF @ = "RECEIVED" THEN "NOT_WAITING" ELSE @]
    BY DEF NotifyStateClear
  <1>2. c.op = "notifyStateClear" /\ CallOf(c) /\ Core(sched)
    BY <1>1, CallerRuns
  <1>3. x \in Task
    BY <1>2 DEF CallOf
  <1> HIDE DEF x
  <1>4. Core(sched') /\ Benign(sched, sched')
    BY <1>1, <1>2, <1>3, StateCleared
  <1> QED
    BY <1>1, <1>4, Unchanged

LEMMA GenericNotifyStep ==
    ASSUME KInv, program' = program, NEW t \in Task, NEW c \in program.calls[t], GenericNotify(t, c)
    PROVE  Scheduled
  <1> DEFINE x == c.task
             v == Notify(sched, x, c.action, c.value)
             required == NotifyPreempts(sched, x)
  <1>1. Calls(t, c, "notify") /\ lastWake' = lastWake /\ call' = call /\ sched' \in SwitchIf(required, v)
    BY DEF GenericNotify
  <1>2. c.op = "notify" /\ CallOf(c) /\ Core(sched)
    BY <1>1, CallerRuns
  <1>3. x \in Task
    BY <1>2 DEF CallOf
  <1> HIDE DEF x, required
  <1>4. Core(v) /\ Benign(sched, v)
    BY <1>2, <1>3, NotifiedTask
  <1> HIDE DEF v
  <1> QED
    BY <1>1, <1>4, Switches

(***************************************************************************)
(* Interrupts.                                                             *)
(***************************************************************************)
LEMMA IncrementTickStep ==
    ASSUME KInv, program' = program, IncrementTick
    PROVE  Scheduled
  <1> DEFINE a == [sched EXCEPT !.pended = @ + 1]
             b == Advance(sched)
             required == SwitchRequired(sched)
  <1>1. lastWake' = lastWake /\ call' = call
        /\ \/ sched.nesting > 0 /\ sched' \in SwitchIf(sched.yield, a)
           \/ ~ (sched.nesting > 0) /\ sched' \in SwitchIf(required, b)
    BY DEF IncrementTick
  <1> HIDE DEF required
  <1>2. Core(sched) /\ Lists(sched, {}) /\ Times(sched) /\ Settled(sched) /\ DOMAIN sched = Fields
        /\ sched.nesting \in Nat /\ sched.pended \in Nat /\ sched.overflows \in Nat
    BY CoreParts DEF KInv
  <1>3. CASE sched.nesting > 0 /\ sched' \in SwitchIf(sched.yield, a)
    <2>1. Same(sched, a, {"pended"}) /\ a.pended = sched.pended + 1
      BY <1>2 DEF Same, Fields
    <2> HIDE DEF a
    <2>2. a.nesting = sched.nesting /\ a.overflows = sched.overflows /\ a.tick = sched.tick
      BY <2>1 DEF Same, Fields
    <2>3. Same(sched, a, {"yield", "value", "flags", "held", "nesting", "pended", "overflows"})
      BY <2>1 DEF Same
    <2>4. Lists(a, {}) /\ Times(a) /\ Calm(sched, a)
      BY <1>2, <2>1, <2>2, <2>3, Unconcerned
    <2>5. Benign(sched, a)
      BY <1>2, <1>3, <2>2, <2>4 DEF Benign, Settled
    <2> QED
      BY <1>1, <1>3, <2>4, <2>5, Switches DEF Core
  <1>4. CASE ~ (sched.nesting > 0) /\ sched' \in SwitchIf(required, b)
    <2>1. /\ Core(b) /\ Calm(sched, b) /\ b.nesting = sched.nesting /\ b.pended = sched.pended
          /\ sched.pending = << >> => b.pending = << >>
      BY <1>2, Advanced
    <2> HIDE DEF b
    <2>2. Benign(sched, b)
      BY <1>2, <1>4, <2>1 DEF Benign, Settled
    <2> QED
      BY <1>1, <1>4, <2>1, <2>2, Switches
  <1> QED
    BY <1>1, <1>3, <1>4

\* A task that waits for a notification is in a call that does.
LEMMA WaitersCall ==
    ASSUME KInv, NEW x \in Task, sched.notify[x] = "WAITING"
    PROVE  /\ x = sched.current => sched.nesting = 0
           /\ Notifiable(program, x)
  <1>1. Fits(x, call[x], sched) /\ call[x].pc = "notified"
    BY DEF KInv, CallsFit, Fits
  <1>2. Flat(x, call[x])
    BY <1>1 DEF Flat
  <1>3. Notifying(x, call[x])
    BY <1>1 DEF Fits, Shape, Plain, TakePCs, SendPCs, ReceivePCs, DaemonPCs, OtherPCs, Yielding, Resuming, Switching
  <1> QED
    BY <1>1, <1>2, <1>3 DEF Fits, Notifying

LEMMA InterruptNotifiesStep ==
    ASSUME KInv, program' = program, NEW c \in program.isr, InterruptNotifies(c)
    PROVE  Scheduled
  <1> DEFINE x == c.task
             v == NotifyFromISR(sched, x, c.action, c.value)
             required == NotifyPreempts(sched, x)
  <1>1. c.op = "notify" /\ lastWake' = lastWake /\ call' = call /\ sched' \in SwitchIf(required, v)
    BY DEF InterruptNotifies
  <1>2. InterruptOf(program, c) /\ Core(sched)
    BY KernelAssumption DEF KInv
  <1>3. x \in Task
    BY <1>1, <1>2 DEF InterruptOf
  <1> HIDE DEF x, required
  <1>4. Core(v) /\ Benign(sched, v)
    BY <1>2, <1>3, NotifiedFromISR, WaitersCall
  <1> HIDE DEF v
  <1> QED
    BY <1>1, <1>4, Switches

LEMMA ResumeFromISRStep ==
    ASSUME KInv, program' = program, NEW c \in program.isr, ResumeFromISR(c)
    PROVE  Scheduled
  <1> DEFINE x == c.task
             ts == {x}
             v == MakeReady(sched, ts)
             a == [sched EXCEPT !.pending = Append(@, x)]
             required == sched.prio[x] >= sched.prio[sched.current]
  <1>1. c.op = "resume" /\ lastWake' = lastWake /\ call' = call /\ TaskIsTaskSuspended(sched, x)
        /\ \/ sched' \in SwitchIf(required, v)
           \/ sched.nesting # 0 /\ sched' = a
    BY DEF ResumeFromISR
  <1>2. InterruptOf(program, c) /\ Core(sched) /\ Settled(sched)
    BY KernelAssumption DEF KInv
  <1>3. x \in Task /\ ~ Notifiable(program, x)
    BY <1>1, <1>2 DEF InterruptOf
  <1>4. ts \in SUBSET Task /\ \A y : y \in ts <=> y = x
    BY <1>3
  <1> HIDE DEF x, ts, required
  <1>5. x \in sched.suspended /\ x \notin Range(sched.pending) /\ \A l \in EventList : x \notin Range(sched.events[l])
    BY <1>1 DEF TaskIsTaskSuspended, Attached
  <1>6. CASE sched' \in SwitchIf(required, v)
    <2>1. /\ \A l \in EventList : ts \cap Range(sched.events[l]) = {}
          /\ sched.current \in ts => sched.current \notin Range(sched.pending)
      BY <1>4, <1>5
    <2>2. Lists(v, {}) /\ Times(v) /\ Benign(sched, v)
      BY <1>2, <1>4, <2>1, MadeReady DEF Core
    <2> HIDE DEF v
    <2> QED
      BY <1>1, <1>6, <2>2, Switches DEF Core
  <1>7. CASE sched.nesting # 0 /\ sched' = a
    <2>1. sched.notify[x] # "WAITING"
      BY <1>3, WaitersCall
    <2>2. sched.nesting > 0
      BY <1>2, <1>7, CoreParts
    <2>3. ~ Awake(sched, x)
      BY <1>2, <1>3, <1>5, AwakeIsFree DEF Blocked
    <2>4. Core(a) /\ Benign(sched, a)
      BY <1>2, <1>3, <1>5, <2>1, <2>2, <2>3, PendingAppended
    <2> HIDE DEF a
    <2> QED
      BY <1>1, <1>7, <2>4, Unchanged
  <1> QED
    BY <1>1, <1>6, <1>7

LEMMA InterruptYieldsStep ==
    ASSUME KInv, program' = program, NEW c \in program.isr, InterruptYields(c)
    PROVE  Scheduled
  BY SwitchesAtOnce DEF InterruptYields

LEMMA TasksStep ==
    ASSUME KInv, TasksNext
    PROVE  Scheduled
  <1>1. program' = program
    BY DEF TasksNext
  <1>2. ASSUME NEW t \in Task, TaskStep(t) PROVE Scheduled
    BY <1>1, <1>2, YieldStep, ResumeStep, SuspendEndsStep, NotifyEndsStep, TaskYieldStep, CallSuspendAllStep,
       CallResumeAllStep, DelayStep, DelayUntilStep, SuspendStep, TaskResumeStep, PrioritySetStep, CreateStep,
       CreateEndsStep, DeleteStep, NotifyTakeStep, NotifyWaitStep, GenericNotifyStep, NotifyStateClearStep DEF TaskStep
  <1>3. ASSUME Interrupt PROVE Scheduled
    BY <1>1, <1>3, IncrementTickStep, InterruptNotifiesStep, ResumeFromISRStep, InterruptYieldsStep DEF Interrupt
  <1> QED
    BY <1>1, <1>2, <1>3, CheckTasksWaitingTerminationStep, IdleLoopsStep DEF TasksNext

-----------------------------------------------------------------------------
(***************************************************************************)
(* A wait that goes on does so for what is left of its time.               *)
(***************************************************************************)
TimeLeftWell(s, out) ==
    /\ TicksLeft(s, out) \in [overflows : Nat, since : Time, ticks : Time]
    /\ out.ticks > 0 /\ ~ TimedOut(s, out) => TicksLeft(s, out).ticks > 0

LEMMA TimeLeft ==
    ASSUME NEW s, Core(s), NEW out \in [overflows : Nat, since : Time, ticks : Time]
    PROVE  TimeLeftWell(s, out)
  <1> DEFINE elapsed == Wrap(s.tick - out.since)
             late == s.overflows # out.overflows /\ s.tick >= out.since
  <1>1. s.tick \in Time /\ s.overflows \in Nat /\ out.since \in Time /\ out.ticks \in Time
    BY CoreParts
  <1>2. elapsed \in Time
    <2>1. s.tick - out.since \in Int
      BY <1>1, TimeIsInt
    <2> QED
      BY <2>1, Wrapped
  <1> HIDE DEF elapsed, late
  <1>3. \/ TicksLeft(s, out) = out
        \/ elapsed < out.ticks /\ TicksLeft(s, out) = TimeOutState(s, out.ticks - elapsed)
        \/ ~ (elapsed < out.ticks) /\ out.ticks # portMAX_DELAY /\ TicksLeft(s, out) = [out EXCEPT !.ticks = 0]
    BY DEF TicksLeft, elapsed, late
  <1>4. CASE TicksLeft(s, out) = out
    BY <1>4 DEF TimeLeftWell
  <1>5. CASE elapsed < out.ticks /\ TicksLeft(s, out) = TimeOutState(s, out.ticks - elapsed)
    <2>1. out.ticks - elapsed \in Time /\ out.ticks - elapsed > 0
      BY <1>1, <1>2, <1>5, Constants
    <2> QED
      BY <1>1, <1>5, <2>1 DEF TimeLeftWell, TimeOutState
  <1>6. CASE ~ (elapsed < out.ticks) /\ out.ticks # portMAX_DELAY /\ TicksLeft(s, out) = [out EXCEPT !.ticks = 0]
    <2>1. TimedOut(s, out)
      BY <1>1, <1>2, <1>6, TimeIsInt DEF TimedOut, elapsed
    <2>2. [out EXCEPT !.ticks = 0] \in [overflows : Nat, since : Time, ticks : Time]
      BY TimeIsInt
    <2> QED
      BY <1>6, <2>1, <2>2 DEF TimeLeftWell
  <1> QED
    BY <1>3, <1>4, <1>5, <1>6

-----------------------------------------------------------------------------
(***************************************************************************)
(* The steps of a call that waits at an object.                            *)
(***************************************************************************)
ObjectPCs == TakePCs \cup SendPCs \cup ReceivePCs \cup OtherPCs \cup {"timerSend"}

LEMMA InCall ==
    ASSUME KInv, NEW t \in Task, t = sched.current, call[t].pc \in ObjectPCs
    PROVE  /\ Plain(t, call[t]) /\ t # Idle /\ t # Daemon /\ Quiet(call[t])
           /\ Core(sched) /\ Settled(sched) /\ sched.notify[t] # "WAITING" /\ sched.nesting \in Nat
           /\ sched.item[t] # 0 \/ call[t].pc = "waitedForBits"
           /\ Awake(sched, t) \/ call[t].pc = "takeUnlockYield"
           /\ Nested(t, call[t]) => sched.nesting > 0
           /\ Flat(t, call[t]) => sched.nesting = 0
           /\ Once(t, call[t]) => sched.nesting = 1
  <1> DEFINE c == call[t]
  <1>1. c.pc \in ObjectPCs
    OBVIOUS
  <1> HIDE DEF c
  <1>2. c.pc \notin {"run", "resume", "yield", "notified", "timerSwitch", "suspended", "timerUnlock", "timerExpired", "timerObeys"}
        /\ c.pc \notin DaemonPCs
    BY <1>1 DEF ObjectPCs, TakePCs, SendPCs, ReceivePCs, DaemonPCs, OtherPCs
  <1>3. Shape(t, c)
    BY RunsNow DEF c
  <1>4. Plain(t, c)
    BY <1>2, <1>3 DEF Shape, Resuming, Yielding, Notifying, Switching
  <1>5. t # Idle /\ t # Daemon
    BY <1>2, <1>4 DEF Plain
  <1>6. (Gives(t, c) => c.pc = "takeUnlockYield") /\ (WaitsForBits(c) => c.pc = "waitedForBits") /\ Quiet(c)
    BY <1>2 DEF Gives, WaitsForBits, Quiet
  <1> QED
    BY <1>2, <1>4, <1>5, <1>6, RunsNow DEF c

\* The task goes on; the scheduler is the same, or it may switch.
LEMMA Moved ==
    ASSUME NEW s, Core(s), NEW u, Core(u), Moves(s, u), NEW t \in Task, t = s.current,
           s.notify[t] # "WAITING", s.item[t] # 0, Awake(s, t)
    PROVE  /\ Acts(s, u) /\ u.notify[t] # "WAITING" /\ u.item[t] # 0 /\ u.nesting = s.nesting
           /\ t = u.current => Awake(u, t)
           /\ s.nesting > 0 => t = u.current
  BY DEF Moves, Goes, Acts, NobodyWaits, BeginsNoWait

LEMMA Stays ==
    ASSUME KInv, program' = program, lastWake' = lastWake, sched' = sched,
           NEW t \in Task, t = sched.current, t # Daemon, NEW w, call' = [call EXCEPT ![t] = w], Fits(t, w, sched)
    PROVE  Scheduled
  <1>1. Core(sched) /\ Settled(sched)
    BY DEF KInv
  <1>2. Acts(sched, sched')
    BY <1>1, BenignOnce, BenignActs
  <1> QED
    BY <1>2, Proceeds

LEMMA NothingChanges ==
    ASSUME KInv, program' = program, lastWake' = lastWake, sched' = sched, call' = call
    PROVE  Scheduled
  BY BenignOnce, Unchanged DEF KInv

-----------------------------------------------------------------------------
(***************************************************************************)
(* The steps of Semaphores.                                                *)
(***************************************************************************)
SemaphoreRecord ==
    [count : Int, holder : Task \cup {Nobody}, calls : Int, lock : Int, inSet : BOOLEAN]

LEMMA SemaphoreParts ==
    ASSUME SemaphoresTyped, NEW q \in Semaphore
    PROVE  /\ semaphore[q] \in SemaphoreRecord
           /\ semaphore[q].count \in Int /\ semaphore[q].calls \in Int /\ semaphore[q].lock \in Int
           /\ semaphore[q].holder \in Task \cup {Nobody} /\ semaphore[q].inSet \in BOOLEAN
  <1>1. semaphore[q] \in SemaphoreRecord
    BY DEF SemaphoresTyped, SemaphoreRecord
  <1> QED
    BY <1>1 DEF SemaphoreRecord

LEMMA SemaphoreChanged ==
    ASSUME SemaphoresTyped, NEW q \in Semaphore, NEW m \in SemaphoreRecord, semaphore' = [semaphore EXCEPT ![q] = m]
    PROVE  SemaphoresTyped'
  BY DEF SemaphoresTyped, SemaphoreRecord

LEMMA SemaphoreSame ==
    ASSUME SemaphoresTyped, semaphore' = semaphore
    PROVE  SemaphoresTyped'
  BY DEF SemaphoresTyped

LEMMA RecordGiven ==
    ASSUME NEW m \in SemaphoreRecord, NEW h \in Task \cup {Nobody}, NEW k \in Int, NEW n \in Int
    PROVE  [m EXCEPT !.count = n, !.holder = h, !.calls = k] \in SemaphoreRecord
  BY DEF SemaphoreRecord

LEMMA RecordCounted ==
    ASSUME NEW m \in SemaphoreRecord, NEW n \in Int
    PROVE  [m EXCEPT !.count = n] \in SemaphoreRecord
  BY DEF SemaphoreRecord

LEMMA RecordOwed ==
    ASSUME NEW m \in SemaphoreRecord, NEW n \in Int, NEW k \in Int
    PROVE  [m EXCEPT !.count = n, !.lock = k] \in SemaphoreRecord
  BY DEF SemaphoreRecord

LEMMA TakeDone ==
    ASSUME SemaphoresTyped, NEW t \in Task, NEW w, w.sem \in Semaphore, Take(t, w), semaphore[w.sem].count > 0
    PROVE  SemaphoresTyped'
  <1> DEFINE q == w.sem
             m == semaphore[q]
             k == IF Kind[q] = "recursive" THEN 1 ELSE 0
             n == m.count - 1
  <1>1. CASE IsMutex(q)
    <2>1. semaphore' = [semaphore EXCEPT ![q] = [m EXCEPT !.count = 0, !.holder = t, !.calls = k]]
      BY <1>1 DEF Take
    <2>2. k \in Int /\ m \in SemaphoreRecord /\ t \in Task \cup {Nobody} /\ 0 \in Int
      BY SemaphoreParts
    <2> DEFINE a == [m EXCEPT !.count = 0, !.holder = t, !.calls = k]
    <2>3. semaphore' = [semaphore EXCEPT ![q] = a]
      BY <2>1
    <2> HIDE DEF m, k
    <2>4. a \in SemaphoreRecord
      BY <2>2, RecordGiven
    <2> HIDE DEF a
    <2> QED
      BY <2>3, <2>4, SemaphoreChanged
  <1>2. CASE ~ IsMutex(q)
    <2>1. semaphore' = [semaphore EXCEPT ![q] = [m EXCEPT !.count = @ - 1]]
      BY <1>2 DEF Take
    <2>2. m \in SemaphoreRecord /\ n \in Int
      BY SemaphoreParts
    <2> DEFINE a == [m EXCEPT !.count = n]
    <2>3. semaphore' = [semaphore EXCEPT ![q] = a]
      BY <2>1
    <2> HIDE DEF m, n
    <2>4. a \in SemaphoreRecord
      BY <2>2, RecordCounted
    <2> HIDE DEF a
    <2> QED
      BY <2>3, <2>4, SemaphoreChanged
  <1> QED
    BY <1>1, <1>2

\* A call that takes, wherever it is.
LEMMA TakeIsPlain ==
    ASSUME NEW t, t # Idle, t # Daemon, NEW w, TakeCall(w), w.pc \in TakePCs
    PROVE  Plain(t, w)
  <1>1. "pc" \in DOMAIN w
    BY DEF TakeCall
  <1>2. w.pc \notin SendPCs /\ w.pc \notin ReceivePCs /\ w.pc \notin DaemonPCs /\ w.pc # "timerSend"
    BY DEF TakePCs, SendPCs, ReceivePCs, DaemonPCs
  <1> QED
    BY <1>1, <1>2 DEF Plain

LEMMA HeldMore ==
    ASSUME NEW s, Core(s), NEW t \in Task, NEW n
    PROVE  Core([s EXCEPT !.held[t] = n]) /\ Benign(s, [s EXCEPT !.held[t] = n])
  <1> DEFINE u == [s EXCEPT !.held[t] = n]
  <1>1. DOMAIN s = Fields /\ s.nesting \in Nat /\ s.pended \in Nat /\ s.overflows \in Nat
    BY CoreParts
  <1>2. Same(s, u, {"held"})
    BY <1>1 DEF Same, Fields
  <1> HIDE DEF u
  <1>3. /\ u.nesting = s.nesting /\ u.pended = s.pended /\ u.overflows = s.overflows /\ u.pending = s.pending
        /\ u.tick = s.tick
    BY <1>2 DEF Same, Fields
  <1>4. Same(s, u, {"yield", "value", "flags", "held", "nesting", "pended", "overflows"})
    BY <1>2 DEF Same
  <1>5. Lists(u, {}) /\ Times(u) /\ Calm(s, u)
    BY <1>1, <1>3, <1>4, Unconcerned, CoreParts
  <1>6. Core(u) /\ Benign(s, u)
    BY <1>3, <1>5 DEF Core, Benign, Settled
  <1> QED
    BY <1>6 DEF u

LEMMA TakeStep ==
    ASSUME KInv, program' = program, lastWake' = lastWake, NEW t \in Task, t = sched.current, t # Idle, t # Daemon,
           sched.notify[t] # "WAITING", sched.item[t] # 0, Awake(sched, t),
           NEW w, Plain(t, w), w.pc = "take", w.out.ticks > 0 => sched.nesting = 0, Take(t, w)
    PROVE  Scheduled /\ SemaphoresTyped'
  <1> DEFINE q == w.sem
             m == semaphore[q]
             a == [sched EXCEPT !.held[t] = @ + 1]
             w1 == [w EXCEPT !.pc = "takeWaits"]
  <1>1. TakeCall(w)
    BY DEF Plain, TakePCs
  <1>2. \/ m.count > 0 /\ sched' \in {a, sched} /\ call' = [call EXCEPT ![t] = Run]
        \/ /\ sched' = sched /\ semaphore' = semaphore
           /\ w.out.ticks # 0 /\ call' = [call EXCEPT ![t] = w1]
        \/ sched' = sched /\ semaphore' = semaphore /\ call' = [call EXCEPT ![t] = Run]
    <2>1. CASE m.count > 0
      BY <2>1 DEF Take, Goto
    <2>2. CASE ~ (m.count > 0)
      BY <2>2 DEF Take, Goto
    <2> QED
      BY <2>1, <2>2
  <1>3. q \in Semaphore /\ w.out.ticks \in Time /\ SemaphoresTyped /\ Core(sched) /\ Settled(sched)
    BY <1>1 DEF TakeCall, KInv
  <1>5. CASE m.count > 0 /\ sched' \in {a, sched} /\ call' = [call EXCEPT ![t] = Run]
    <2>1. SemaphoresTyped'
      BY <1>3, <1>5, TakeDone
    <2>2. Core(sched') /\ Benign(sched, sched')
      <3> DEFINE n == sched.held[t] + 1
                 b == [sched EXCEPT !.held[t] = n]
      <3>0. a = b
        OBVIOUS
      <3> HIDE DEF n, a
      <3>1. Core(b) /\ Benign(sched, b)
        BY <1>3, HeldMore
      <3> HIDE DEF b
      <3> QED
        BY <1>3, <1>5, <3>0, <3>1, BenignOnce
    <2>3. Acts(sched, sched')
      BY <1>3, <2>2, BenignActs
    <2>4. sched'.notify[t] # "WAITING" /\ sched'.item[t] # 0 /\ (t = sched'.current => Awake(sched', t))
      BY <2>2 DEF Benign, Calm, NobodyWaits, BeginsNoWait
    <2>5. Fits(t, Run, sched')
      BY <2>4, RunAgain
    <2> QED
      BY <1>5, <2>1, <2>3, <2>5, Proceeds
  <1>6. CASE sched' = sched /\ semaphore' = semaphore /\ w.out.ticks # 0 /\ call' = [call EXCEPT ![t] = w1]
    <2>1. w.out.ticks > 0 /\ sched.nesting = 0
      BY <1>3, <1>6, TimeIsInt
    <2>2. TakeCall(w1) /\ w1.pc = "takeWaits"
      BY <1>1, <2>1 DEF TakeCall
    <2> HIDE DEF w1
    <2>3. Plain(t, w1)
      BY <2>2, TakeIsPlain DEF TakePCs
    <2>4. Fits(t, w1, sched)
      BY <2>1, <2>2, <2>3, FlatFits
    <2> QED
      BY <1>3, <1>6, <2>4, Stays, SemaphoreSame
  <1>7. CASE sched' = sched /\ semaphore' = semaphore /\ call' = [call EXCEPT ![t] = Run]
    <2>1. Fits(t, Run, sched)
      BY RunAgain
    <2> QED
      BY <1>3, <1>7, <2>1, Stays, SemaphoreSame
  <1> QED
    BY <1>2, <1>5, <1>6, <1>7

LEMMA SemaphoreTakeStep ==
    ASSUME KInv, program' = program, NEW t \in Task, NEW c \in program.calls[t], SemaphoreTake(t, c)
    PROVE  Scheduled /\ SemaphoresTyped'
  <1> DEFINE out == TimeOutState(sched, c.ticks)
             w == [pc |-> "take", sem |-> c.sem, out |-> out,
                   until |-> Wrap(sched.tick + c.ticks), inherited |-> FALSE, expired |-> FALSE]
  <1>1. Calls(t, c, "take") /\ lastWake' = lastWake /\ (c.ticks > 0 => sched.nesting = 0) /\ Take(t, w)
    BY DEF SemaphoreTake
  <1>2. /\ t = sched.current /\ c.op = "take" /\ CallOf(c) /\ Core(sched) /\ Awake(sched, t)
        /\ t # Idle /\ t # Daemon /\ sched.notify[t] # "WAITING" /\ sched.item[t] # 0
    BY <1>1, CallerRuns
  <1>3. c.sem \in Semaphore /\ c.ticks \in Time /\ sched.tick \in Time /\ sched.overflows \in Nat
    BY <1>2, CoreParts DEF CallOf, Time
  <1>4. out \in [overflows : Nat, since : Time, ticks : Time] /\ out.ticks = c.ticks
    BY <1>3 DEF TimeOutState
  <1> HIDE DEF out
  <1>5. TakeCall(w) /\ w.pc = "take" /\ w.out = out
    BY <1>3, <1>4 DEF TakeCall
  <1> HIDE DEF w
  <1>6. Plain(t, w)
    BY <1>2, <1>5, TakeIsPlain DEF TakePCs
  <1> QED
    BY <1>1, <1>2, <1>4, <1>5, <1>6, TakeStep

LEMMA SemaphoreTakeAgainStep ==
    ASSUME KInv, program' = program, NEW t \in Task, SemaphoreTakeAgain(t)
    PROVE  Scheduled /\ SemaphoresTyped'
  <1>1. t = sched.current /\ call[t].pc = "take" /\ lastWake' = lastWake /\ Take(t, call[t])
    BY DEF SemaphoreTakeAgain, At
  <1>2. call[t].pc \in ObjectPCs /\ Flat(t, call[t])
    BY <1>1 DEF ObjectPCs, TakePCs, Flat
  <1>3. /\ Plain(t, call[t]) /\ t # Idle /\ t # Daemon /\ sched.notify[t] # "WAITING"
        /\ sched.item[t] # 0 /\ Awake(sched, t) /\ sched.nesting = 0
    BY <1>1, <1>2, InCall
  <1> QED
    BY <1>1, <1>3, TakeStep

LEMMA TakeMutexRecursiveStep ==
    ASSUME KInv, program' = program, NEW t \in Task, NEW c \in program.calls[t], TakeMutexRecursive(t, c)
    PROVE  Scheduled /\ SemaphoresTyped'
  <1> DEFINE q == c.sem
             n == [semaphore[q] EXCEPT !.calls = @ + 1]
  <1>1. Calls(t, c, "take") /\ semaphore' = [semaphore EXCEPT ![q] = n]
        /\ lastWake' = lastWake /\ sched' = sched /\ call' = call
    BY DEF TakeMutexRecursive
  <1>2. q \in Semaphore /\ SemaphoresTyped
    BY <1>1, CallerRuns DEF CallOf, KInv
  <1>3. n \in SemaphoreRecord
    BY <1>2, SemaphoreParts DEF SemaphoreRecord
  <1> HIDE DEF n
  <1> QED
    BY <1>1, <1>2, <1>3, SemaphoreChanged, NothingChanges

LEMMA TakeSuspendsStep ==
    ASSUME KInv, program' = program, NEW t \in Task, TakeSuspends(t)
    PROVE  Scheduled /\ SemaphoresTyped'
  <1> DEFINE w == [call[t] EXCEPT !.pc = "takeLock"]
  <1>1. t = sched.current /\ call[t].pc = "takeWaits" /\ sched' = SuspendAll(sched) /\ call' = [call EXCEPT ![t] = w]
        /\ lastWake' = lastWake /\ semaphore' = semaphore
    BY DEF TakeSuspends, At, Goto
  <1>2. call[t].pc \in ObjectPCs /\ Flat(t, call[t])
    BY <1>1 DEF ObjectPCs, TakePCs, Flat
  <1>3. /\ Plain(t, call[t]) /\ t # Idle /\ t # Daemon /\ sched.notify[t] # "WAITING" /\ Core(sched) /\ Settled(sched)
        /\ sched.item[t] # 0 /\ Awake(sched, t) /\ sched.nesting = 0
    BY <1>1, <1>2, InCall
  <1>4. TakeCall(call[t])
    BY <1>1, <1>3 DEF Plain, TakePCs
  <1>5. TakeCall(w) /\ w.pc = "takeLock"
    BY <1>1, <1>4 DEF TakeCall
  <1> HIDE DEF w
  <1>6. Plain(t, w)
    BY <1>3, <1>5, TakeIsPlain DEF TakePCs
  <1>7. Core(sched') /\ Calm(sched, sched') /\ Settled(sched') /\ sched'.nesting = 1
    BY <1>1, <1>3, AllSuspended
  <1>8. /\ Acts(sched, sched') /\ sched'.notify[t] # "WAITING" /\ sched'.item[t] # 0
        /\ t = sched'.current /\ Awake(sched', t)
    BY <1>1, <1>3, <1>7 DEF Acts, Calm, NobodyWaits, BeginsNoWait
  <1>9. Fits(t, w, sched')
    BY <1>5, <1>6, <1>7, <1>8, OnceFits
  <1> QED
    BY <1>1, <1>3, <1>8, <1>9, Proceeds, SemaphoreSame DEF KInv

LEMMA TakeLocksStep ==
    ASSUME KInv, program' = program, NEW t \in Task, TakeLocks(t)
    PROVE  Scheduled /\ SemaphoresTyped'
  <1> DEFINE c == call[t]
             q == c.sem
             m == [semaphore[q] EXCEPT !.lock = IF @ = queueUNLOCKED THEN queueLOCKED_UNMODIFIED ELSE @]
             left == TicksLeft(sched, c.out)
             over == TimedOut(sched, c.out)
             w == [c EXCEPT !.expired = over, !.out = left, !.pc = IF over THEN "takeUnlock" ELSE "takeTest"]
  <1>1. t = sched.current /\ c.pc = "takeLock" /\ semaphore' = [semaphore EXCEPT ![q] = m]
        /\ call' = [call EXCEPT ![t] = w] /\ lastWake' = lastWake /\ sched' = sched
    BY DEF TakeLocks, At, Goto
  <1>2. c.pc \in ObjectPCs /\ Once(t, c)
    BY <1>1 DEF ObjectPCs, TakePCs, Once, OncePCs
  <1>3. /\ Plain(t, c) /\ t # Idle /\ t # Daemon /\ sched.notify[t] # "WAITING" /\ Core(sched)
        /\ sched.item[t] # 0 /\ Awake(sched, t) /\ sched.nesting = 1
    BY <1>1, <1>2, InCall
  <1>4. TakeCall(c)
    BY <1>1, <1>3 DEF Plain, TakePCs
  <1>5. q \in Semaphore /\ SemaphoresTyped /\ c.out \in [overflows : Nat, since : Time, ticks : Time] /\ c.out.ticks > 0
    BY <1>1, <1>4 DEF TakeCall, KInv
  <1>6. m \in SemaphoreRecord
    BY <1>5, SemaphoreParts DEF SemaphoreRecord, queueUNLOCKED, queueLOCKED_UNMODIFIED
  <1>7. left \in [overflows : Nat, since : Time, ticks : Time] /\ (~ over => left.ticks > 0)
    BY <1>3, <1>5, TimeLeft DEF TimeLeftWell
  <1> HIDE DEF m, left, over
  <1>8. TakeCall(w) /\ w.pc \in {"takeUnlock", "takeTest"}
    BY <1>4, <1>7 DEF TakeCall
  <1> HIDE DEF w, c
  <1>9. Plain(t, w)
    BY <1>3, <1>8, TakeIsPlain DEF TakePCs
  <1>10. Fits(t, w, sched)
    BY <1>1, <1>3, <1>8, <1>9, OnceFits
  <1> QED
    BY <1>1, <1>3, <1>5, <1>6, <1>10, Stays, SemaphoreChanged

\* The task has begun to wait, and has its own semaphore to unlock first.
LEMMA TakePlacesStep ==
    ASSUME KInv, program' = program, NEW t \in Task, TakePlaces(t)
    PROVE  Scheduled /\ SemaphoresTyped'
  <1> DEFINE c == call[t]
             q == c.sem
             m == semaphore[q]
             s == IF IsMutex(q) THEN Inherit(sched, m.holder) ELSE sched
             i == IsMutex(q) /\ InheritanceOccurred(sched, m.holder)
             w1 == [c EXCEPT !.pc = "takeUnlock"]
             w2 == [c EXCEPT !.pc = "takeUnlockYield", !.inherited = i]
  <1>1. /\ t = sched.current /\ c.pc = "takeTest" /\ lastWake' = lastWake /\ semaphore' = semaphore
        /\ \/ sched' = sched /\ call' = [call EXCEPT ![t] = w1]
           \/ sched' = PlaceOnEventList(s, q, c.out.ticks) /\ call' = [call EXCEPT ![t] = w2]
    BY DEF TakePlaces, At, Goto
  <1>2. c.pc \in ObjectPCs /\ Once(t, c)
    BY <1>1 DEF ObjectPCs, TakePCs, Once, OncePCs
  <1>3. /\ Plain(t, c) /\ t # Idle /\ t # Daemon /\ sched.notify[t] # "WAITING" /\ Core(sched) /\ Settled(sched)
        /\ sched.item[t] # 0 /\ Awake(sched, t) /\ sched.nesting = 1
    BY <1>1, <1>2, InCall
  <1>4. TakeCall(c) /\ c.out.ticks \in 1 .. portMAX_DELAY
    <2>1. TakeCall(c)
      BY <1>1, <1>3 DEF Plain, TakePCs
    <2> QED
      BY <1>1, <2>1, TimeIsInt, Constants DEF TakeCall
  <1>5. q \in Semaphore /\ SemaphoresTyped
    BY <1>4 DEF TakeCall, KInv
  <1>6. m.holder \in Task \cup {Nobody}
    BY <1>5, SemaphoreParts
  <1> HIDE DEF m, i
  <1>7. TakeCall(w1) /\ w1.pc = "takeUnlock" /\ TakeCall(w2) /\ w2.pc = "takeUnlockYield"
    BY <1>4 DEF TakeCall
  <1>8. Plain(t, w1) /\ Plain(t, w2)
    BY <1>3, <1>7, TakeIsPlain DEF TakePCs
  <1> HIDE DEF w1, w2
  <1>9. CASE sched' = sched /\ call' = [call EXCEPT ![t] = w1]
    <2>1. Fits(t, w1, sched)
      BY <1>1, <1>3, <1>7, <1>8, OnceFits
    <2> QED
      BY <1>1, <1>3, <1>5, <1>9, <2>1, Stays, SemaphoreSame
  <1>10. CASE sched' = PlaceOnEventList(s, q, c.out.ticks) /\ call' = [call EXCEPT ![t] = w2]
    <2>1. Core(s) /\ Benign(sched, s)
      <3>1. CASE IsMutex(q)
        BY <1>3, <1>6, <3>1, Inherited DEF RankKept
      <3>2. CASE ~ IsMutex(q)
        BY <1>3, <3>2, BenignOnce
      <3> QED
        BY <3>1, <3>2
    <2> HIDE DEF s
    <2>2. /\ s.current = t /\ Awake(s, t) /\ s.notify[t] # "WAITING" /\ s.item[t] # 0 /\ s.nesting = 1 /\ Settled(s)
          /\ Calm(sched, s)
      BY <1>1, <1>3, <2>1 DEF Benign, Calm, NobodyWaits, BeginsNoWait
    <2>3. s.item[t] > 0
      <3>1. s.item \in [Task -> 0 .. configMAX_PRIORITIES]
        BY <2>1, CoreParts DEF Types
      <3> QED
        BY <2>2, <3>1, Constants
    <2>4. q \in EventList
      BY <1>5, Constants
    <2>5. FallsAsleep(s, sched', c.out.ticks) /\ sched'.notify = s.notify /\ sched'.item = s.item
      BY <1>3, <1>4, <1>10, <2>1, <2>2, <2>3, <2>4, Placed
    <2>6. Acts(sched, sched') /\ sched'.nesting = 1 /\ sched'.current = t
      BY <1>1, <2>1, <2>2, <2>5, SleepActs
    <2>7. ~ Flat(t, w2) /\ Gives(t, w2)
      BY <1>7 DEF Flat, Gives
    <2>8. Fits(t, w2, sched')
      BY <1>8, <2>2, <2>5, <2>6, <2>7 DEF Fits, Shape
    <2> QED
      BY <1>1, <1>3, <1>5, <1>10, <2>6, <2>8, Proceeds, SemaphoreSame
  <1> QED
    BY <1>1, <1>9, <1>10

LEMMA TakeUnlocksStep ==
    ASSUME KInv, program' = program, NEW t \in Task, TakeUnlocks(t)
    PROVE  Scheduled /\ SemaphoresTyped'
  <1> DEFINE c == call[t]
             q == c.sem
             m == [semaphore[q] EXCEPT !.lock = queueUNLOCKED]
             lock == semaphore[q].lock
             then == [c EXCEPT !.pc = IF c.expired THEN "takeExpired" ELSE "take"]
             w == [pc |-> "resume", yields |-> c.pc = "takeUnlockYield", then |-> then]
  <1>1. /\ t = sched.current /\ c.pc \in {"takeUnlock", "takeUnlockYield"} /\ lastWake' = lastWake
        /\ sched' = Unlocked(sched, q, lock) /\ call' = [call EXCEPT ![t] = w]
        /\ semaphore' = [semaphore EXCEPT ![q].lock = queueUNLOCKED]
    BY DEF TakeUnlocks, Goto
  <1>2. c.pc \in ObjectPCs /\ Once(t, c)
    BY <1>1 DEF ObjectPCs, TakePCs, Once, OncePCs
  <1>3. /\ Plain(t, c) /\ t # Idle /\ t # Daemon /\ sched.notify[t] # "WAITING" /\ Core(sched) /\ Settled(sched)
        /\ sched.item[t] # 0 /\ (Awake(sched, t) \/ c.pc = "takeUnlockYield") /\ sched.nesting = 1
    BY <1>1, <1>2, InCall
  <1>4. TakeCall(c)
    BY <1>1, <1>3 DEF Plain, TakePCs
  <1>5. q \in Semaphore /\ SemaphoresTyped /\ q \in EventList
    BY <1>4, Constants DEF TakeCall, KInv
  <1>6. lock \in Int /\ m \in SemaphoreRecord
    BY <1>5, SemaphoreParts DEF SemaphoreRecord, queueUNLOCKED
  <1>7. semaphore' = [semaphore EXCEPT ![q] = m]
    BY <1>1
  <1> HIDE DEF m, lock
  <1>8. TakeCall(then) /\ then.pc \in {"take", "takeExpired"}
    BY <1>4 DEF TakeCall
  <1> HIDE DEF then
  <1>9. Plain(t, then)
    BY <1>3, <1>8, TakeIsPlain DEF TakePCs
  <1>10. Resuming(t, w) /\ Quiet(w) /\ w.then = then /\ w.yields = (c.pc = "takeUnlockYield")
    BY <1>3, <1>8, <1>9 DEF Resuming, Quiet
  <1> HIDE DEF w
  <1>11. Core(sched') /\ Benign(sched, sched')
    BY <1>1, <1>3, <1>5, <1>6, UnlockedList
  <1>12. Acts(sched, sched')
    BY <1>3, <1>11, BenignActs
  <1>13. /\ sched'.notify[t] # "WAITING" /\ sched'.item[t] # 0 /\ t = sched'.current /\ sched'.nesting = 1
         /\ Awake(sched', t) \/ w.yields
    BY <1>1, <1>3, <1>10, <1>11 DEF Benign, Calm, NobodyWaits, BeginsNoWait
  <1>14. Fits(t, w, sched')
    BY <1>10, <1>13, ResumeFits
  <1> QED
    BY <1>1, <1>3, <1>5, <1>6, <1>7, <1>12, <1>14, Proceeds, SemaphoreChanged

LEMMA TakeExpiresStep ==
    ASSUME KInv, program' = program, NEW t \in Task, TakeExpires(t)
    PROVE  Scheduled /\ SemaphoresTyped'
  <1> DEFINE c == call[t]
             w1 == [c EXCEPT !.pc = "take"]
             w2 == [c EXCEPT !.pc = "takeDisinherits"]
  <1>1. /\ t = sched.current /\ c.pc = "takeExpired" /\ sched' = sched /\ semaphore' = semaphore /\ lastWake' = lastWake
        /\ \/ call' = [call EXCEPT ![t] = w1]
           \/ call' = [call EXCEPT ![t] = w2]
           \/ call' = [call EXCEPT ![t] = Run]
    BY DEF TakeExpires, At, Goto
  <1>2. c.pc \in ObjectPCs /\ Flat(t, c)
    BY <1>1 DEF ObjectPCs, TakePCs, Flat
  <1>3. /\ Plain(t, c) /\ t # Idle /\ t # Daemon /\ sched.notify[t] # "WAITING"
        /\ sched.item[t] # 0 /\ Awake(sched, t) /\ sched.nesting = 0
    BY <1>1, <1>2, InCall
  <1>4. TakeCall(c)
    BY <1>1, <1>3 DEF Plain, TakePCs
  <1>5. TakeCall(w1) /\ w1.pc = "take" /\ TakeCall(w2) /\ w2.pc = "takeDisinherits"
    BY <1>4 DEF TakeCall
  <1> HIDE DEF w1, w2
  <1>6. Plain(t, w1) /\ Plain(t, w2)
    BY <1>3, <1>5, TakeIsPlain DEF TakePCs
  <1>7. Fits(t, w1, sched)
    BY <1>3, <1>5, <1>6, FlatFits
  <1>8. Fits(t, w2, sched)
    BY <1>3, <1>5, <1>6, AnywhereFits
  <1>9. Fits(t, Run, sched)
    BY <1>3, RunAgain
  <1>10. Scheduled
    BY <1>1, <1>3, <1>7, <1>8, <1>9, Stays
  <1> QED
    BY <1>1, <1>10, SemaphoreSame DEF KInv

LEMMA TakeDisinheritsStep ==
    ASSUME KInv, program' = program, NEW t \in Task, TakeDisinherits(t)
    PROVE  Scheduled /\ SemaphoresTyped'
  <1> DEFINE c == call[t]
             q == c.sem
             holder == semaphore[q].holder
             highest == DisinheritPriorityAfterTimeout(sched, q)
  <1>1. /\ t = sched.current /\ c.pc = "takeDisinherits" /\ semaphore' = semaphore /\ lastWake' = lastWake
        /\ sched' = DisinheritAfterTimeout(sched, holder, highest) /\ call' = [call EXCEPT ![t] = Run]
    BY DEF TakeDisinherits, At, Goto
  <1>2. c.pc \in ObjectPCs
    BY <1>1 DEF ObjectPCs, TakePCs
  <1>3. /\ Plain(t, c) /\ t # Idle /\ t # Daemon /\ sched.notify[t] # "WAITING" /\ Core(sched) /\ Settled(sched)
        /\ sched.item[t] # 0 /\ Awake(sched, t) /\ Quiet(c)
    BY <1>1, <1>2, InCall
  <1>4. TakeCall(c)
    BY <1>1, <1>3 DEF Plain, TakePCs
  <1>5. q \in Semaphore /\ SemaphoresTyped
    BY <1>4 DEF TakeCall, KInv
  <1>6. holder \in Task \cup {Nobody} /\ highest \in Priority
    BY <1>3, <1>5, SemaphoreParts, HighestWaits
  <1> HIDE DEF holder, highest
  <1>7. Core(sched') /\ Benign(sched, sched')
    BY <1>1, <1>3, <1>6, DisinheritedAfterTimeout DEF RankKept
  <1>8. Acts(sched, sched')
    BY <1>3, <1>7, BenignActs
  <1>9. sched'.notify[t] # "WAITING" /\ sched'.item[t] # 0 /\ (t = sched'.current => Awake(sched', t))
    BY <1>1, <1>3, <1>7 DEF Benign, Calm, NobodyWaits, BeginsNoWait
  <1>10. Fits(t, Run, sched')
    BY <1>3, <1>9, RunAgain
  <1> QED
    BY <1>1, <1>3, <1>5, <1>8, <1>10, Proceeds, SemaphoreSame

\* One that waits for a list is told, and may preempt; or nobody is.
LEMMA ListTold ==
    ASSUME NEW s, Core(s), NEW l \in EventList, NEW required,
           NEW u, u = s \/ (s.events[l] # << >> /\ u \in SwitchIf(required, RemoveFromEventList(s, l)))
    PROVE  \E v, r : Core(v) /\ Benign(s, v) /\ u \in SwitchIf(r, v)
  <1>1. CASE u = s
    <2>1. u \in SwitchIf(FALSE, s)
      BY <1>1 DEF SwitchIf
    <2> QED
      BY <2>1, BenignOnce
  <1>2. CASE s.events[l] # << >> /\ u \in SwitchIf(required, RemoveFromEventList(s, l))
    <2> DEFINE v == RemoveFromEventList(s, l)
    <2>1. Core(v) /\ Benign(s, v)
      BY <1>2, EventRemoved
    <2> HIDE DEF v
    <2>2. u \in SwitchIf(required, v)
      BY <1>2 DEF v
    <2> QED
      BY <2>1, <2>2
  <1> QED
    BY <1>1, <1>2

LEMMA SemaphoreGiveStep ==
    ASSUME KInv, program' = program, NEW t \in Task, NEW c \in program.calls[t], SemaphoreGive(t, c)
    PROVE  Scheduled /\ SemaphoresTyped'
  <1> DEFINE q == c.sem
             n == semaphore[q].count + 1
             m == [semaphore[q] EXCEPT !.count = n, !.holder = Nobody, !.calls = 0]
             s == IF IsMutex(q) THEN Disinherit(sched) ELSE sched
             r1 == HeadPreempts(s, q)
             r2 == IsMutex(q) /\ Disinherited(sched)
             v == RemoveFromEventList(s, q)
  <1>1. /\ Calls(t, c, "give") /\ lastWake' = lastWake /\ call' = call
        /\ semaphore' = [semaphore EXCEPT ![q].count = @ + 1, ![q].holder = Nobody, ![q].calls = 0]
        /\ \/ s.events[q] # << >> /\ sched' \in SwitchIf(r1, v)
           \/ sched' \in SwitchIf(r2, s)
    BY DEF SemaphoreGive
  <1>2. Core(sched) /\ Awake(sched, sched.current) /\ q \in Semaphore /\ SemaphoresTyped /\ q \in EventList
    BY <1>1, CallerRuns, Constants DEF CallOf, KInv
  <1> HIDE DEF q
  <1>3. semaphore[q] \in SemaphoreRecord /\ n \in Int /\ Nobody \in Task \cup {Nobody}
    BY <1>2, SemaphoreParts
  <1>4. semaphore' = [semaphore EXCEPT ![q] = m]
    BY <1>1, <1>2 DEF SemaphoresTyped
  <1>5. m \in SemaphoreRecord
    <2> DEFINE m0 == semaphore[q]
    <2>1. m0 \in SemaphoreRecord /\ 0 \in Int /\ m = [m0 EXCEPT !.count = n, !.holder = Nobody, !.calls = 0]
      BY <1>3
    <2> HIDE DEF m0, n, m
    <2> QED
      BY <1>3, <2>1, RecordGiven
  <1> HIDE DEF m, r1, r2
  <1>6. Core(s) /\ Benign(sched, s)
    <2>1. CASE IsMutex(q)
      BY <1>2, <2>1, DisinheritedMutex
    <2>2. CASE ~ IsMutex(q)
      BY <1>2, <2>2, BenignOnce
    <2> QED
      BY <2>1, <2>2
  <1> HIDE DEF s
  <1>7. CASE s.events[q] # << >> /\ sched' \in SwitchIf(r1, v)
    <2>1. Core(v) /\ Benign(s, v)
      BY <1>2, <1>6, <1>7, EventRemoved
    <2> HIDE DEF v
    <2>2. Benign(sched, v)
      BY <1>6, <2>1, BenignTwice
    <2> QED
      BY <1>1, <1>2, <1>4, <1>5, <1>7, <2>1, <2>2, Switches, SemaphoreChanged
  <1>8. CASE sched' \in SwitchIf(r2, s)
    BY <1>1, <1>2, <1>4, <1>5, <1>6, <1>8, Switches, SemaphoreChanged
  <1> QED
    BY <1>1, <1>7, <1>8

LEMMA GiveMutexRecursiveStep ==
    ASSUME KInv, program' = program, NEW t \in Task, NEW c \in program.calls[t], GiveMutexRecursive(t, c)
    PROVE  Scheduled /\ SemaphoresTyped'
  <1> DEFINE q == c.sem
             n == [semaphore[q] EXCEPT !.calls = @ - 1]
  <1>1. Calls(t, c, "give") /\ semaphore' = [semaphore EXCEPT ![q] = n]
        /\ lastWake' = lastWake /\ sched' = sched /\ call' = call
    BY DEF GiveMutexRecursive
  <1>2. q \in Semaphore /\ SemaphoresTyped
    BY <1>1, CallerRuns DEF CallOf, KInv
  <1>3. n \in SemaphoreRecord
    BY <1>2, SemaphoreParts DEF SemaphoreRecord
  <1> HIDE DEF n
  <1> QED
    BY <1>1, <1>2, <1>3, SemaphoreChanged, NothingChanges

LEMMA GiveFromISRStep ==
    ASSUME KInv, program' = program, NEW c \in program.isr, GiveFromISR(c)
    PROVE  Scheduled /\ SemaphoresTyped'
  <1> DEFINE q == c.sem
             n == semaphore[q].count + 1
             k == semaphore[q].lock + 1
             m1 == [semaphore[q] EXCEPT !.count = n]
             m2 == [semaphore[q] EXCEPT !.count = n, !.lock = k]
             r == HeadPreempts(sched, q)
  <1>1. /\ c.op = "give" /\ lastWake' = lastWake /\ call' = call
        /\ \/ /\ semaphore' = [semaphore EXCEPT ![q].count = @ + 1]
              /\ sched' \in IF sched.events[q] = << >> THEN {sched} ELSE SwitchIf(r, RemoveFromEventList(sched, q))
           \/ semaphore' = [semaphore EXCEPT ![q].count = @ + 1, ![q].lock = @ + 1] /\ sched' = sched
    BY DEF GiveFromISR
  <1>2. Core(sched) /\ InterruptOf(program, c) /\ SemaphoresTyped
    BY KernelAssumption DEF KInv
  <1>3. q \in Semaphore /\ q \in EventList
    BY <1>1, <1>2, Constants DEF InterruptOf
  <1> HIDE DEF q, r
  <1>4. m1 \in SemaphoreRecord /\ m2 \in SemaphoreRecord
    <2> DEFINE m0 == semaphore[q]
    <2>1. m0 \in SemaphoreRecord /\ n \in Int /\ k \in Int /\ m1 = [m0 EXCEPT !.count = n]
          /\ m2 = [m0 EXCEPT !.count = n, !.lock = k]
      BY <1>2, <1>3, SemaphoreParts
    <2> HIDE DEF m0, n, k, m1, m2
    <2> QED
      BY <2>1, RecordCounted, RecordOwed
  <1>5. CASE /\ semaphore' = [semaphore EXCEPT ![q].count = @ + 1]
             /\ sched' \in IF sched.events[q] = << >> THEN {sched} ELSE SwitchIf(r, RemoveFromEventList(sched, q))
    <2>1. semaphore' = [semaphore EXCEPT ![q] = m1]
      BY <1>5
    <2> HIDE DEF m1
    <2>2. \E v, x : Core(v) /\ Benign(sched, v) /\ sched' \in SwitchIf(x, v)
      <3>1. sched' = sched \/ (sched.events[q] # << >> /\ sched' \in SwitchIf(r, RemoveFromEventList(sched, q)))
        BY <1>5
      <3> QED
        BY <1>2, <1>3, <3>1, ListTold
    <2> QED
      BY <1>1, <1>2, <1>3, <1>4, <2>1, <2>2, Switches, SemaphoreChanged
  <1>6. CASE semaphore' = [semaphore EXCEPT ![q].count = @ + 1, ![q].lock = @ + 1] /\ sched' = sched
    <2>1. semaphore' = [semaphore EXCEPT ![q] = m2]
      BY <1>2, <1>3, <1>6 DEF SemaphoresTyped
    <2> HIDE DEF m2
    <2> QED
      BY <1>1, <1>2, <1>3, <1>4, <1>6, <2>1, NothingChanges, SemaphoreChanged
  <1> QED
    BY <1>1, <1>5, <1>6

LEMMA TakeFromISRStep ==
    ASSUME KInv, program' = program, NEW c \in program.isr, TakeFromISR(c)
    PROVE  Scheduled /\ SemaphoresTyped'
  <1> DEFINE q == c.sem
             n == [semaphore[q] EXCEPT !.count = @ - 1]
  <1>1. /\ c.op = "take" /\ semaphore' = [semaphore EXCEPT ![q] = n]
        /\ lastWake' = lastWake /\ sched' = sched /\ call' = call
    BY DEF TakeFromISR
  <1>2. InterruptOf(program, c) /\ SemaphoresTyped
    BY KernelAssumption DEF KInv
  <1>3. q \in Semaphore
    BY <1>1, <1>2 DEF InterruptOf
  <1>4. n \in SemaphoreRecord
    BY <1>2, <1>3, SemaphoreParts DEF SemaphoreRecord
  <1> HIDE DEF n
  <1> QED
    BY <1>1, <1>2, <1>3, <1>4, SemaphoreChanged, NothingChanges

LEMMA SemaphoresStepKeeps ==
    ASSUME KInv, program' = program, SemaphoresNext
    PROVE  Scheduled /\ SemaphoresTyped'
  <1>1. ASSUME NEW t \in Task, SemaphoresStep(t) PROVE Scheduled /\ SemaphoresTyped'
    BY <1>1, SemaphoreTakeAgainStep, TakeSuspendsStep, TakeLocksStep, TakePlacesStep, TakeUnlocksStep, TakeExpiresStep,
       TakeDisinheritsStep, SemaphoreTakeStep, TakeMutexRecursiveStep, SemaphoreGiveStep, GiveMutexRecursiveStep
    DEF SemaphoresStep
  <1> QED
    BY <1>1, GiveFromISRStep, TakeFromISRStep DEF SemaphoresNext

-----------------------------------------------------------------------------
(***************************************************************************)
(* The steps of QueueSet.                                                  *)
(***************************************************************************)
LEMMA MemberCounted ==
    ASSUME NEW f \in [Semaphore -> SemaphoreRecord], NEW q, NEW n \in Int
    PROVE  /\ [f EXCEPT ![q].count = n] \in [Semaphore -> SemaphoreRecord]
           /\ [f EXCEPT ![q].lock = n] \in [Semaphore -> SemaphoreRecord]
           /\ [f EXCEPT ![q].inSet = TRUE] \in [Semaphore -> SemaphoreRecord]
           /\ [f EXCEPT ![q].inSet = FALSE] \in [Semaphore -> SemaphoreRecord]
  BY DEF SemaphoreRecord

LEMMA SetContainerNotified ==
    ASSUME KInv, program' = program, NEW m \in Semaphore, NotifySetContainer(m)
    PROVE  Scheduled /\ SemaphoresTyped'
  <1> DEFINE r == HeadPreempts(sched, Set)
             S == [Semaphore -> SemaphoreRecord]
             given == [semaphore EXCEPT ![m].count = @ + 1]
             set == given[Set]
             told == [set EXCEPT !.count = set.count + 1,
                                 !.lock = IF set.lock = queueUNLOCKED THEN set.lock ELSE set.lock + 1]
  <1>1. /\ call' = call /\ lastWake' = lastWake
        /\ sched' = sched \/ (sched.events[Set] # << >> /\ sched' \in SwitchIf(r, RemoveFromEventList(sched, Set)))
    BY DEF NotifySetContainer
  <1>2. semaphore' \in {given, [given EXCEPT ![Set] = told]}
    BY DEF NotifySetContainer
  <1>3. semaphore \in S /\ Core(sched) /\ Set \in Semaphore /\ Set \in EventList
    BY QueueSetAssumption, Constants DEF KInv, SemaphoresTyped, SemaphoreRecord
  <1>4. given \in S
    <2> DEFINE n == semaphore[m].count + 1
    <2>1. n \in Int
      BY <1>3 DEF SemaphoreRecord
    <2>2. given = [semaphore EXCEPT ![m].count = n]
      OBVIOUS
    <2> HIDE DEF n, given
    <2> QED
      BY <1>3, <2>1, <2>2, MemberCounted
  <1> HIDE DEF given
  <1>5. told \in SemaphoreRecord
    <2> DEFINE n == set.count + 1
               k == IF set.lock = queueUNLOCKED THEN set.lock ELSE set.lock + 1
    <2>1. set \in SemaphoreRecord
      BY <1>3, <1>4
    <2>2. n \in Int /\ k \in Int
      BY <2>1 DEF SemaphoreRecord
    <2>3. told = [set EXCEPT !.count = n, !.lock = k]
      OBVIOUS
    <2> HIDE DEF n, k, set, told
    <2> QED
      BY <2>1, <2>2, <2>3, RecordOwed
  <1> HIDE DEF told
  <1>6. semaphore' \in S
    BY <1>2, <1>4, <1>5
  <1> HIDE DEF r
  <1>7. SemaphoresTyped'
    BY <1>6 DEF SemaphoresTyped, SemaphoreRecord
  <1>8. \E v, x : Core(v) /\ Benign(sched, v) /\ sched' \in SwitchIf(x, v)
    BY <1>1, <1>3, ListTold
  <1> QED
    BY <1>1, <1>7, <1>8, Switches

LEMMA SetStep ==
    ASSUME KInv, program' = program, QueueSetNext
    PROVE  Scheduled /\ SemaphoresTyped'
  <1> DEFINE S == [Semaphore -> SemaphoreRecord]
  <1>1. semaphore \in S /\ 0 \in Int
    BY DEF KInv, SemaphoresTyped, SemaphoreRecord
  <1>2. ASSUME semaphore' \in S PROVE SemaphoresTyped'
    BY <1>2 DEF SemaphoresTyped, SemaphoreRecord
  <1>3. ASSUME NEW t \in Task, RemoveFromSet(t) PROVE Scheduled /\ SemaphoresTyped'
    <2> DEFINE q == call[t].member
    <2>1. /\ t = sched.current /\ call[t].pc = "removes" /\ semaphore' = [semaphore EXCEPT ![q].inSet = FALSE]
          /\ call' = [call EXCEPT ![t] = Run] /\ sched' = sched /\ lastWake' = lastWake
      BY <1>3 DEF RemoveFromSet, At, Goto
    <2> HIDE DEF q
    <2>2. semaphore' \in S
      BY <1>1, <2>1, MemberCounted
    <2>3. call[t].pc \in ObjectPCs /\ call[t].pc # "waitedForBits" /\ call[t].pc # "takeUnlockYield"
      BY <2>1 DEF ObjectPCs, OtherPCs
    <2>4. t # Daemon /\ sched.notify[t] # "WAITING" /\ sched.item[t] # 0 /\ Awake(sched, t)
      BY <2>1, <2>3, InCall
    <2>5. Fits(t, Run, sched)
      BY <2>4, RunAgain
    <2> QED
      BY <1>2, <2>1, <2>2, <2>4, <2>5, Stays
  <1>4. ASSUME NEW t \in Task, NEW c \in program.calls[t], MemberGive(t, c) PROVE Scheduled /\ SemaphoresTyped'
    <2>1. Calls(t, c, "give") /\ NotifySetContainer(c.sem)
      BY <1>4 DEF MemberGive
    <2>2. c.sem \in Semaphore
      BY <2>1, CallerRuns DEF CallOf
    <2> QED
      BY <2>1, <2>2, SetContainerNotified
  <1>5. ASSUME NEW t \in Task, NEW c \in program.calls[t], AddToSet(t, c) PROVE Scheduled /\ SemaphoresTyped'
    <2> DEFINE q == c.sem
    <2>1. /\ semaphore' = [semaphore EXCEPT ![q].inSet = TRUE]
          /\ call' = call /\ sched' = sched /\ lastWake' = lastWake
      BY <1>5 DEF AddToSet
    <2> HIDE DEF q
    <2>2. semaphore' \in S
      BY <1>1, <2>1, MemberCounted
    <2> QED
      BY <1>2, <2>1, <2>2, NothingChanges
  <1>6. ASSUME NEW t \in Task, NEW c \in program.calls[t], RemovalTests(t, c) PROVE Scheduled /\ SemaphoresTyped'
    <2> DEFINE w == [pc |-> "removes", member |-> c.sem]
    <2>1. /\ Calls(t, c, "removeFromSet") /\ semaphore' = semaphore
          /\ call' = [call EXCEPT ![t] = w] /\ sched' = sched /\ lastWake' = lastWake
      BY <1>6 DEF RemovalTests, Goto
    <2>2. /\ t = sched.current /\ t # Idle /\ t # Daemon /\ sched.notify[t] # "WAITING" /\ sched.item[t] # 0
          /\ Awake(sched, t)
      BY <2>1, CallerRuns
    <2>3. w.pc = "removes" /\ Plain(t, w)
      BY <2>2 DEF Plain, TakePCs, SendPCs, ReceivePCs, DaemonPCs, OtherPCs
    <2> HIDE DEF w
    <2>4. Fits(t, w, sched)
      BY <2>2, <2>3, AnywhereFits
    <2> QED
      BY <1>1, <1>2, <2>1, <2>2, <2>4, Stays
  <1>7. ASSUME NEW c \in program.isr, MemberGiveFromISR(c) PROVE Scheduled /\ SemaphoresTyped'
    <2>1. c.op = "give" /\ NotifySetContainer(c.sem)
      BY <1>7 DEF MemberGiveFromISR, MemberGiveable
    <2>2. c.sem \in Semaphore
      BY <2>1, KernelAssumption DEF InterruptOf, KInv
    <2> QED
      BY <2>1, <2>2, SetContainerNotified
  <1> QED
    BY <1>3, <1>4, <1>5, <1>6, <1>7, SemaphoresStepKeeps DEF QueueSetNext

-----------------------------------------------------------------------------
(***************************************************************************)
(* The steps of EventGroup.                                                *)
(***************************************************************************)
LEMMA ResumesLater ==
    ASSUME NEW t, NEW then, then.pc \in {"run", "take", "takeExpired", "waitedForBits", "timerCommands"},
           Plain(t, then), ~ WaitsForBits(then),
           NEW u, u.notify[t] # "WAITING", u.item[t] # 0, t = u.current, Awake(u, t),
           u.nesting \in Nat, u.nesting > 0, Flat(t, then) => u.nesting = 1
    PROVE  Fits(t, [pc |-> "resume", yields |-> FALSE, then |-> then], u)
  <1> DEFINE w == [pc |-> "resume", yields |-> FALSE, then |-> then]
  <1>1. Resuming(t, w) /\ ~ w.yields /\ w.then = then
    BY DEF Resuming
  <1> HIDE DEF w
  <1>2. Fits(t, w, u)
    BY <1>1, ResumeFits
  <1> QED
    BY <1>2 DEF w

LEMMA SectionEnds ==
    ASSUME KInv, program' = program, lastWake' = lastWake, NEW t \in Task, t = sched.current, t # Daemon,
           sched.notify[t] # "WAITING", sched.item[t] # 0, Awake(sched, t),
           call' = [call EXCEPT ![t] = ThenResume],
           Core(sched'), Settled(sched'), Calm(sched, sched'), sched'.nesting > 0
    PROVE  Scheduled
  <1>1. /\ sched'.notify[t] # "WAITING" /\ sched'.item[t] # 0 /\ t = sched'.current /\ Awake(sched', t)
        /\ sched'.nesting \in Nat
    BY CoreParts DEF Calm, NobodyWaits, BeginsNoWait
  <1>2. Plain(t, Run) /\ Run.pc = "run" /\ ~ WaitsForBits(Run)
    BY RunIsPlain
  <1>3. ~ Flat(t, Run)
    BY <1>2 DEF Flat
  <1>4. Fits(t, ThenResume, sched')
    BY <1>1, <1>2, <1>3, ResumesLater DEF ThenResume
  <1>5. Acts(sched, sched')
    BY DEF Acts, Calm, NobodyWaits
  <1> QED
    BY <1>4, <1>5, Proceeds

LEMMA BitsSet ==
    ASSUME NEW s, Core(s), Settled(s), NEW ts, NEW flags, NEW u, u = WakeWaiters(SuspendAll(s), ts, flags)
    PROVE  Core(u) /\ Settled(u) /\ Calm(s, u) /\ u.nesting = s.nesting + 1
  <1> DEFINE a == SuspendAll(s)
  <1>1. Core(a) /\ Calm(s, a) /\ a.nesting = s.nesting + 1 /\ Settled(a)
    BY AllSuspended
  <1> HIDE DEF a
  <1>2. u = WakeWaiters(a, ts, flags)
    BY DEF a
  <1>3. Core(u) /\ Benign(a, u)
    BY <1>1, <1>2, WaitersWoken
  <1> QED
    BY <1>1, <1>3, CalmTwice DEF Benign

LEMMA EventGroupSetBitsStep ==
    ASSUME KInv, program' = program, NEW t \in Task, NEW c \in program.calls[t], EventGroupSetBits(t, c)
    PROVE  Scheduled
  <1> DEFINE bits == group \cup c.bits
             ts == Met(SuspendAll(sched), bits)
             flags == bits \cup {"unblocked"}
  <1>1. /\ Calls(t, c, "setBits") /\ lastWake' = lastWake
        /\ sched' = WakeWaiters(SuspendAll(sched), ts, flags) /\ call' = [call EXCEPT ![t] = ThenResume]
    BY DEF EventGroupSetBits, SetBits, Goto, ThenResume
  <1> HIDE DEF ts, flags
  <1>2. /\ t = sched.current /\ Core(sched) /\ Settled(sched) /\ t # Daemon /\ sched.nesting \in Nat
        /\ sched.notify[t] # "WAITING" /\ sched.item[t] # 0 /\ Awake(sched, t)
    BY <1>1, CallerRuns
  <1>3. Core(sched') /\ Settled(sched') /\ Calm(sched, sched') /\ sched'.nesting = sched.nesting + 1
    BY <1>1, <1>2, BitsSet
  <1>4. sched'.nesting > 0
    BY <1>2, <1>3
  <1> QED
    BY <1>1, <1>2, <1>3, <1>4, SectionEnds

LEMMA EventGroupDeleteStep ==
    ASSUME KInv, program' = program, NEW t \in Task, NEW c \in program.calls[t], EventGroupDelete(t, c)
    PROVE  Scheduled
  <1> DEFINE ts == Waiters(sched)
             flags == {"unblocked"}
  <1>1. /\ Calls(t, c, "deleteGroup") /\ lastWake' = lastWake
        /\ sched' = WakeWaiters(SuspendAll(sched), ts, flags) /\ call' = [call EXCEPT ![t] = ThenResume]
    BY DEF EventGroupDelete, Goto, ThenResume
  <1> HIDE DEF ts, flags
  <1>2. /\ t = sched.current /\ Core(sched) /\ Settled(sched) /\ t # Daemon /\ sched.nesting \in Nat
        /\ sched.notify[t] # "WAITING" /\ sched.item[t] # 0 /\ Awake(sched, t)
    BY <1>1, CallerRuns
  <1>3. Core(sched') /\ Settled(sched') /\ Calm(sched, sched') /\ sched'.nesting = sched.nesting + 1
    BY <1>1, <1>2, BitsSet
  <1>4. sched'.nesting > 0
    BY <1>2, <1>3
  <1> QED
    BY <1>1, <1>2, <1>3, <1>4, SectionEnds

LEMMA EventGroupClearBitsStep ==
    ASSUME KInv, program' = program, NEW t \in Task, NEW c \in program.calls[t], EventGroupClearBits(t, c)
    PROVE  Scheduled
  BY NothingChanges DEF EventGroupClearBits

\* Both waits, when they do not wait, and when they do.
LEMMA ReturnsStep ==
    ASSUME KInv, program' = program, lastWake' = lastWake, NEW t \in Task, t = sched.current, t # Daemon,
           sched.notify[t] # "WAITING", sched.item[t] # 0, Awake(sched, t),
           NEW s, Core(s), Settled(s), Calm(sched, s), s.nesting > 0, NEW bits, Returns(t, s, bits)
    PROVE  Scheduled
  <1>1. sched' = s /\ call' = [call EXCEPT ![t] = ThenResume]
    BY DEF Returns, Goto, ThenResume
  <1> QED
    BY <1>1, SectionEnds

LEMMA WaitsForStep ==
    ASSUME KInv, program' = program, lastWake' = lastWake, NEW t \in Task, t = sched.current, t # Idle, t # Daemon,
           sched.notify[t] # "WAITING", Awake(sched, t), NEW c, c.ticks \in 1 .. portMAX_DELAY,
           NEW s, Core(s), Settled(s), Calm(sched, s), s.nesting = 1, NEW bits, NEW wait, WaitsFor(t, c, s, bits, wait)
    PROVE  Scheduled
  <1> DEFINE then == [pc |-> "waitedForBits", wait |-> wait, meets |-> c.op = "sync",
                      until |-> Wrap(sched.tick + c.ticks)]
  <1>1. /\ sched' = PlaceOnUnorderedEventList(s, TasksWaitingForBits, wait, c.ticks)
        /\ call' = [call EXCEPT ![t] = ToResume(then)]
    BY DEF WaitsFor, Goto
  <1>2. Plain(t, then) /\ then.pc = "waitedForBits"
    BY DEF Plain, TakePCs, SendPCs, ReceivePCs, DaemonPCs, OtherPCs
  <1> HIDE DEF then
  <1>3. s.current = t /\ s.notify[t] # "WAITING" /\ Awake(s, s.current)
    BY DEF Calm, NobodyWaits, BeginsNoWait
  <1>4. FallsAsleep(s, sched', c.ticks) /\ sched'.notify = s.notify
    BY <1>1, <1>3, PlacedUnordered
  <1>5. Acts(sched, sched') /\ sched'.nesting = 1 /\ sched'.current = t
    BY <1>4, SleepActs
  <1>6. Fits(t, ToResume(then), sched') /\ Quiet(ToResume(then))
    BY <1>2, <1>3, <1>4, <1>5, ToResumeFits
  <1> QED
    BY <1>1, <1>5, <1>6, Proceeds

LEMMA WaitBitsStep ==
    ASSUME KInv, program' = program, NEW t \in Task, NEW c \in program.calls[t], WaitBits(t, c)
    PROVE  Scheduled
  <1> DEFINE a == SuspendAll(sched)
             bits == group \ Clears(c.wait)
  <1>1. /\ Calls(t, c, "waitBits") /\ lastWake' = lastWake /\ (c.ticks > 0 => sched.nesting = 0)
        /\ Returns(t, a, bits) \/ Returns(t, a, group) \/ (c.ticks # 0 /\ WaitsFor(t, c, a, group, c.wait))
    BY DEF WaitBits
  <1> HIDE DEF bits
  <1>2. /\ t = sched.current /\ c.op = "waitBits" /\ CallOf(c) /\ Core(sched) /\ Settled(sched) /\ t # Idle /\ t # Daemon
        /\ sched.notify[t] # "WAITING" /\ sched.item[t] # 0 /\ Awake(sched, t) /\ sched.nesting \in Nat
    BY <1>1, CallerRuns
  <1>3. Core(a) /\ Settled(a) /\ Calm(sched, a) /\ a.nesting = sched.nesting + 1
    BY <1>2, AllSuspended
  <1> HIDE DEF a
  <1>4. CASE Returns(t, a, bits) \/ Returns(t, a, group)
    BY <1>1, <1>2, <1>3, <1>4, ReturnsStep
  <1>5. CASE c.ticks # 0 /\ WaitsFor(t, c, a, group, c.wait)
    <2>1. c.ticks \in 1 .. portMAX_DELAY
      BY <1>2, <1>5, Constants DEF CallOf
    <2>2. a.nesting = 1
      BY <1>1, <1>3, <2>1
    <2> QED
      BY <1>1, <1>2, <1>3, <1>5, <2>1, <2>2, WaitsForStep
  <1> QED
    BY <1>1, <1>4, <1>5

LEMMA SyncStep ==
    ASSUME KInv, program' = program, NEW t \in Task, NEW c \in program.calls[t], Sync(t, c)
    PROVE  Scheduled
  <1> DEFINE bits == group \cup c.bits
             ts == Met(SuspendAll(sched), bits)
             flags == bits \cup {"unblocked"}
             s == WakeWaiters(SuspendAll(sched), ts, flags)
             left == BitsLeft(sched, bits)
             meet == left \ c.wait
             wait == c.wait \cup {"all", "clear"}
  <1>1. /\ Calls(t, c, "sync") /\ lastWake' = lastWake /\ (c.ticks > 0 => sched.nesting = 0)
        /\ Returns(t, s, meet) \/ Returns(t, s, left) \/ (c.ticks # 0 /\ WaitsFor(t, c, s, left, wait))
    BY DEF Sync, SetBits
  <1> HIDE DEF meet, wait, left
  <1>2. /\ t = sched.current /\ c.op = "sync" /\ CallOf(c) /\ Core(sched) /\ Settled(sched) /\ t # Idle /\ t # Daemon
        /\ sched.notify[t] # "WAITING" /\ sched.item[t] # 0 /\ Awake(sched, t) /\ sched.nesting \in Nat
    BY <1>1, CallerRuns
  <1> HIDE DEF ts, flags
  <1>3. Core(s) /\ Settled(s) /\ Calm(sched, s) /\ s.nesting = sched.nesting + 1
    BY <1>2, BitsSet
  <1> HIDE DEF s
  <1>4. CASE Returns(t, s, meet) \/ Returns(t, s, left)
    BY <1>1, <1>2, <1>3, <1>4, ReturnsStep
  <1>5. CASE c.ticks # 0 /\ WaitsFor(t, c, s, left, wait)
    <2>1. c.ticks \in 1 .. portMAX_DELAY
      BY <1>2, <1>5, Constants DEF CallOf
    <2>2. s.nesting = 1
      BY <1>1, <1>3, <2>1
    <2> QED
      BY <1>1, <1>2, <1>3, <1>5, <2>1, <2>2, WaitsForStep
  <1> QED
    BY <1>1, <1>4, <1>5

LEMMA ItemReset ==
    ASSUME NEW s, Core(s), NEW u, u = ResetEventItemValue(s)
    PROVE  Core(u) /\ Benign(s, u) /\ u.item[s.current] # 0 /\ u.notify = s.notify
  <1> DEFINE t == s.current
             n == configMAX_PRIORITIES - s.prio[t]
  <1>1. /\ DOMAIN s = Fields /\ t \in Task /\ s.prio[t] \in Priority /\ Types(s)
    BY CoreParts
  <1>2. n \in 1 .. configMAX_PRIORITIES
    BY <1>1, ItemTyped
  <1>3. Same(s, u, {"item", "flags"}) /\ u.item = [s.item EXCEPT ![t] = n]
    BY <1>1 DEF ResetEventItemValue, Same, Fields
  <1> HIDE DEF n
  <1>4. /\ Same(s, u, Marks) /\ u.notify = s.notify /\ u.prio = s.prio /\ u.base = s.base
    BY <1>3 DEF Same, Marks, Fields
  <1>5. /\ u.notify \in [Task -> Notices] /\ u.prio \in [Task -> Priority] /\ u.base \in [Task -> Priority]
        /\ s.item \in [Task -> 0 .. configMAX_PRIORITIES]
    BY <1>1, <1>4 DEF Types, Notices
  <1>6. /\ u.item \in [Task -> 0 .. configMAX_PRIORITIES] /\ u.item[t] # 0
        /\ \A x \in Task : u.item[x] = 0 => s.item[x] = 0
    <2>1. \A x \in Task : u.item[x] = IF x = t THEN n ELSE s.item[x]
      BY <1>3, <1>5
    <2>2. n \in 0 .. configMAX_PRIORITIES /\ n # 0
      BY <1>2, Constants
    <2>3. u.item \in [Task -> 0 .. configMAX_PRIORITIES]
      BY <1>3, <1>5, <2>2
    <2> QED
      BY <1>1, <2>1, <2>2, <2>3
  <1>7. Core(u) /\ Benign(s, u)
    BY <1>4, <1>5, <1>6, Remarked
  <1> QED
    BY <1>4, <1>6, <1>7

LEMMA WaitedForBitsStep ==
    ASSUME KInv, program' = program, NEW t \in Task, WaitedForBits(t)
    PROVE  Scheduled
  <1> DEFINE w == [call[t] EXCEPT !.pc = "bitsExpired"]
  <1>1. /\ t = sched.current /\ call[t].pc = "waitedForBits" /\ lastWake' = lastWake
        /\ sched' = ResetEventItemValue(sched)
        /\ call' = [call EXCEPT ![t] = Run] \/ call' = [call EXCEPT ![t] = w]
    BY DEF WaitedForBits, At, Goto
  <1>2. call[t].pc \in ObjectPCs
    BY <1>1 DEF ObjectPCs, OtherPCs
  <1>3. Plain(t, call[t]) /\ t # Idle /\ t # Daemon /\ Core(sched) /\ Settled(sched) /\ sched.notify[t] # "WAITING" /\ Awake(sched, t)
    BY <1>1, <1>2, InCall
  <1>4. w.pc = "bitsExpired" /\ "pc" \in DOMAIN w
    BY <1>3 DEF Plain
  <1> HIDE DEF w
  <1>5. Plain(t, w)
    BY <1>3, <1>4 DEF Plain, TakePCs, SendPCs, ReceivePCs, DaemonPCs, OtherPCs
  <1>6. Core(sched') /\ Benign(sched, sched') /\ sched'.item[t] # 0 /\ sched'.notify = sched.notify
    BY <1>1, <1>3, ItemReset
  <1>7. Acts(sched, sched') /\ sched'.notify[t] # "WAITING" /\ Awake(sched', t)
    BY <1>1, <1>3, <1>6, BenignActs DEF Benign, Calm
  <1>8. Fits(t, Run, sched') /\ Fits(t, w, sched')
    BY <1>3, <1>4, <1>5, <1>6, <1>7, RunAgain, AnywhereFits
  <1> QED
    BY <1>1, <1>3, <1>7, <1>8, Proceeds

LEMMA BitsExpiredStep ==
    ASSUME KInv, program' = program, NEW t \in Task, BitsExpired(t)
    PROVE  Scheduled
  <1>1. /\ t = sched.current /\ call[t].pc = "bitsExpired" /\ lastWake' = lastWake /\ sched' = sched
        /\ call' = [call EXCEPT ![t] = Run]
    BY DEF BitsExpired, At, Goto
  <1>2. call[t].pc \in ObjectPCs
    BY <1>1 DEF ObjectPCs, OtherPCs
  <1>3. t # Daemon /\ sched.notify[t] # "WAITING" /\ sched.item[t] # 0 /\ Awake(sched, t)
    BY <1>1, <1>2, InCall
  <1>4. Fits(t, Run, sched)
    BY <1>3, RunAgain
  <1> QED
    BY <1>1, <1>3, <1>4, Stays

LEMMA EventGroupStepKeeps ==
    ASSUME KInv, program' = program, EventGroupNext
    PROVE  Scheduled
  BY WaitedForBitsStep, BitsExpiredStep, EventGroupSetBitsStep, EventGroupClearBitsStep, EventGroupDeleteStep,
     WaitBitsStep, SyncStep DEF EventGroupNext

-----------------------------------------------------------------------------
(***************************************************************************)
(* The steps of StreamBuffer.                                              *)
(***************************************************************************)
StreamEnds(b) ==
    /\ {"receiver", "sender"} \subseteq DOMAIN b
    /\ b.receiver \in Task \cup {None} /\ b.sender \in Task \cup {None}

EndsKept(b) ==
    \A n : /\ StreamEnds(CopyIn(b, n)) /\ StreamEnds(MoveHead(b, n)) /\ StreamEnds(MoveTail(b, n))
           /\ StreamEnds([b EXCEPT !.written = n]) /\ StreamEnds([b EXCEPT !.read = n])
           /\ StreamEnds([b EXCEPT !.tail = n]) /\ StreamEnds([b EXCEPT !.trigger = n])
           /\ n \in Task \cup {None} => StreamEnds([b EXCEPT !.receiver = n]) /\ StreamEnds([b EXCEPT !.sender = n])

LEMMA FieldSet ==
    ASSUME NEW b, StreamEnds(b), NEW f, NEW n, f \notin {"receiver", "sender"} \/ n \in Task \cup {None}
    PROVE  StreamEnds([b EXCEPT ![f] = n])
  BY DEF StreamEnds

LEMMA EndsStay ==
    ASSUME NEW b, StreamEnds(b)
    PROVE  EndsKept(b)
  <1> SUFFICES ASSUME NEW n
               PROVE  /\ StreamEnds(CopyIn(b, n)) /\ StreamEnds(MoveHead(b, n)) /\ StreamEnds(MoveTail(b, n))
                      /\ StreamEnds([b EXCEPT !.written = n]) /\ StreamEnds([b EXCEPT !.read = n])
                      /\ StreamEnds([b EXCEPT !.tail = n]) /\ StreamEnds([b EXCEPT !.trigger = n])
                      /\ n \in Task \cup {None} => StreamEnds([b EXCEPT !.receiver = n]) /\ StreamEnds([b EXCEPT !.sender = n])
    BY DEF EndsKept
  <1>1. \A f, x : f \notin {"receiver", "sender"} \/ x \in Task \cup {None} => StreamEnds([b EXCEPT ![f] = x])
    BY FieldSet
  <1>2. StreamEnds(CopyIn(b, n))
    <2> DEFINE r == [i \in 0 .. xLength - 1 |->
                      LET k == Round(xLength + i - b.head) IN IF k < Len(n) THEN n[k + 1] ELSE b.buffer[i]]
    <2>1. CopyIn(b, n) = [b EXCEPT !.buffer = r]
      BY DEF CopyIn
    <2> HIDE DEF r
    <2> QED
      BY <1>1, <2>1
  <1>3. StreamEnds(MoveHead(b, n)) /\ StreamEnds(MoveTail(b, n))
    <2> DEFINE h == Round(b.head + n)
               l == Round(b.tail + n)
    <2>1. MoveHead(b, n) = [b EXCEPT !.head = h] /\ MoveTail(b, n) = [b EXCEPT !.tail = l]
      BY DEF MoveHead, MoveTail
    <2> HIDE DEF h, l
    <2> QED
      BY <1>1, <2>1
  <1>4. /\ StreamEnds([b EXCEPT !.written = n]) /\ StreamEnds([b EXCEPT !.read = n])
        /\ StreamEnds([b EXCEPT !.tail = n]) /\ StreamEnds([b EXCEPT !.trigger = n])
    BY <1>1
  <1>5. n \in Task \cup {None} => StreamEnds([b EXCEPT !.receiver = n]) /\ StreamEnds([b EXCEPT !.sender = n])
    BY <1>1
  <1> QED
    BY <1>2, <1>3, <1>4, <1>5

\* The count of the bytes written or read goes on.
LEMMA Counted ==
    ASSUME NEW b, StreamEnds(b)
    PROVE  \A n : /\ StreamEnds([b EXCEPT !.written = (@ + n) % Numbers])
                  /\ StreamEnds([b EXCEPT !.read = (@ + n) % Numbers])
  <1> TAKE n
  <1> DEFINE w == (b.written + n) % Numbers
             r == (b.read + n) % Numbers
  <1>1. /\ [b EXCEPT !.written = (@ + n) % Numbers] = [b EXCEPT !.written = w]
        /\ [b EXCEPT !.read = (@ + n) % Numbers] = [b EXCEPT !.read = r]
    OBVIOUS
  <1> HIDE DEF w, r
  <1> QED
    BY <1>1, EndsStay DEF EndsKept

LEMMA StreamHas ==
    ASSUME StreamTyped
    PROVE  StreamEnds(stream)
  BY DEF StreamTyped, StreamEnds

LEMMA StreamThen ==
    ASSUME StreamEnds(stream')
    PROVE  StreamTyped'
  BY DEF StreamTyped, StreamEnds

LEMMA StreamSame ==
    ASSUME StreamTyped, stream' = stream
    PROVE  StreamTyped'
  BY DEF StreamTyped

LEMMA OtherIsPlain ==
    ASSUME NEW t, t # Idle, t # Daemon, NEW w, "pc" \in DOMAIN w, w.pc \in OtherPCs
    PROVE  Plain(t, w)
  BY DEF Plain, TakePCs, SendPCs, ReceivePCs, DaemonPCs, OtherPCs

LEMMA SendIsPlain ==
    ASSUME NEW t, t # Idle, t # Daemon, NEW w, SendCall(w), w.pc \in SendPCs, Notifiable(program, t)
    PROVE  Plain(t, w)
  <1>1. w.pc \notin TakePCs /\ w.pc \notin ReceivePCs /\ w.pc \notin DaemonPCs /\ w.pc # "timerSend" /\ "pc" \in DOMAIN w
    BY DEF SendCall, TakePCs, SendPCs, ReceivePCs, DaemonPCs
  <1> QED
    BY <1>1 DEF Plain

LEMMA ReceiveIsPlain ==
    ASSUME NEW t, t # Idle, t # Daemon, NEW w, ReceiveCall(w), w.pc \in ReceivePCs, Notifiable(program, t)
    PROVE  Plain(t, w)
  <1>1. w.pc \notin TakePCs /\ w.pc \notin SendPCs /\ w.pc \notin DaemonPCs /\ w.pc # "timerSend" /\ "pc" \in DOMAIN w
    BY DEF ReceiveCall, TakePCs, SendPCs, ReceivePCs, DaemonPCs
  <1> QED
    BY <1>1 DEF Plain

StreamFlat == {"sendTry", "sendWait", "sendWoken", "sendCheck", "receiveWait"}
StreamFree == {"sendSpace", "receiveLooks", "receiveLength", "sendCopy", "sendPublish", "sent", "receiveRestores",
               "receiveCopies", "receiveMoves", "received"}

\* The caller of a stream buffer, in its call.
InStreamCall(t) ==
    /\ Plain(t, call[t]) /\ t # Idle /\ t # Daemon /\ Core(sched) /\ Settled(sched)
    /\ sched.notify[t] # "WAITING" /\ sched.item[t] # 0 /\ Awake(sched, t) /\ sched.nesting \in Nat
    /\ call[t].pc \in StreamFlat => sched.nesting = 0
    /\ call[t].pc \in {"sendCompleted", "receiveCompleted"} => sched.nesting > 0

LEMMA StreamUser ==
    ASSUME KInv, NEW t \in Task, t = sched.current, call[t].pc \in StreamCalls
    PROVE  InStreamCall(t)
  <1>1. call[t].pc \in ObjectPCs /\ call[t].pc # "waitedForBits" /\ call[t].pc # "takeUnlockYield"
    BY DEF StreamCalls, ObjectPCs, SendPCs, ReceivePCs, OtherPCs
  <1>2. call[t].pc \in StreamFlat => Flat(t, call[t])
    BY DEF StreamFlat, Flat
  <1>3. call[t].pc \in {"sendCompleted", "receiveCompleted"} => Nested(t, call[t])
    BY DEF Nested
  <1> QED
    BY <1>1, <1>2, <1>3, InCall DEF InStreamCall

LEMMA NewStreamUser ==
    ASSUME KInv, NEW t \in Task, NEW c \in program.calls[t], NEW op, Calls(t, c, op)
    PROVE  InStreamCall(t) /\ t = sched.current /\ c.op = op /\ CallOf(c)
  <1>1. /\ t = sched.current /\ call[t].pc = "run" /\ c.op = op /\ CallOf(c)
        /\ Core(sched) /\ Settled(sched) /\ Plain(t, call[t])
        /\ t # Idle /\ t # Daemon
        /\ sched.notify[t] # "WAITING" /\ sched.item[t] # 0 /\ Awake(sched, t) /\ sched.nesting \in Nat
    BY CallerRuns
  <1>2. call[t].pc \notin StreamFlat /\ call[t].pc \notin {"sendCompleted", "receiveCompleted"}
    BY <1>1 DEF StreamFlat
  <1> QED
    BY <1>1, <1>2 DEF InStreamCall

LEMMA CallGoesOn ==
    ASSUME KInv, program' = program, lastWake' = lastWake, NEW t \in Task, t = sched.current, InStreamCall(t),
           Core(sched'), Benign(sched, sched'), NEW w, call' = [call EXCEPT ![t] = w],
           \/ w = Run
           \/ Plain(t, w) /\ w.pc \in StreamFree
           \/ Plain(t, w) /\ w.pc \in StreamFlat /\ sched.nesting = 0
    PROVE  Scheduled
  <1>1. /\ t # Daemon /\ Core(sched) /\ Settled(sched)
        /\ sched.notify[t] # "WAITING" /\ sched.item[t] # 0 /\ Awake(sched, t)
    BY DEF InStreamCall
  <1>2. /\ Acts(sched, sched') /\ sched'.notify[t] # "WAITING" /\ sched'.item[t] # 0 /\ Awake(sched', t)
        /\ sched'.nesting = sched.nesting
    BY <1>1, BenignActs DEF Benign, Calm, NobodyWaits, BeginsNoWait
  <1>3. CASE w = Run
    BY <1>1, <1>2, <1>3, RunAgain, Proceeds
  <1>4. CASE Plain(t, w) /\ w.pc \in StreamFree
    <2>1. Fits(t, w, sched')
      BY <1>1, <1>2, <1>4, AnywhereFits DEF StreamFree
    <2> QED
      BY <1>1, <1>2, <2>1, Proceeds
  <1>5. CASE Plain(t, w) /\ w.pc \in StreamFlat /\ sched.nesting = 0
    <2>1. Fits(t, w, sched')
      BY <1>1, <1>2, <1>5, FlatFits DEF StreamFlat
    <2> QED
      BY <1>1, <1>2, <2>1, Proceeds
  <1> QED
    BY <1>3, <1>4, <1>5

LEMMA CallGoesOnAlone ==
    ASSUME KInv, program' = program, lastWake' = lastWake, sched' = sched,
           NEW t \in Task, t = sched.current, InStreamCall(t), NEW w, call' = [call EXCEPT ![t] = w],
           \/ w = Run
           \/ Plain(t, w) /\ w.pc \in StreamFree
           \/ Plain(t, w) /\ w.pc \in StreamFlat /\ sched.nesting = 0
    PROVE  Scheduled
  <1>1. Core(sched') /\ Benign(sched, sched')
    BY BenignOnce DEF InStreamCall
  <1> QED
    BY <1>1, CallGoesOn

\* The scheduler is suspended to tell the other side ...
LEMMA Completes ==
    ASSUME KInv, program' = program, lastWake' = lastWake, NEW t \in Task, t = sched.current, InStreamCall(t),
           sched' = SuspendAll(sched), NEW w, call' = [call EXCEPT ![t] = w],
           "pc" \in DOMAIN w, w.pc \in {"sendCompleted", "receiveCompleted"}
    PROVE  Scheduled
  <1>1. /\ t # Idle /\ t # Daemon /\ Core(sched) /\ sched.nesting \in Nat
        /\ sched.notify[t] # "WAITING" /\ sched.item[t] # 0 /\ Awake(sched, t)
    BY DEF InStreamCall
  <1>2. /\ Core(sched') /\ Calm(sched, sched') /\ Settled(sched') /\ sched'.nesting = sched.nesting + 1
    BY <1>1, AllSuspended
  <1>3. /\ Acts(sched, sched') /\ sched'.notify[t] # "WAITING" /\ sched'.item[t] # 0 /\ t = sched'.current
        /\ Awake(sched', t) /\ sched'.nesting > 0
    BY <1>1, <1>2 DEF Acts, Calm, NobodyWaits, BeginsNoWait
  <1>4. Plain(t, w)
    BY <1>1, OtherIsPlain DEF OtherPCs
  <1>5. ~ Flat(t, w) /\ ~ Once(t, w)
    BY DEF Flat, Once, OncePCs
  <1>6. Fits(t, w, sched')
    BY <1>3, <1>4, <1>5 DEF Fits, Shape
  <1> QED
    BY <1>1, <1>3, <1>6, Proceeds

\* ... and resumed afterwards.
LEMMA Told ==
    ASSUME KInv, NEW x \in Task \cup {None}, NEW u \in Tell(x)
    PROVE  Core(u) /\ Moves(sched, u)
  <1>1. Core(sched) /\ Settled(sched)
    BY DEF KInv
  <1>2. CASE x = None
    <2>1. u \in SwitchIf(FALSE, sched)
      BY <1>2 DEF Tell, SwitchIf
    <2> QED
      BY <1>1, <2>1, BenignOnce, Movement
  <1>3. CASE x # None
    <2> DEFINE v == Notify(sched, x, "eNoAction", 0)
               r == NotifyPreempts(sched, x)
    <2>1. x \in Task /\ u \in SwitchIf(r, v)
      BY <1>3 DEF Tell
    <2>2. Core(v) /\ Benign(sched, v)
      BY <1>1, <2>1, NotifiedTask
    <2> HIDE DEF v, r
    <2> QED
      BY <1>1, <2>1, <2>2, Movement
  <1> QED
    BY <1>2, <1>3

LEMMA TellsStep ==
    ASSUME KInv, program' = program, lastWake' = lastWake, NEW t \in Task, t = sched.current, InStreamCall(t),
           call[t].pc \in {"sendCompleted", "receiveCompleted"}, NEW x \in Task \cup {None}, sched' \in Tell(x),
           call' = [call EXCEPT ![t] = ThenResume]
    PROVE  Scheduled
  <1>1. /\ t # Daemon /\ Core(sched) /\ sched.nesting \in Nat /\ sched.nesting > 0
        /\ sched.notify[t] # "WAITING" /\ sched.item[t] # 0 /\ Awake(sched, t)
    BY DEF InStreamCall
  <1>2. Core(sched') /\ Moves(sched, sched')
    BY Told
  <1>3. /\ Acts(sched, sched') /\ sched'.notify[t] # "WAITING" /\ sched'.item[t] # 0 /\ sched'.nesting = sched.nesting
        /\ t = sched'.current /\ Awake(sched', t)
    BY <1>1, <1>2, Moved
  <1>4. Plain(t, Run) /\ Run.pc = "run" /\ ~ WaitsForBits(Run)
    BY RunIsPlain
  <1>5. ~ Flat(t, Run)
    BY <1>1, <1>4 DEF Flat
  <1>6. Fits(t, ThenResume, sched')
    BY <1>1, <1>3, <1>4, <1>5, ResumesLater DEF ThenResume
  <1> QED
    BY <1>1, <1>3, <1>6, Proceeds

LEMMA ToldFromISR ==
    ASSUME KInv, program' = program, lastWake' = lastWake, call' = call,
           NEW x \in Task \cup {None}, sched' \in TellFromISR(x)
    PROVE  Scheduled
  <1>1. Core(sched)
    BY DEF KInv
  <1>2. CASE x = None
    BY <1>2, NothingChanges DEF TellFromISR
  <1>3. CASE x # None
    <2> DEFINE v == NotifyFromISR(sched, x, "eNoAction", 0)
               r == NotifyPreempts(sched, x)
    <2>1. x \in Task /\ sched' \in SwitchIf(r, v)
      BY <1>3 DEF TellFromISR
    <2>2. Core(v) /\ Benign(sched, v)
      BY <1>1, <2>1, NotifiedFromISR, WaitersCall
    <2> HIDE DEF v, r
    <2> QED
      BY <2>1, <2>2, Switches
  <1> QED
    BY <1>2, <1>3

LEMMA SendStep ==
    ASSUME KInv, program' = program, NEW t \in Task, NEW c \in program.calls[t], Send(t, c)
    PROVE  Scheduled /\ StreamTyped'
  <1> DEFINE out == TimeOutState(sched, c.ticks)
             w == [pc |-> IF c.ticks = 0 THEN "sendSpace" ELSE "sendTry", len |-> c.len, out |-> out, space |-> 0]
  <1>1. /\ Calls(t, c, "streamSend") /\ (c.ticks > 0 => sched.nesting = 0)
        /\ sched' = sched /\ lastWake' = lastWake /\ stream' = stream /\ call' = [call EXCEPT ![t] = w]
    BY DEF Send, Goto
  <1>2. InStreamCall(t) /\ t = sched.current /\ c.op = "streamSend" /\ CallOf(c)
    BY <1>1, NewStreamUser
  <1>3. c.ticks \in Time /\ Notifiable(program, t) /\ sched.tick \in Time /\ sched.overflows \in Nat
    BY <1>2, CoreParts DEF CallOf, Notifiable, Time, InStreamCall
  <1>4. out \in [overflows : Nat, since : Time, ticks : Time]
    BY <1>3 DEF TimeOutState
  <1> HIDE DEF out
  <1>5. SendCall(w) /\ (w.pc = "sendSpace" \/ (w.pc = "sendTry" /\ sched.nesting = 0))
    BY <1>1, <1>3, <1>4, TimeIsInt DEF SendCall
  <1> HIDE DEF w
  <1>6. Plain(t, w)
    BY <1>2, <1>3, <1>5, SendIsPlain DEF SendPCs, InStreamCall
  <1>7. StreamTyped
    BY DEF KInv
  <1> QED
    BY <1>1, <1>2, <1>5, <1>6, <1>7, CallGoesOnAlone, StreamSame DEF StreamFlat, StreamFree

\* What a sender and a receiver have said.
LEMMA Sender ==
    ASSUME NEW t, Plain(t, call[t]), call[t].pc \in SendPCs
    PROVE  SendCall(call[t]) /\ Notifiable(program, t)
  BY DEF Plain

LEMMA Receiver ==
    ASSUME NEW t, Plain(t, call[t]), call[t].pc \in ReceivePCs
    PROVE  ReceiveCall(call[t]) /\ Notifiable(program, t)
  BY DEF Plain

LEMMA SendTryStep ==
    ASSUME KInv, program' = program, NEW t \in Task, SendTry(t)
    PROVE  Scheduled /\ StreamTyped'
  <1> DEFINE space == SpacesAvailable(stream)
             waits == space < call[t].len + HeaderLength
             w == [call[t] EXCEPT !.pc = IF waits THEN "sendWait" ELSE "sendSpace", !.space = space]
  <1>1. /\ t = sched.current /\ call[t].pc = "sendTry" /\ lastWake' = lastWake /\ call' = [call EXCEPT ![t] = w]
        /\ sched' \in {sched, StateClear(sched, t)} /\ stream' \in {stream, [stream EXCEPT !.sender = t]}
    BY DEF SendTry, At, Goto
  <1>2. InStreamCall(t) /\ sched.nesting = 0
    <2>1. InStreamCall(t)
      BY <1>1, StreamUser DEF StreamCalls
    <2> QED
      BY <1>1, <2>1 DEF InStreamCall, StreamFlat
  <1>3. SendCall(call[t]) /\ Notifiable(program, t)
    BY <1>1, <1>2, Sender DEF InStreamCall, SendPCs
  <1> HIDE DEF waits, space
  <1>4. SendCall(w) /\ w.pc \in {"sendWait", "sendSpace"}
    BY <1>3 DEF SendCall
  <1> HIDE DEF w
  <1>5. Plain(t, w)
    BY <1>2, <1>3, <1>4, SendIsPlain DEF SendPCs, InStreamCall
  <1>6. Core(sched') /\ Benign(sched, sched')
    <2>1. Core(sched)
      BY <1>2 DEF InStreamCall
    <2>2. CASE sched' = sched
      BY <2>1, <2>2, BenignOnce
    <2>3. CASE sched' = StateClear(sched, t)
      BY <2>1, <2>3, StateCleared DEF StateClear
    <2> QED
      BY <1>1, <2>2, <2>3
  <1>7. Scheduled
    BY <1>1, <1>2, <1>4, <1>5, <1>6, CallGoesOn DEF StreamFlat, StreamFree
  <1>8. StreamEnds(stream)
    BY StreamHas DEF KInv
  <1>9. StreamEnds(stream')
    <2>1. StreamEnds([stream EXCEPT !.sender = t])
      BY <1>8, EndsStay DEF EndsKept
    <2> QED
      BY <1>1, <1>8, <2>1
  <1> QED
    BY <1>7, <1>9, StreamThen

LEMMA SendWaitsStep ==
    ASSUME KInv, program' = program, NEW t \in Task, SendWaits(t)
    PROVE  Scheduled /\ StreamTyped'
  <1> DEFINE then == [call[t] EXCEPT !.pc = "sendWoken"]
             w == NotifyWaitGoes(FALSE, then)
             ticks == call[t].out.ticks
  <1>1. /\ t = sched.current /\ call[t].pc = "sendWait" /\ lastWake' = lastWake /\ call' = [call EXCEPT ![t] = w]
        /\ sched' \in WaitForNotification(sched, ticks, FALSE) /\ stream' = stream
    BY DEF SendWaits, At, Goto
  <1>2. InStreamCall(t) /\ sched.nesting = 0
    <2>1. InStreamCall(t)
      BY <1>1, StreamUser DEF StreamCalls
    <2> QED
      BY <1>1, <2>1 DEF InStreamCall, StreamFlat
  <1>3. SendCall(call[t]) /\ Notifiable(program, t)
    BY <1>1, <1>2, Sender DEF InStreamCall, SendPCs
  <1>4. SendCall(then) /\ then.pc = "sendWoken" /\ ticks \in Time
    BY <1>3 DEF SendCall
  <1> HIDE DEF then, ticks
  <1>5. Plain(t, then)
    BY <1>2, <1>3, <1>4, SendIsPlain DEF SendPCs, InStreamCall
  <1>6. {"pc", "then"} \subseteq DOMAIN w /\ w.pc = "notified" /\ w.then = then
    BY DEF NotifyWaitGoes
  <1> HIDE DEF w
  <1>7. /\ t \notin {Idle, Daemon} /\ Core(sched) /\ Settled(sched) /\ Awake(sched, t) /\ sched.item[t] # 0
    BY <1>2 DEF InStreamCall
  <1>8. /\ Acts(sched, sched') /\ sched'.item = sched.item
        /\ sched'.current = sched.current => sched'.nesting = 0 /\ Awake(sched', sched'.current)
    BY <1>1, <1>2, <1>4, <1>7, WaitsForNotification
  <1>9. Scheduled
    BY <1>1, <1>2, <1>3, <1>4, <1>5, <1>6, <1>7, <1>8, BeginsToWait
  <1> QED
    BY <1>1, <1>9, StreamSame DEF KInv

LEMMA SendWokenStep ==
    ASSUME KInv, program' = program, NEW t \in Task, SendWoken(t)
    PROVE  Scheduled /\ StreamTyped'
  <1> DEFINE w == [call[t] EXCEPT !.pc = "sendCheck"]
  <1>1. /\ t = sched.current /\ call[t].pc = "sendWoken" /\ lastWake' = lastWake /\ call' = [call EXCEPT ![t] = w]
        /\ sched' = sched /\ stream' = [stream EXCEPT !.sender = None]
    BY DEF SendWoken, At, GoOn, Goto
  <1>2. InStreamCall(t) /\ sched.nesting = 0
    <2>1. InStreamCall(t)
      BY <1>1, StreamUser DEF StreamCalls
    <2> QED
      BY <1>1, <2>1 DEF InStreamCall, StreamFlat
  <1>3. SendCall(call[t]) /\ Notifiable(program, t)
    BY <1>1, <1>2, Sender DEF InStreamCall, SendPCs
  <1>4. SendCall(w) /\ w.pc = "sendCheck"
    BY <1>3 DEF SendCall
  <1> HIDE DEF w
  <1>5. Plain(t, w)
    BY <1>2, <1>3, <1>4, SendIsPlain DEF SendPCs, InStreamCall
  <1>6. Scheduled
    BY <1>1, <1>2, <1>4, <1>5, CallGoesOnAlone DEF StreamFlat
  <1>7. StreamEnds(stream)
    BY StreamHas DEF KInv
  <1>8. StreamEnds(stream')
    BY <1>1, <1>7, EndsStay DEF EndsKept
  <1> QED
    BY <1>6, <1>8, StreamThen

LEMMA SendChecksTimeStep ==
    ASSUME KInv, program' = program, NEW t \in Task, SendChecksTime(t)
    PROVE  Scheduled /\ StreamTyped'
  <1> DEFINE over == TimedOut(sched, call[t].out)
             left == TicksLeft(sched, call[t].out)
             w == [call[t] EXCEPT !.pc = IF over THEN "sendSpace" ELSE "sendTry", !.out = left]
  <1>1. /\ t = sched.current /\ call[t].pc = "sendCheck" /\ lastWake' = lastWake /\ call' = [call EXCEPT ![t] = w]
        /\ sched' = sched /\ stream' = stream
    BY DEF SendChecksTime, At, Goto
  <1>2. InStreamCall(t) /\ sched.nesting = 0
    <2>1. InStreamCall(t)
      BY <1>1, StreamUser DEF StreamCalls
    <2> QED
      BY <1>1, <2>1 DEF InStreamCall, StreamFlat
  <1>3. SendCall(call[t]) /\ Notifiable(program, t) /\ Core(sched)
    BY <1>1, <1>2, Sender DEF InStreamCall, SendPCs
  <1>4. left \in [overflows : Nat, since : Time, ticks : Time]
    BY <1>3, TimeLeft DEF SendCall, TimeLeftWell
  <1> HIDE DEF over, left
  <1>5. SendCall(w) /\ w.pc \in {"sendSpace", "sendTry"}
    BY <1>3, <1>4 DEF SendCall
  <1> HIDE DEF w
  <1>6. Plain(t, w)
    BY <1>2, <1>3, <1>5, SendIsPlain DEF SendPCs, InStreamCall
  <1>7. Scheduled
    BY <1>1, <1>2, <1>5, <1>6, CallGoesOnAlone DEF StreamFlat, StreamFree
  <1> QED
    BY <1>1, <1>7, StreamSame DEF KInv

LEMMA SendDecidesStep ==
    ASSUME KInv, program' = program, NEW t \in Task, SendDecides(t)
    PROVE  Scheduled /\ StreamTyped'
  <1>1. /\ t = sched.current /\ call[t].pc = "sendSpace" /\ lastWake' = lastWake
        /\ sched' = sched /\ stream' = stream
        /\ \E parts : \/ call' = [call EXCEPT ![t] = Run]
                      \/ call' = [call EXCEPT ![t] = [pc |-> "sendCopy", parts |-> parts]]
    BY DEF SendDecides, At, Goto
  <1>2. InStreamCall(t)
    BY <1>1, StreamUser DEF StreamCalls
  <1>3. PICK parts : \/ call' = [call EXCEPT ![t] = Run]
                     \/ call' = [call EXCEPT ![t] = [pc |-> "sendCopy", parts |-> parts]]
    BY <1>1
  <1> DEFINE w == [pc |-> "sendCopy", parts |-> parts]
  <1>4. w.pc = "sendCopy" /\ Plain(t, w)
    BY <1>2, OtherIsPlain DEF InStreamCall, OtherPCs
  <1> HIDE DEF w
  <1>5. Scheduled
    <2>1. call' = [call EXCEPT ![t] = Run] \/ call' = [call EXCEPT ![t] = w]
      BY <1>3 DEF w
    <2> QED
      BY <1>1, <1>2, <1>4, <2>1, CallGoesOnAlone DEF StreamFree
  <1> QED
    BY <1>1, <1>5, StreamSame DEF KInv

LEMMA SendCopiesStep ==
    ASSUME KInv, program' = program, NEW t \in Task, SendCopies(t)
    PROVE  Scheduled /\ StreamTyped'
  <1> DEFINE w == [call[t] EXCEPT !.pc = "sendPublish"]
             bytes == Head(call[t].parts)
  <1>1. /\ t = sched.current /\ call[t].pc = "sendCopy" /\ lastWake' = lastWake /\ call' = [call EXCEPT ![t] = w]
        /\ sched' = sched /\ stream' = CopyIn(stream, bytes)
    BY DEF SendCopies, At, GoOn, Goto
  <1> HIDE DEF bytes
  <1>2. InStreamCall(t)
    BY <1>1, StreamUser DEF StreamCalls
  <1>3. w.pc = "sendPublish" /\ "pc" \in DOMAIN w
    BY <1>2 DEF InStreamCall, Plain
  <1> HIDE DEF w
  <1>4. Plain(t, w)
    BY <1>2, <1>3, OtherIsPlain DEF InStreamCall, OtherPCs
  <1>5. Scheduled
    BY <1>1, <1>2, <1>3, <1>4, CallGoesOnAlone DEF StreamFree
  <1>6. StreamEnds(stream)
    BY StreamHas DEF KInv
  <1>7. StreamEnds(stream')
    BY <1>1, <1>6, EndsStay DEF EndsKept
  <1> QED
    BY <1>5, <1>7, StreamThen

LEMMA SendPublishesStep ==
    ASSUME KInv, program' = program, NEW t \in Task, SendPublishes(t)
    PROVE  Scheduled /\ StreamTyped'
  <1> DEFINE n == Len(Head(call[t].parts))
             b == MoveHead(stream, n)
             left == Tail(call[t].parts)
             w == IF Len(call[t].parts) > 1 THEN [pc |-> "sendCopy", parts |-> left] ELSE [pc |-> "sent"]
  <1>1. /\ t = sched.current /\ call[t].pc = "sendPublish" /\ lastWake' = lastWake /\ sched' = sched
        /\ call' = [call EXCEPT ![t] = w]
        /\ stream' \in {b, [b EXCEPT !.written = (@ + n) % Numbers]}
    BY DEF SendPublishes, At, Goto
  <1> HIDE DEF n, left
  <1>2. InStreamCall(t)
    BY <1>1, StreamUser DEF StreamCalls
  <1>3. w.pc \in {"sendCopy", "sent"} /\ "pc" \in DOMAIN w
    OBVIOUS
  <1> HIDE DEF w
  <1>4. Plain(t, w)
    BY <1>2, <1>3, OtherIsPlain DEF InStreamCall, OtherPCs
  <1>5. Scheduled
    BY <1>1, <1>2, <1>3, <1>4, CallGoesOnAlone DEF StreamFree
  <1>6. StreamEnds(b)
    BY StreamHas, EndsStay DEF KInv, EndsKept
  <1> HIDE DEF b
  <1>7. StreamEnds(stream')
    <2>1. StreamEnds([b EXCEPT !.written = (@ + n) % Numbers])
      BY <1>6, Counted
    <2> QED
      BY <1>1, <1>6, <2>1
  <1> QED
    BY <1>5, <1>7, StreamThen

LEMMA SentStep ==
    ASSUME KInv, program' = program, NEW t \in Task, Sent(t)
    PROVE  Scheduled /\ StreamTyped'
  <1> DEFINE w == [pc |-> "sendCompleted"]
  <1>1. /\ t = sched.current /\ call[t].pc = "sent" /\ lastWake' = lastWake /\ stream' = stream
        /\ \/ sched' = SuspendAll(sched) /\ call' = [call EXCEPT ![t] = w]
           \/ sched' = sched /\ call' = [call EXCEPT ![t] = Run]
    BY DEF Sent, At, Goto
  <1>2. InStreamCall(t)
    BY <1>1, StreamUser DEF StreamCalls
  <1>3. w.pc = "sendCompleted" /\ "pc" \in DOMAIN w
    OBVIOUS
  <1> HIDE DEF w
  <1>4. Scheduled
    BY <1>1, <1>2, <1>3, CallGoesOnAlone, Completes
  <1> QED
    BY <1>1, <1>4, StreamSame DEF KInv

LEMMA SendCompletedStep ==
    ASSUME KInv, program' = program, NEW t \in Task, SendCompleted(t)
    PROVE  Scheduled /\ StreamTyped'
  <1>1. /\ t = sched.current /\ call[t].pc = "sendCompleted" /\ lastWake' = lastWake
        /\ sched' \in Tell(stream.receiver) /\ call' = [call EXCEPT ![t] = ThenResume]
        /\ stream' = [stream EXCEPT !.receiver = None]
    BY DEF SendCompleted, At, Goto
  <1>2. InStreamCall(t)
    BY <1>1, StreamUser DEF StreamCalls
  <1>3. StreamEnds(stream) /\ stream.receiver \in Task \cup {None}
    BY StreamHas DEF KInv, StreamEnds
  <1>4. Scheduled
    BY <1>1, <1>2, <1>3, TellsStep
  <1>5. StreamEnds(stream')
    BY <1>1, <1>3, EndsStay DEF EndsKept
  <1> QED
    BY <1>4, <1>5, StreamThen

LEMMA ReceiveStep ==
    ASSUME KInv, program' = program, NEW t \in Task, NEW c \in program.calls[t], Receive(t, c)
    PROVE  Scheduled /\ StreamTyped'
  <1> DEFINE available == BytesInBuffer(stream)
             waits == c.ticks > 0 /\ available <= HeaderLength
             w == [pc |-> IF waits THEN "receiveWait" ELSE "receiveLength", max |-> c.max,
                   ticks |-> c.ticks, available |-> available]
  <1>1. /\ Calls(t, c, "streamReceive") /\ (c.ticks > 0 => sched.nesting = 0)
        /\ lastWake' = lastWake /\ call' = [call EXCEPT ![t] = w]
        /\ sched' \in {sched, StateClear(sched, t)} /\ stream' \in {stream, [stream EXCEPT !.receiver = t]}
    BY DEF Receive, Goto
  <1>2. InStreamCall(t) /\ t = sched.current /\ c.op = "streamReceive" /\ CallOf(c)
    BY <1>1, NewStreamUser
  <1>3. c.ticks \in Time /\ Notifiable(program, t)
    BY <1>2 DEF CallOf, Notifiable, Time
  <1> HIDE DEF available
  <1>4. ReceiveCall(w) /\ (w.pc = "receiveLength" \/ (w.pc = "receiveWait" /\ sched.nesting = 0))
    BY <1>1, <1>3 DEF ReceiveCall
  <1> HIDE DEF w, waits
  <1>5. Plain(t, w)
    BY <1>2, <1>3, <1>4, ReceiveIsPlain DEF ReceivePCs, InStreamCall
  <1>6. Core(sched') /\ Benign(sched, sched')
    <2>1. Core(sched)
      BY <1>2 DEF InStreamCall
    <2>2. CASE sched' = sched
      BY <2>1, <2>2, BenignOnce
    <2>3. CASE sched' = StateClear(sched, t)
      BY <2>1, <2>3, StateCleared DEF StateClear
    <2> QED
      BY <1>1, <2>2, <2>3
  <1>7. Scheduled
    BY <1>1, <1>2, <1>4, <1>5, <1>6, CallGoesOn DEF StreamFlat, StreamFree
  <1>8. StreamEnds(stream)
    BY StreamHas DEF KInv
  <1>9. StreamEnds(stream')
    <2>1. StreamEnds([stream EXCEPT !.receiver = t])
      BY <1>8, EndsStay DEF EndsKept
    <2> QED
      BY <1>1, <1>8, <2>1
  <1> QED
    BY <1>7, <1>9, StreamThen

LEMMA ReceiveWaitsStep ==
    ASSUME KInv, program' = program, NEW t \in Task, ReceiveWaits(t)
    PROVE  Scheduled /\ StreamTyped'
  <1> DEFINE then == [call[t] EXCEPT !.pc = "receiveWoken"]
             w == NotifyWaitGoes(FALSE, then)
             ticks == call[t].ticks
  <1>1. /\ t = sched.current /\ call[t].pc = "receiveWait" /\ lastWake' = lastWake /\ call' = [call EXCEPT ![t] = w]
        /\ sched' \in WaitForNotification(sched, ticks, FALSE) /\ stream' = stream
    BY DEF ReceiveWaits, At, Goto
  <1>2. InStreamCall(t) /\ sched.nesting = 0
    <2>1. InStreamCall(t)
      BY <1>1, StreamUser DEF StreamCalls
    <2> QED
      BY <1>1, <2>1 DEF InStreamCall, StreamFlat
  <1>3. ReceiveCall(call[t]) /\ Notifiable(program, t)
    BY <1>1, <1>2, Receiver DEF InStreamCall, ReceivePCs
  <1>4. ReceiveCall(then) /\ then.pc = "receiveWoken" /\ ticks \in Time
    BY <1>3 DEF ReceiveCall
  <1> HIDE DEF then, ticks
  <1>5. Plain(t, then)
    BY <1>2, <1>3, <1>4, ReceiveIsPlain DEF ReceivePCs, InStreamCall
  <1>6. {"pc", "then"} \subseteq DOMAIN w /\ w.pc = "notified" /\ w.then = then
    BY DEF NotifyWaitGoes
  <1> HIDE DEF w
  <1>7. /\ t \notin {Idle, Daemon} /\ Core(sched) /\ Settled(sched) /\ Awake(sched, t) /\ sched.item[t] # 0
    BY <1>2 DEF InStreamCall
  <1>8. /\ Acts(sched, sched') /\ sched'.item = sched.item
        /\ sched'.current = sched.current => sched'.nesting = 0 /\ Awake(sched', sched'.current)
    BY <1>1, <1>2, <1>4, <1>7, WaitsForNotification
  <1>9. Scheduled
    BY <1>1, <1>2, <1>3, <1>4, <1>5, <1>6, <1>7, <1>8, BeginsToWait
  <1> QED
    BY <1>1, <1>9, StreamSame DEF KInv

LEMMA ReceiveWokenStep ==
    ASSUME KInv, program' = program, NEW t \in Task, ReceiveWoken(t)
    PROVE  Scheduled /\ StreamTyped'
  <1> DEFINE w == [call[t] EXCEPT !.pc = "receiveLooks"]
  <1>1. /\ t = sched.current /\ call[t].pc = "receiveWoken" /\ lastWake' = lastWake /\ call' = [call EXCEPT ![t] = w]
        /\ sched' = sched /\ stream' = [stream EXCEPT !.receiver = None]
    BY DEF ReceiveWoken, At, GoOn, Goto
  <1>2. InStreamCall(t)
    BY <1>1, StreamUser DEF StreamCalls
  <1>3. ReceiveCall(call[t]) /\ Notifiable(program, t)
    BY <1>1, <1>2, Receiver DEF InStreamCall, ReceivePCs
  <1>4. ReceiveCall(w) /\ w.pc = "receiveLooks"
    BY <1>3 DEF ReceiveCall
  <1> HIDE DEF w
  <1>5. Plain(t, w)
    BY <1>2, <1>3, <1>4, ReceiveIsPlain DEF ReceivePCs, InStreamCall
  <1>6. Scheduled
    BY <1>1, <1>2, <1>4, <1>5, CallGoesOnAlone DEF StreamFree
  <1>7. StreamEnds(stream)
    BY StreamHas DEF KInv
  <1>8. StreamEnds(stream')
    BY <1>1, <1>7, EndsStay DEF EndsKept
  <1> QED
    BY <1>6, <1>8, StreamThen

LEMMA ReceiveLooksStep ==
    ASSUME KInv, program' = program, NEW t \in Task, ReceiveLooks(t)
    PROVE  Scheduled /\ StreamTyped'
  <1> DEFINE n == BytesInBuffer(stream)
             w == [call[t] EXCEPT !.pc = "receiveLength", !.available = n]
  <1>1. /\ t = sched.current /\ call[t].pc = "receiveLooks" /\ lastWake' = lastWake /\ call' = [call EXCEPT ![t] = w]
        /\ sched' = sched /\ stream' = stream
    BY DEF ReceiveLooks, At, Goto
  <1> HIDE DEF n
  <1>2. InStreamCall(t)
    BY <1>1, StreamUser DEF StreamCalls
  <1>3. ReceiveCall(call[t]) /\ Notifiable(program, t)
    BY <1>1, <1>2, Receiver DEF InStreamCall, ReceivePCs
  <1>4. ReceiveCall(w) /\ w.pc = "receiveLength"
    BY <1>3 DEF ReceiveCall
  <1> HIDE DEF w
  <1>5. Plain(t, w)
    BY <1>2, <1>3, <1>4, ReceiveIsPlain DEF ReceivePCs, InStreamCall
  <1>6. Scheduled
    BY <1>1, <1>2, <1>4, <1>5, CallGoesOnAlone DEF StreamFree
  <1> QED
    BY <1>1, <1>6, StreamSame DEF KInv

LEMMA ReceiveLengthStep ==
    ASSUME KInv, program' = program, NEW t \in Task, ReceiveLength(t)
    PROVE  Scheduled /\ StreamTyped'
  <1>1. /\ t = sched.current /\ call[t].pc = "receiveLength" /\ lastWake' = lastWake /\ sched' = sched
        /\ stream' \in {stream, MoveTail(stream, HeaderLength)}
        /\ \E n : call' \in {[call EXCEPT ![t] = Run], [call EXCEPT ![t] = [pc |-> "receiveRestores", tail |-> n]],
                             [call EXCEPT ![t] = [pc |-> "receiveCopies", n |-> n]]}
    <2> DEFINE x == call[t]
               length == -CopyOut(stream, 1)[1]
               y == Min({length, x.available - HeaderLength})
               z == Min({x.max, x.available})
    <2>1. /\ t = sched.current /\ x.pc = "receiveLength" /\ lastWake' = lastWake /\ sched' = sched
          /\ \/ call' = [call EXCEPT ![t] = Run] /\ stream' = stream
             \/ /\ stream' = MoveTail(stream, HeaderLength)
                /\ call' = [call EXCEPT ![t] = IF length > x.max THEN [pc |-> "receiveRestores", tail |-> stream.tail]
                                               ELSE [pc |-> "receiveCopies", n |-> y]]
             \/ call' = [call EXCEPT ![t] = [pc |-> "receiveCopies", n |-> z]] /\ stream' = stream
      BY DEF ReceiveLength, At, Goto
    <2> HIDE DEF y, z, length
    <2> QED
      BY <2>1
  <1>2. InStreamCall(t)
    BY <1>1, StreamUser DEF StreamCalls
  <1>3. PICK n : call' \in {[call EXCEPT ![t] = Run], [call EXCEPT ![t] = [pc |-> "receiveRestores", tail |-> n]],
                            [call EXCEPT ![t] = [pc |-> "receiveCopies", n |-> n]]}
    BY <1>1
  <1> DEFINE w1 == [pc |-> "receiveRestores", tail |-> n]
             w2 == [pc |-> "receiveCopies", n |-> n]
  <1>4. w1.pc = "receiveRestores" /\ "pc" \in DOMAIN w1 /\ w2.pc = "receiveCopies" /\ "pc" \in DOMAIN w2
    OBVIOUS
  <1>5. call' = [call EXCEPT ![t] = Run] \/ call' = [call EXCEPT ![t] = w1] \/ call' = [call EXCEPT ![t] = w2]
    BY <1>3
  <1> HIDE DEF w1, w2
  <1>6. Plain(t, w1) /\ Plain(t, w2)
    BY <1>2, <1>4, OtherIsPlain DEF InStreamCall, OtherPCs
  <1>7. Scheduled
    BY <1>1, <1>2, <1>4, <1>5, <1>6, CallGoesOnAlone DEF StreamFree
  <1>8. StreamEnds(stream) /\ StreamEnds(MoveTail(stream, HeaderLength))
    BY StreamHas, EndsStay DEF KInv, EndsKept
  <1>9. StreamEnds(stream')
    BY <1>1, <1>8
  <1> QED
    BY <1>7, <1>9, StreamThen

LEMMA ReceiveRestoresStep ==
    ASSUME KInv, program' = program, NEW t \in Task, ReceiveRestores(t)
    PROVE  Scheduled /\ StreamTyped'
  <1> DEFINE n == call[t].tail
  <1>1. /\ t = sched.current /\ call[t].pc = "receiveRestores" /\ lastWake' = lastWake /\ call' = [call EXCEPT ![t] = Run]
        /\ sched' = sched /\ stream' = [stream EXCEPT !.tail = n]
    BY DEF ReceiveRestores, At, Goto
  <1> HIDE DEF n
  <1>2. InStreamCall(t)
    BY <1>1, StreamUser DEF StreamCalls
  <1>3. Scheduled
    BY <1>1, <1>2, CallGoesOnAlone
  <1>4. StreamEnds(stream)
    BY StreamHas DEF KInv
  <1>5. StreamEnds(stream')
    BY <1>1, <1>4, EndsStay DEF EndsKept
  <1> QED
    BY <1>3, <1>5, StreamThen

LEMMA ReceiveCopiesStep ==
    ASSUME KInv, program' = program, NEW t \in Task, ReceiveCopies(t)
    PROVE  Scheduled /\ StreamTyped'
  <1> DEFINE got == CopyOut(stream, call[t].n)
             w == [pc |-> "receiveMoves", got |-> got]
  <1>1. /\ t = sched.current /\ call[t].pc = "receiveCopies" /\ lastWake' = lastWake /\ call' = [call EXCEPT ![t] = w]
        /\ sched' = sched /\ stream' = stream
    BY DEF ReceiveCopies, At, Goto
  <1> HIDE DEF got
  <1>2. InStreamCall(t)
    BY <1>1, StreamUser DEF StreamCalls
  <1>3. w.pc = "receiveMoves" /\ "pc" \in DOMAIN w
    OBVIOUS
  <1> HIDE DEF w
  <1>4. Plain(t, w)
    BY <1>2, <1>3, OtherIsPlain DEF InStreamCall, OtherPCs
  <1>5. Scheduled
    BY <1>1, <1>2, <1>3, <1>4, CallGoesOnAlone DEF StreamFree
  <1> QED
    BY <1>1, <1>5, StreamSame DEF KInv

LEMMA ReceiveMovesStep ==
    ASSUME KInv, program' = program, NEW t \in Task, ReceiveMoves(t)
    PROVE  Scheduled /\ StreamTyped'
  <1> DEFINE n == Len(call[t].got)
             b == MoveTail(stream, n)
             w == [pc |-> "received"]
  <1>1. /\ t = sched.current /\ call[t].pc = "receiveMoves" /\ lastWake' = lastWake /\ call' = [call EXCEPT ![t] = w]
        /\ sched' = sched /\ stream' = [b EXCEPT !.read = (@ + n) % Numbers]
    BY DEF ReceiveMoves, At, Goto
  <1> HIDE DEF n
  <1>2. InStreamCall(t)
    BY <1>1, StreamUser DEF StreamCalls
  <1>3. w.pc = "received" /\ "pc" \in DOMAIN w
    OBVIOUS
  <1> HIDE DEF w
  <1>4. Plain(t, w)
    BY <1>2, <1>3, OtherIsPlain DEF InStreamCall, OtherPCs
  <1>5. Scheduled
    BY <1>1, <1>2, <1>3, <1>4, CallGoesOnAlone DEF StreamFree
  <1>6. StreamEnds(b)
    BY StreamHas, EndsStay DEF KInv, EndsKept
  <1> HIDE DEF b
  <1>7. StreamEnds(stream')
    <2>1. StreamEnds([b EXCEPT !.read = (@ + n) % Numbers])
      BY <1>6, Counted
    <2> QED
      BY <1>1, <2>1
  <1> QED
    BY <1>5, <1>7, StreamThen

LEMMA ReceivedStep ==
    ASSUME KInv, program' = program, NEW t \in Task, Received(t)
    PROVE  Scheduled /\ StreamTyped'
  <1> DEFINE w == [pc |-> "receiveCompleted"]
  <1>1. /\ t = sched.current /\ call[t].pc = "received" /\ lastWake' = lastWake /\ stream' = stream
        /\ sched' = SuspendAll(sched) /\ call' = [call EXCEPT ![t] = w]
    BY DEF Received, At, Goto
  <1>2. InStreamCall(t)
    BY <1>1, StreamUser DEF StreamCalls
  <1>3. w.pc = "receiveCompleted" /\ "pc" \in DOMAIN w
    OBVIOUS
  <1> HIDE DEF w
  <1>4. Scheduled
    BY <1>1, <1>2, <1>3, Completes
  <1> QED
    BY <1>1, <1>4, StreamSame DEF KInv

LEMMA ReceiveCompletedStep ==
    ASSUME KInv, program' = program, NEW t \in Task, ReceiveCompleted(t)
    PROVE  Scheduled /\ StreamTyped'
  <1>1. /\ t = sched.current /\ call[t].pc = "receiveCompleted" /\ lastWake' = lastWake
        /\ sched' \in Tell(stream.sender) /\ call' = [call EXCEPT ![t] = ThenResume]
        /\ stream' = [stream EXCEPT !.sender = None]
    BY DEF ReceiveCompleted, At, Goto
  <1>2. InStreamCall(t)
    BY <1>1, StreamUser DEF StreamCalls
  <1>3. StreamEnds(stream) /\ stream.sender \in Task \cup {None}
    BY StreamHas DEF KInv, StreamEnds
  <1>4. Scheduled
    BY <1>1, <1>2, <1>3, TellsStep
  <1>5. StreamEnds(stream')
    BY <1>1, <1>3, EndsStay DEF EndsKept
  <1> QED
    BY <1>4, <1>5, StreamThen

LEMMA StreamSettings ==
    ASSUME KInv, program' = program, NEW t \in Task, NEW c \in program.calls[t],
           SetTriggerLevel(t, c) \/ StreamReset(t, c)
    PROVE  Scheduled /\ StreamTyped'
  <1> DEFINE n == Max({1, c.level})
             b == Fresh(stream.trigger, stream.written)
  <1>1. /\ sched' = sched /\ call' = call /\ lastWake' = lastWake
        /\ stream' = [stream EXCEPT !.trigger = n] \/ stream' = b
    BY DEF SetTriggerLevel, StreamReset
  <1> HIDE DEF n
  <1>2. StreamEnds(b)
    BY DEF Fresh, StreamEnds
  <1> HIDE DEF b
  <1>3. StreamEnds(stream)
    BY StreamHas DEF KInv
  <1>4. StreamEnds(stream')
    <2>1. StreamEnds([stream EXCEPT !.trigger = n])
      BY <1>3, EndsStay DEF EndsKept
    <2> QED
      BY <1>1, <1>2, <2>1
  <1> QED
    BY <1>1, <1>4, NothingChanges, StreamThen

LEMMA SendFromISRStep ==
    ASSUME KInv, program' = program, NEW c \in program.isr, SendFromISR(c)
    PROVE  Scheduled /\ StreamTyped'
  <1> DEFINE n == Fitting(c.len, SpacesAvailable(stream))
             header == CopyIn(stream, Header(n))
             length == MoveHead(header, HeaderLength)
             data == CopyIn(length, Data(stream.written, n))
             moved == MoveHead(data, n)
             b == [moved EXCEPT !.written = (@ + n) % Numbers]
  <1>1. /\ call' = call /\ lastWake' = lastWake
        /\ stream' \in {b, [b EXCEPT !.receiver = None]}
        /\ sched' = sched \/ sched' \in TellFromISR(stream.receiver)
    BY DEF SendFromISR
  <1> HIDE DEF n
  <1>2. StreamEnds(stream) /\ stream.receiver \in Task \cup {None}
    BY StreamHas DEF KInv, StreamEnds
  <1>3. StreamEnds(header)
    BY <1>2, EndsStay DEF EndsKept
  <1> HIDE DEF header
  <1>4. StreamEnds(length)
    BY <1>3, EndsStay DEF EndsKept
  <1> HIDE DEF length
  <1>5. StreamEnds(data)
    BY <1>4, EndsStay DEF EndsKept
  <1> HIDE DEF data
  <1>6. StreamEnds(moved)
    BY <1>5, EndsStay DEF EndsKept
  <1> HIDE DEF moved
  <1>7. StreamEnds(b)
    BY <1>6, Counted
  <1> HIDE DEF b
  <1>8. StreamEnds(stream')
    <2>1. StreamEnds([b EXCEPT !.receiver = None])
      BY <1>7, EndsStay DEF EndsKept
    <2> QED
      BY <1>1, <1>7, <2>1
  <1>9. Scheduled
    BY <1>1, <1>2, NothingChanges, ToldFromISR
  <1> QED
    BY <1>8, <1>9, StreamThen

LEMMA ReceiveFromISRStep ==
    ASSUME KInv, program' = program, NEW c \in program.isr, ReceiveFromISR(c)
    PROVE  Scheduled /\ StreamTyped'
  <1> DEFINE length == -CopyOut(stream, 1)[1]
             n == IF program.message THEN length ELSE Min({c.max, BytesInBuffer(stream)})
             h == HeaderLength + n
             b == MoveTail(stream, h)
             d == [b EXCEPT !.read = (@ + n) % Numbers]
  <1>1. /\ call' = call /\ lastWake' = lastWake
        /\ stream' = [b EXCEPT !.read = (@ + n) % Numbers, !.sender = None]
        /\ sched' \in TellFromISR(stream.sender)
    BY DEF ReceiveFromISR
  <1> HIDE DEF n, h
  <1>2. StreamEnds(stream) /\ stream.sender \in Task \cup {None}
    BY StreamHas DEF KInv, StreamEnds
  <1>3. StreamEnds(b)
    BY <1>2, EndsStay DEF EndsKept
  <1> HIDE DEF b
  <1>4. StreamEnds(d)
    BY <1>3, Counted
  <1>5. stream' = [d EXCEPT !.sender = None]
    BY <1>1
  <1> HIDE DEF d
  <1>6. StreamEnds(stream')
    BY <1>4, <1>5, EndsStay DEF EndsKept
  <1>7. Scheduled
    BY <1>1, <1>2, ToldFromISR
  <1> QED
    BY <1>6, <1>7, StreamThen

LEMMA StreamBufferStepKeeps ==
    ASSUME KInv, program' = program, StreamBufferNext
    PROVE  Scheduled /\ StreamTyped'
  <1>1. ASSUME NEW t \in Task, StreamBufferStep(t) PROVE Scheduled /\ StreamTyped'
    BY <1>1, SendTryStep, SendWaitsStep, SendWokenStep, SendChecksTimeStep, SendDecidesStep, SendCopiesStep,
       SendPublishesStep, SentStep, SendCompletedStep, ReceiveWaitsStep, ReceiveWokenStep, ReceiveLooksStep,
       ReceiveLengthStep, ReceiveRestoresStep, ReceiveCopiesStep, ReceiveMovesStep, ReceivedStep,
       ReceiveCompletedStep, SendStep, ReceiveStep, StreamSettings DEF StreamBufferStep
  <1> QED
    BY <1>1, SendFromISRStep, ReceiveFromISRStep DEF StreamBufferNext

-----------------------------------------------------------------------------
(***************************************************************************)
(* The timer lists.                                                        *)
(***************************************************************************)
TimerFields == {"queue", "lock", "current", "overflow", "last", "value", "period", "reload",
                "active", "exists", "due", "early"}

Well(ts) ==
    /\ DOMAIN ts = TimerFields
    /\ ts.queue \in Seq(DaemonTaskMessage) /\ ts.lock \in Int
    /\ ts.current \subseteq Timer /\ ts.overflow \subseteq Timer
    /\ ts.last \in Time /\ ts.value \in [Timer -> Time] /\ ts.period \in [Timer -> Time \ {0}]

\* Timers of the next turn of the tick count are due before the daemon's last
\* look at this one.
NextTurn(ts) == \A x \in ts.overflow : ts.value[x] < ts.last

Alike(ts, us, changed) == DOMAIN us = TimerFields /\ \A f \in TimerFields \ changed : us[f] = ts[f]

LEMMA TimersAreWell ==
    ASSUME TimersTyped PROVE Well(timers)
  BY DEF TimersTyped, Well, TimerFields

LEMMA WellThen ==
    ASSUME Well(timers') PROVE TimersTyped'
  BY DEF TimersTyped, Well, TimerFields

LEMMA WellParts ==
    ASSUME NEW ts, Well(ts)
    PROVE  /\ DOMAIN ts = TimerFields /\ ts.queue \in Seq(DaemonTaskMessage) /\ ts.last \in Time
           /\ \A x \in ts.current : x \in Timer
           /\ \A x \in Timer : ts.value[x] \in Time /\ ts.period[x] \in Time /\ ts.period[x] # 0
  BY DEF Well

\* What has no part in the lists.
Aside == {"reload", "active", "exists", "due", "early"}

LEMMA WellAside ==
    ASSUME NEW ts, Well(ts), NEW us, Alike(ts, us, Aside)
    PROVE  Well(us) /\ (NextTurn(ts) => NextTurn(us)) /\ us.overflow = ts.overflow /\ us.last = ts.last
           /\ us.value = ts.value /\ us.period = ts.period /\ us.current = ts.current
  BY DEF Well, NextTurn, Alike, Aside, TimerFields

LEMMA AlikeTwice ==
    ASSUME NEW r, NEW s, NEW u, NEW changed, Alike(r, s, changed), Alike(s, u, changed)
    PROVE  Alike(r, u, changed)
  BY DEF Alike

LEMMA AsideSet ==
    ASSUME NEW ts, DOMAIN ts = TimerFields, NEW f \in Aside, NEW n
    PROVE  Alike(ts, [ts EXCEPT ![f] = n], Aside)
  BY DEF Alike

LEMMA StoppedTimer ==
    ASSUME NEW ts, Well(ts), NEW x, NEW us, us = Stopped(ts, x)
    PROVE  /\ Well(us) /\ Alike(ts, us, {"current", "overflow"}) /\ (NextTurn(ts) => NextTurn(us))
           /\ x \notin us.overflow /\ us.last = ts.last /\ us.value = ts.value /\ us.period = ts.period
           /\ us.overflow \subseteq ts.overflow
  <1>1. DOMAIN ts = TimerFields
    BY WellParts
  <1>2. /\ Alike(ts, us, {"current", "overflow"})
        /\ us.current = ts.current \ {x} /\ us.overflow = ts.overflow \ {x}
    BY <1>1 DEF Stopped, Alike, TimerFields
  <1>3. us.last = ts.last /\ us.value = ts.value /\ us.period = ts.period /\ us.queue = ts.queue /\ us.lock = ts.lock
    BY <1>2 DEF Alike, TimerFields
  <1>4. Well(us)
    BY <1>2, <1>3 DEF Well, Alike
  <1> QED
    BY <1>2, <1>3, <1>4 DEF NextTurn

LEMMA CalledBack ==
    ASSUME NEW ts, Well(ts), NEW x
    PROVE  Alike(ts, CallBack(ts, x), Aside)
  <1> DEFINE e == ts.early \/ ts.due[x] = Never \/ (ts.due[x] # Never /\ ts.due[x] > Elapsed(sched))
             d == [ts.due EXCEPT ![x] = IF ts.reload[x] /\ ts.due[x] # Never THEN ts.due[x] + ts.period[x] ELSE Never]
             u == [ts EXCEPT !.early = e]
             v == [u EXCEPT !.due = d]
  <1>1. CallBack(ts, x) = [ts EXCEPT !.early = e, !.due = d]
    BY WellParts DEF CallBack, TimerFields
  <1>2. CallBack(ts, x) = v
    BY <1>1
  <1> HIDE DEF e, d
  <1>3. Alike(ts, u, Aside) /\ DOMAIN u = TimerFields
    BY WellParts, AsideSet DEF Aside, Alike
  <1> HIDE DEF u
  <1>4. Alike(u, v, Aside)
    BY <1>3, AsideSet DEF Aside
  <1> HIDE DEF v
  <1> QED
    BY <1>2, <1>3, <1>4, AlikeTwice

LEMMA MessageAgain ==
    ASSUME NEW x \in Timer, NEW v \in Time
    PROVE  [id |-> "START_DONT_TRACE", timer |-> x, at |-> 0, value |-> v] \in DaemonTaskMessage
  BY DEF DaemonTaskMessage, Time

LEMMA Enqueued ==
    ASSUME NEW ts, Well(ts), NEW m \in DaemonTaskMessage, NEW us, Alike(ts, us, {"queue", "lock"}),
           us.queue = Append(ts.queue, m), us.lock \in Int
    PROVE  /\ Well(us) /\ (NextTurn(ts) => NextTurn(us)) /\ us.overflow = ts.overflow /\ us.last = ts.last
           /\ us.value = ts.value
  <1>1. us.queue \in Seq(DaemonTaskMessage)
    BY DEF Well
  <1>2. us.overflow = ts.overflow /\ us.last = ts.last /\ us.value = ts.value /\ us.period = ts.period
        /\ us.current = ts.current /\ DOMAIN us = TimerFields
    BY DEF Alike, TimerFields
  <1> QED
    BY <1>1, <1>2 DEF Well, NextTurn

LEMMA StartedAgain ==
    ASSUME NEW ts, Well(ts), NEW x \in Timer, NEW v \in Time, NEW us, us = StartAgain(ts, x, v)
    PROVE  Well(us) /\ (NextTurn(ts) => NextTurn(us)) /\ us.overflow = ts.overflow /\ us.last = ts.last
  <1> DEFINE m == [id |-> "START_DONT_TRACE", timer |-> x, at |-> 0, value |-> v]
             n == [ts EXCEPT !.queue = Append(@, m)]
  <1>1. m \in DaemonTaskMessage
    BY MessageAgain
  <1>2. us = ts \/ us = n
    BY DEF StartAgain
  <1> HIDE DEF m
  <1>3. Alike(ts, n, {"queue", "lock"}) /\ n.queue = Append(ts.queue, m) /\ n.lock \in Int
    BY DEF Alike, Well, TimerFields
  <1> HIDE DEF n
  <1> QED
    BY <1>1, <1>2, <1>3, Enqueued

\* The value of a timer that is in neither list may change.
LEMMA Revalued ==
    ASSUME NEW ts, Well(ts), NEW x \in Timer, x \notin ts.overflow, NEW e \in Time
    PROVE  LET us == [ts EXCEPT !.value[x] = e]
           IN  Well(us) /\ (NextTurn(ts) => NextTurn(us)) /\ us.overflow = ts.overflow /\ us.last = ts.last
  <1> DEFINE us == [ts EXCEPT !.value[x] = e]
  <1>1. Alike(ts, us, {"value"}) /\ us.value = [ts.value EXCEPT ![x] = e]
    BY DEF Alike, Well, TimerFields
  <1> HIDE DEF us
  <1>2. us.value \in [Timer -> Time]
    BY <1>1 DEF Well
  <1>3. us.overflow = ts.overflow /\ us.last = ts.last /\ us.queue = ts.queue /\ us.period = ts.period
        /\ us.current = ts.current /\ us.lock = ts.lock /\ DOMAIN us = TimerFields
    BY <1>1 DEF Alike, TimerFields
  <1>4. Well(us)
    BY <1>2, <1>3 DEF Well
  <1>5. \A y \in ts.overflow : us.value[y] = ts.value[y]
    BY <1>1 DEF Well
  <1>6. Well(us) /\ (NextTurn(ts) => NextTurn(us)) /\ us.overflow = ts.overflow /\ us.last = ts.last
    BY <1>3, <1>4, <1>5 DEF NextTurn
  <1> QED
    BY <1>6 DEF us

LEMMA CurrentGrown ==
    ASSUME NEW ts, Well(ts), NEW x \in Timer, NEW us, us = [ts EXCEPT !.current = ts.current \cup {x}]
    PROVE  Well(us) /\ us.last = ts.last /\ us.overflow = ts.overflow /\ us.value = ts.value
  <1>1. Alike(ts, us, {"current"}) /\ us.current = ts.current \cup {x}
    BY DEF Alike, Well, TimerFields
  <1>2. us.overflow = ts.overflow /\ us.last = ts.last /\ us.queue = ts.queue /\ us.period = ts.period
        /\ us.value = ts.value /\ us.lock = ts.lock /\ DOMAIN us = TimerFields
    BY <1>1 DEF Alike, TimerFields
  <1> QED
    BY <1>1, <1>2 DEF Well

LEMMA Inserted ==
    ASSUME NEW ts, Well(ts), NextTurn(ts), NEW x \in Timer, x \notin ts.overflow, NEW e \in Time, e # ts.last,
           NEW us, us = Insert(ts, x, e, ts.last)
    PROVE  Well(us) /\ NextTurn(us) /\ us.last = ts.last
  <1>1. CASE e <= ts.last
    <2> DEFINE v == [ts EXCEPT !.value[x] = e]
    <2>1. us = [v EXCEPT !.overflow = v.overflow \cup {x}] /\ v.value[x] = e
      BY <1>1 DEF Insert, Well, TimerFields
    <2>2. Well(v) /\ NextTurn(v) /\ v.last = ts.last
      BY Revalued
    <2>3. v.value[x] < ts.last
      BY <1>1, <2>1, WellParts, TimeIsInt
    <2> HIDE DEF v
    <2>4. Alike(v, us, {"overflow"}) /\ us.overflow = v.overflow \cup {x}
      BY <2>1, <2>2 DEF Alike, Well, TimerFields
    <2>5. us.current = v.current /\ us.last = v.last /\ us.queue = v.queue /\ us.period = v.period
          /\ us.value = v.value /\ us.lock = v.lock /\ DOMAIN us = TimerFields
      BY <2>4 DEF Alike, TimerFields
    <2>6. Well(us)
      BY <2>2, <2>4, <2>5 DEF Well
    <2>7. NextTurn(us)
      BY <2>2, <2>3, <2>4, <2>5 DEF NextTurn
    <2> QED
      BY <2>2, <2>5, <2>6, <2>7
  <1>2. CASE ~ (e <= ts.last)
    <2> DEFINE v == [ts EXCEPT !.value[x] = e]
    <2>1. us = [v EXCEPT !.current = v.current \cup {x}]
      BY <1>2 DEF Insert, Well, TimerFields
    <2>2. Well(v) /\ NextTurn(v) /\ v.last = ts.last
      BY Revalued
    <2> HIDE DEF v
    <2>3. Well(us) /\ us.last = v.last /\ us.overflow = v.overflow /\ us.value = v.value
      BY <2>1, <2>2, CurrentGrown
    <2> QED
      BY <2>2, <2>3 DEF NextTurn
  <1> QED
    BY <1>1, <1>2

\* A timer that is not to be called now is not due now.
LEMMA NotNow ==
    ASSUME NEW at \in Time, NEW period \in Time, period # 0, NEW now \in Time,
           ~ (Wrap(now - at) >= period) \/ ~ (Wrap(at + period) <= now)
    PROVE  Wrap(at + period) # now
  <1>1. /\ at \in 0 .. portMAX_DELAY /\ period \in 1 .. portMAX_DELAY /\ now \in 0 .. portMAX_DELAY
        /\ Ticks = portMAX_DELAY + 1 /\ portMAX_DELAY \in Nat
    BY Constants
  <1> SUFFICES ASSUME Wrap(at + period) = now PROVE FALSE
    OBVIOUS
  <1>2. Wrap(now - at) < period
    <2>1. now <= now
      BY <1>1
    <2>2. ~ (Wrap(now - at) >= period)
      BY <2>1
    <2>3. Wrap(now - at) \in 0 .. portMAX_DELAY
      BY <1>1, Wrapped, Constants
    <2> QED
      BY <1>1, <2>2, <2>3
  <1>3. CASE at + period <= portMAX_DELAY
    <2>1. now = at + period
      BY <1>1, <1>3, Wrapped, Constants
    <2>2. Wrap(now - at) = period
      BY <1>1, <2>1, Wrapped, Constants
    <2> QED
      BY <1>1, <1>2, <2>2
  <1>4. CASE ~ (at + period <= portMAX_DELAY)
    <2>1. now = at + period - Ticks
      BY <1>1, <1>4, Wrapped
    <2>2. now - at \in -portMAX_DELAY .. -1
      BY <1>1, <2>1
    <2>3. Wrap(now - at) = period
      BY <1>1, <2>1, <2>2, Wrapped
    <2> QED
      BY <1>1, <1>2, <2>3
  <1> QED
    BY <1>3, <1>4

-----------------------------------------------------------------------------
(***************************************************************************)
(* What tasks and interrupts ask of the daemon.                            *)
(***************************************************************************)
TimersKept == Scheduled /\ TimersTyped' /\ TimerLists'

LEMMA TimersApart ==
    ASSUME KInv, Scheduled, timers'.overflow = timers.overflow, timers'.value = timers.value,
           timers'.last = timers.last
    PROVE  TimerLists'
  <1>1. CASE call'[Daemon] = call[Daemon]
    BY <1>1 DEF KInv, TimerLists
  <1>2. CASE Quiet(call[Daemon]) /\ Quiet(call'[Daemon])
    BY <1>2 DEF KInv, TimerLists, Quiet
  <1> QED
    BY <1>1, <1>2 DEF Scheduled

LEMMA ClientKeeps ==
    ASSUME KInv, Scheduled, Well(timers'), timers'.overflow = timers.overflow, timers'.value = timers.value,
           timers'.last = timers.last
    PROVE  TimersKept
  BY TimersApart, WellThen DEF TimersKept

LEMMA TimersSame ==
    ASSUME KInv, Scheduled, timers' = timers
    PROVE  TimersKept
  <1>1. TimersTyped'
    BY DEF KInv, TimersTyped
  <1> QED
    BY <1>1, TimersApart DEF TimersKept

LEMMA ElapsedIsInt ==
    ASSUME NEW s, Core(s)
    PROVE  Elapsed(s) \in Int
  <1>1. s.overflows \in Int /\ s.tick \in Int /\ Ticks \in Int /\ configINITIAL_TICK_COUNT \in Int
    BY CoreParts, TimeIsInt, Constants, TasksAssumption
  <1> QED
    BY <1>1 DEF Elapsed

LEMMA MessageTyped ==
    ASSUME Core(sched), NEW c, CommandOf(c)
    PROVE  Message(c) \in DaemonTaskMessage
  <1> DEFINE m == [id |-> c.id, timer |-> c.timer, at |-> 0, value |-> c.value]
             n == Elapsed(sched)
  <1>1. n \in Int /\ sched.tick \in 0 .. portMAX_DELAY
    BY ElapsedIsInt, CoreParts DEF Time
  <1>2. Message(c) = [id |-> c.id, timer |-> c.timer, at |-> n,
                      value |-> IF c.id = "START" THEN sched.tick ELSE c.value]
    BY DEF Message
  <1> HIDE DEF n
  <1>3. \/ c.id \in {"START", "START_DONT_TRACE", "STOP", "DELETE"} /\ c.timer \in Timer /\ c.value \in 0 .. portMAX_DELAY
        \/ c.id = "CHANGE_PERIOD" /\ c.timer \in Timer /\ c.value \in 1 .. portMAX_DELAY
        \/ c.id \in {"SET_BITS", "CLEAR_BITS"} /\ c.timer \in Timer /\ c.value \in SUBSET Bit
    BY DEF CommandOf, Pended
  <1> QED
    BY <1>1, <1>2, <1>3 DEF DaemonTaskMessage

LEMMA TimerCommandStep ==
    ASSUME KInv, program' = program, NEW t \in Task, NEW c \in program.calls[t], TimerCommand(t, c)
    PROVE  TimersKept
  <1> DEFINE w == [pc |-> "timerSend", message |-> Message(c)]
             e == [timers.exists EXCEPT ![c.timer] = "ending"]
             us == [timers EXCEPT !.exists = e]
  <1>1. /\ Calls(t, c, "timer") /\ sched' = sched /\ lastWake' = lastWake /\ call' = [call EXCEPT ![t] = w]
        /\ timers' = timers \/ timers' = us
    BY TimersAreWell, WellParts DEF TimerCommand, Goto, KInv, TimerFields
  <1>2. /\ t = sched.current /\ t # Idle /\ t # Daemon /\ Core(sched) /\ CallOf(c) /\ c.op = "timer"
        /\ sched.notify[t] # "WAITING" /\ sched.item[t] # 0 /\ Awake(sched, t)
    BY <1>1, CallerRuns
  <1>3. Message(c) \in DaemonTaskMessage
    BY <1>2, MessageTyped DEF CallOf
  <1>4. Plain(t, w) /\ w.pc = "timerSend"
    BY <1>2, <1>3 DEF Plain, TakePCs, SendPCs, ReceivePCs, DaemonPCs, OtherPCs
  <1> HIDE DEF w, e
  <1>5. Fits(t, w, sched)
    BY <1>2, <1>4, AnywhereFits
  <1>6. Scheduled
    BY <1>1, <1>2, <1>5, Stays
  <1>7. Well(timers)
    BY TimersAreWell DEF KInv
  <1>8. /\ Well(us) /\ us.overflow = timers.overflow /\ us.last = timers.last /\ us.value = timers.value
    <2>1. Alike(timers, us, Aside)
      BY <1>7, WellParts, AsideSet DEF Aside
    <2> HIDE DEF us
    <2> QED
      BY <1>7, <2>1, WellAside
  <1> HIDE DEF us
  <1> QED
    BY <1>1, <1>6, <1>7, <1>8, ClientKeeps

LEMMA TimerSendsStep ==
    ASSUME KInv, program' = program, NEW t \in Task, TimerSends(t)
    PROVE  TimersKept
  <1> DEFINE m == call[t].message
             us == [timers EXCEPT !.queue = Append(@, m)]
  <1>1. /\ t = sched.current /\ call[t].pc = "timerSend" /\ lastWake' = lastWake /\ call' = [call EXCEPT ![t] = Run]
        /\ \/ sched' = sched
           \/ /\ sched.events[xTimerQueue] # << >>
              /\ sched' \in SwitchIf(HeadPreempts(sched, xTimerQueue), RemoveFromEventList(sched, xTimerQueue))
        /\ timers' = timers \/ timers' = us
    BY DEF TimerSends, At, Goto
  <1>2. /\ Core(sched) /\ Settled(sched) /\ Plain(t, call[t]) /\ sched.notify[t] # "WAITING"
        /\ sched.item[t] # 0 /\ Awake(sched, t)
    <2>1. /\ Core(sched) /\ Settled(sched) /\ Shape(t, call[t]) /\ sched.notify[t] # "WAITING"
          /\ ~ WaitsForBits(call[t]) => sched.item[t] # 0
          /\ Awake(sched, t) \/ Gives(t, call[t])
      BY <1>1, RunsNow
    <2>2. ~ WaitsForBits(call[t]) /\ ~ Gives(t, call[t])
      BY <1>1 DEF WaitsForBits, Gives
    <2>3. Plain(t, call[t])
      BY <1>1, <2>1 DEF Shape, Resuming, Yielding, Notifying, Switching
    <2> QED
      BY <2>1, <2>2, <2>3
  <1>3. t # Daemon /\ m \in DaemonTaskMessage
    BY <1>1, <1>2 DEF Plain, DaemonPCs
  <1> HIDE DEF m
  <1>4. PICK v, r : Core(v) /\ Benign(sched, v) /\ sched' \in SwitchIf(r, v)
    BY <1>1, <1>2, Constants, ListTold
  <1>5. Core(sched') /\ Moves(sched, sched')
    BY <1>2, <1>4, Movement
  <1>6. /\ Acts(sched, sched') /\ sched'.notify[t] # "WAITING" /\ sched'.item[t] # 0
        /\ t = sched'.current => Awake(sched', t)
    BY <1>1, <1>2, <1>5, Moved
  <1>7. Fits(t, Run, sched')
    BY <1>3, <1>6, RunAgain
  <1>8. Scheduled
    BY <1>1, <1>3, <1>6, <1>7, Proceeds
  <1>9. Well(timers)
    BY TimersAreWell DEF KInv
  <1>10. Well(us) /\ us.overflow = timers.overflow /\ us.last = timers.last /\ us.value = timers.value
    <2>1. Alike(timers, us, {"queue", "lock"}) /\ us.queue = Append(timers.queue, m) /\ us.lock \in Int
      BY <1>9 DEF Alike, Well, TimerFields
    <2> HIDE DEF us
    <2> QED
      BY <1>3, <1>9, <2>1, Enqueued
  <1> HIDE DEF us
  <1> QED
    BY <1>1, <1>8, <1>9, <1>10, ClientKeeps

LEMMA TimerFromISRStep ==
    ASSUME KInv, program' = program, NEW c \in program.isr, TimerFromISR(c)
    PROVE  TimersKept
  <1> DEFINE m == Message(c)
             k == IF timers.lock = queueUNLOCKED THEN timers.lock ELSE timers.lock + 1
             us == [timers EXCEPT !.queue = Append(@, m), !.lock = k]
  <1>1. /\ c.op = "timer" /\ call' = call /\ lastWake' = lastWake
        /\ \/ sched' = sched
           \/ /\ sched.events[xTimerQueue] # << >>
              /\ sched' \in SwitchIf(HeadPreempts(sched, xTimerQueue), RemoveFromEventList(sched, xTimerQueue))
    BY DEF TimerFromISR
  <1>2. timers' = us
    BY TimersAreWell DEF TimerFromISR, KInv, Well, TimerFields
  <1>3. Core(sched) /\ Settled(sched) /\ InterruptOf(program, c)
    BY KernelAssumption DEF KInv
  <1>4. m \in DaemonTaskMessage
    BY <1>1, <1>3, MessageTyped DEF InterruptOf
  <1>5. PICK v, r : Core(v) /\ Benign(sched, v) /\ sched' \in SwitchIf(r, v)
    BY <1>1, <1>3, Constants, ListTold
  <1>6. Scheduled
    BY <1>1, <1>5, Switches
  <1>7. Well(timers)
    BY TimersAreWell DEF KInv
  <1> HIDE DEF m
  <1>8. k \in Int
    BY <1>7 DEF Well
  <1> HIDE DEF k
  <1>9. Well(us) /\ us.overflow = timers.overflow /\ us.last = timers.last /\ us.value = timers.value
    <2>1. Alike(timers, us, {"queue", "lock"}) /\ us.queue = Append(timers.queue, m) /\ us.lock \in Int
      BY <1>7, <1>8 DEF Alike, Well, TimerFields
    <2> HIDE DEF us
    <2> QED
      BY <1>4, <1>7, <2>1, Enqueued
  <1> HIDE DEF us
  <1> QED
    BY <1>2, <1>6, <1>9, ClientKeeps

LEMMA TimerCreateStep ==
    ASSUME KInv, program' = program, NEW t \in Task, NEW c \in program.calls[t], TimerCreate(t, c)
    PROVE  TimersKept
  <1> DEFINE x == c.timer
             us == [timers EXCEPT !.exists[x] = "yes", !.period[x] = c.period, !.reload[x] = c.reload,
                                  !.active[x] = FALSE]
  <1>1. /\ Calls(t, c, "timerCreate") /\ sched' = sched /\ call' = call /\ lastWake' = lastWake /\ timers' = us
    BY DEF TimerCreate
  <1>2. CallOf(c) /\ c.op = "timerCreate"
    BY <1>1, CallerRuns
  <1>3. c.period \in Time \ {0}
    BY <1>2, TimeIsInt DEF CallOf, Time
  <1>4. Scheduled
    BY <1>1, NothingChanges
  <1>5. Well(timers)
    BY TimersAreWell DEF KInv
  <1> HIDE DEF x
  <1>6. /\ DOMAIN us = TimerFields /\ us.queue = timers.queue /\ us.lock = timers.lock
        /\ us.current = timers.current /\ us.overflow = timers.overflow /\ us.last = timers.last
        /\ us.value = timers.value /\ us.period = [timers.period EXCEPT ![x] = c.period]
    BY <1>5 DEF Well, TimerFields
  <1> HIDE DEF us
  <1>7. us.period \in [Timer -> Time \ {0}]
    BY <1>3, <1>5, <1>6 DEF Well
  <1>8. Well(us)
    BY <1>5, <1>6, <1>7 DEF Well
  <1> QED
    BY <1>1, <1>4, <1>6, <1>8, ClientKeeps

LEMMA TimerSetReloadModeStep ==
    ASSUME KInv, program' = program, NEW t \in Task, NEW c \in program.calls[t], TimerSetReloadMode(t, c)
    PROVE  TimersKept
  <1> DEFINE e == [timers.reload EXCEPT ![c.timer] = c.reload]
             us == [timers EXCEPT !.reload = e]
  <1>1. Well(timers)
    BY TimersAreWell DEF KInv
  <1>2. sched' = sched /\ call' = call /\ lastWake' = lastWake /\ timers' = us
    BY <1>1, WellParts DEF TimerSetReloadMode, TimerFields
  <1>3. Scheduled
    BY <1>2, NothingChanges
  <1> HIDE DEF e
  <1>4. Well(us) /\ us.overflow = timers.overflow /\ us.last = timers.last /\ us.value = timers.value
    <2>1. Alike(timers, us, Aside)
      BY <1>1, WellParts, AsideSet DEF Aside
    <2> HIDE DEF us
    <2> QED
      BY <1>1, <2>1, WellAside
  <1> HIDE DEF us
  <1> QED
    BY <1>2, <1>3, <1>4, ClientKeeps

-----------------------------------------------------------------------------
(***************************************************************************)
(* The daemon.                                                             *)
(***************************************************************************)
SchedulerKept ==
    Core(sched') /\ Settled(sched') /\ DOMAIN call' = Task /\ CallsFit' /\ lastWake' \in [Task -> Time]

DaemonKept == SchedulerKept /\ TimersTyped' /\ TimerLists'

\* TimerLists of what the daemon is doing.
ListsWith(w, ts) ==
    /\ w.pc # "timerSwitch" => NextTurn(ts)
    /\ w.pc = "timerExpired" => w.now = ts.last
    /\ w.pc = "timerObeys" => w.now = ts.last /\ w.message.timer \notin ts.overflow
    /\ w.pc = "timerSwitch" /\ w.after.pc = "timerObeys" => w.after.now = ts.last

LEMMA DaemonProceeds ==
    ASSUME KInv, program' = program, lastWake' = lastWake, Daemon = sched.current,
           NEW w, call' = [call EXCEPT ![Daemon] = w], Acts(sched, sched'), Fits(Daemon, w, sched'),
           Well(timers'), ListsWith(w, timers')
    PROVE  DaemonKept
  <1>1. DOMAIN call' = Task /\ call'[Daemon] = w /\ \A x \in Task \ {Daemon} : call'[x] = call[x]
    BY Constants DEF KInv
  <1>2. \A x \in Task : Fits(x, call'[x], sched')
    <2> TAKE x \in Task
    <2>1. CASE x # Daemon
      <3>1. Fits(x, call[x], sched) /\ call'[x] = call[x]
        BY <1>1, <2>1 DEF KInv, CallsFit
      <3> QED
        BY <2>1, <3>1, BystanderFits
    <2>2. CASE x = Daemon
      BY <1>1, <2>2
    <2> QED
      BY <2>1, <2>2
  <1>3. CallsFit'
    BY <1>2, CallsPrimed
  <1>4. SchedulerKept
    BY <1>1, <1>3 DEF SchedulerKept, KInv, Acts
  <1>5. TimerLists'
    BY <1>1 DEF ListsWith, TimerLists, NextTurn
  <1> QED
    BY <1>4, <1>5, WellThen DEF DaemonKept

LEMMA DaemonProceedsAlone ==
    ASSUME KInv, program' = program, lastWake' = lastWake, Daemon = sched.current, sched' = sched,
           NEW w, call' = [call EXCEPT ![Daemon] = w], Fits(Daemon, w, sched),
           Well(timers'), ListsWith(w, timers')
    PROVE  DaemonKept
  <1>1. Acts(sched, sched')
    BY BenignOnce, BenignActs DEF KInv
  <1>2. Fits(Daemon, w, sched')
    OBVIOUS
  <1> QED
    BY <1>1, <1>2, DaemonProceeds

LEMMA DaemonRuns ==
    ASSUME KInv, Daemon = sched.current, call[Daemon].pc \in DaemonPCs \cup {"run"}
    PROVE  /\ Core(sched) /\ Settled(sched) /\ sched.notify[Daemon] # "WAITING" /\ sched.item[Daemon] # 0
           /\ sched.nesting \in Nat
           /\ call[Daemon].pc \notin {"timerWait", "timerUnlock"} => sched.nesting = 0
           /\ call[Daemon].pc \in {"timerWait", "timerUnlock"} => sched.nesting = 1
           /\ call[Daemon].pc # "timerUnlock" => Awake(sched, Daemon)
           /\ Plain(Daemon, call[Daemon])
           /\ Well(timers) /\ ListsWith(call[Daemon], timers)
  <1> DEFINE c == call[Daemon]
  <1>1. /\ Core(sched) /\ Settled(sched) /\ Shape(Daemon, c)
        /\ c.pc # "notified" => sched.notify[Daemon] # "WAITING"
        /\ ~ WaitsForBits(c) => sched.item[Daemon] # 0
        /\ Flat(Daemon, c) => sched.nesting = 0
        /\ Once(Daemon, c) => sched.nesting = 1
        /\ Awake(sched, Daemon) \/ Gives(Daemon, c)
        /\ sched.nesting \in Nat
    BY Constants, RunsNow
  <1>2. Plain(Daemon, c)
    BY <1>1 DEF Shape, Resuming, Yielding, Notifying, Switching, DaemonPCs
  <1>3. c.pc # "notified" /\ ~ WaitsForBits(c) /\ (c.pc # "timerUnlock" => ~ Gives(Daemon, c))
    BY DEF WaitsForBits, Gives, DaemonPCs
  <1>4. c.pc \notin {"timerWait", "timerUnlock"} => Flat(Daemon, c)
    BY DEF Flat, DaemonPCs
  <1>5. c.pc \in {"timerWait", "timerUnlock"} => Once(Daemon, c)
    BY DEF Once, OncePCs
  <1>6. Well(timers)
    BY TimersAreWell DEF KInv
  <1>7. ListsWith(c, timers)
    BY DEF KInv, TimerLists, ListsWith, NextTurn
  <1> HIDE DEF c
  <1> QED
    BY <1>1, <1>2, <1>3, <1>4, <1>5, <1>6, <1>7 DEF c

LEMMA DaemonIsPlain ==
    ASSUME NEW w, "pc" \in DOMAIN w, w.pc \in DaemonPCs, DaemonCall(w)
    PROVE  Plain(Daemon, w)
  BY Constants DEF Plain, TakePCs, SendPCs, ReceivePCs, DaemonPCs, OtherPCs

ToCommands == [pc |-> "timerCommands"]

LEMMA CommandsPlain ==
    Plain(Daemon, ToCommands) /\ ToCommands.pc = "timerCommands" /\ ~ WaitsForBits(ToCommands)
  <1>1. "pc" \in DOMAIN ToCommands /\ ToCommands.pc \in DaemonPCs /\ DaemonCall(ToCommands)
        /\ ToCommands.pc = "timerCommands"
    BY DEF ToCommands, DaemonPCs, DaemonCall
  <1> QED
    BY <1>1, DaemonIsPlain DEF WaitsForBits

\* The next commands, when nothing changes but the timers.
LEMMA ToTheCommands ==
    ASSUME KInv, program' = program, lastWake' = lastWake, sched' = sched, Daemon = sched.current,
           sched.notify[Daemon] # "WAITING", sched.item[Daemon] # 0, sched.nesting = 0, Awake(sched, Daemon),
           call' = [call EXCEPT ![Daemon] = ToCommands], Well(timers'), NextTurn(timers')
    PROVE  DaemonKept
  <1>1. Fits(Daemon, ToCommands, sched)
    BY CommandsPlain, FlatFits
  <1>2. ListsWith(ToCommands, timers')
    BY DEF ListsWith, ToCommands
  <1> QED
    BY <1>1, <1>2, DaemonProceedsAlone

LEMMA FirstIsInTheList ==
    ASSUME NEW ts, Well(ts)
    PROVE  /\ \A x \in Heads(ts) : x \in Timer /\ x \in ts.current
           /\ ts.current # {} => (CHOOSE x \in Heads(ts) : TRUE) \in Heads(ts)
  <1>1. \A x \in Heads(ts) : x \in Timer /\ x \in ts.current
    BY WellParts DEF Heads
  <1>2. ASSUME ts.current # {} PROVE Heads(ts) # {}
    <2> DEFINE T == {ts.value[x] : x \in ts.current}
    <2>1. T \in SUBSET Nat
      BY WellParts, Constants
    <2>2. T # {}
      BY <1>2
    <2>3. Min(T) \in T /\ \A n \in T : Min(T) <= n
      BY <2>1, <2>2, LeastExists
    <2>4. PICK x \in ts.current : ts.value[x] = Min(T)
      BY <2>3
    <2>5. \A y \in ts.current : ts.value[y] \in T
      OBVIOUS
    <2> HIDE DEF T
    <2>6. x \in Heads(ts)
      BY <2>3, <2>4, <2>5 DEF Heads
    <2> QED
      BY <2>6
  <1> QED
    BY <1>1, <1>2

LEMMA LookedAt ==
    ASSUME NEW ts, Well(ts), NEW now \in Time, NEW us, us = [ts EXCEPT !.last = now]
    PROVE  /\ Well(us) /\ us.last = now
           /\ NextTurn(ts) /\ ~ (now < ts.last) => NextTurn(us)
  <1>1. Alike(ts, us, {"last"}) /\ us.last = now
    BY DEF Alike, Well, TimerFields
  <1>2. us.overflow = ts.overflow /\ us.queue = ts.queue /\ us.period = ts.period
        /\ us.current = ts.current /\ us.value = ts.value /\ us.lock = ts.lock /\ DOMAIN us = TimerFields
    BY <1>1 DEF Alike, TimerFields
  <1>3. Well(us)
    BY <1>1, <1>2 DEF Well
  <1>4. ASSUME NextTurn(ts), ~ (now < ts.last) PROVE NextTurn(us)
    <2>1. ts.last \in Time /\ \A x \in ts.overflow : ts.value[x] \in Time
      BY DEF Well
    <2>2. ts.last \in Int /\ now \in Int /\ \A x \in ts.overflow : ts.value[x] \in Int
      BY <2>1, TimeIsInt
    <2> QED
      BY <1>1, <1>2, <1>4, <2>2 DEF NextTurn
  <1> QED
    BY <1>1, <1>3, <1>4

LEMMA LockSet ==
    ASSUME NEW ts, Well(ts), NEW n \in Int, NEW us, us = [ts EXCEPT !.lock = n]
    PROVE  Well(us) /\ us.last = ts.last /\ (NextTurn(ts) => NextTurn(us))
  <1>1. Alike(ts, us, {"lock"}) /\ us.lock = n
    BY DEF Alike, Well, TimerFields
  <1>2. us.overflow = ts.overflow /\ us.queue = ts.queue /\ us.period = ts.period /\ us.last = ts.last
        /\ us.current = ts.current /\ us.value = ts.value /\ DOMAIN us = TimerFields
    BY <1>1 DEF Alike, TimerFields
  <1> QED
    BY <1>1, <1>2 DEF Well, NextTurn

\* How long the daemon waits for the next timer.
LEMMA WaitsSome ==
    ASSUME NEW ts, Well(ts), NextTurn(ts), NEW now \in Time, ~ (now < ts.last), NEW next,
           \/ ts.current = {} /\ next = 0 /\ ts.overflow # {}
           \/ next \in Time /\ ~ (next <= now)
    PROVE  Wrap(next - now) \in Time \ {0}
  <1>1. /\ now \in 0 .. portMAX_DELAY /\ Ticks = portMAX_DELAY + 1 /\ portMAX_DELAY \in Nat
        /\ \A n \in Time : n \in Int
    BY Constants
  <1>2. CASE ts.overflow # {} /\ next = 0
    <2>1. PICK x \in ts.overflow : TRUE
      BY <1>2
    <2>2. ts.value[x] \in Time /\ ts.last \in Time /\ ts.value[x] < ts.last
      BY <2>1 DEF NextTurn, Well
    <2>3. ts.value[x] \in Int /\ 0 <= ts.value[x] /\ ts.last \in Int
      BY <2>2, TimeIsInt
    <2>4. now > 0
      BY <1>1, <2>2, <2>3
    <2>5. next - now \in -portMAX_DELAY .. -1
      BY <1>1, <1>2, <2>4
    <2>6. Wrap(next - now) = next - now + Ticks
      BY <2>5, Wrapped
    <2> QED
      BY <1>1, <2>5, <2>6, Constants
  <1>3. CASE next \in Time /\ ~ (next <= now)
    <2>1. next - now \in 1 .. portMAX_DELAY
      BY <1>1, <1>3, Constants
    <2>2. Wrap(next - now) = next - now
      BY <2>1, Wrapped, Constants
    <2> QED
      BY <2>1, <2>2, Constants
  <1> QED
    BY <1>2, <1>3

\* prvProcessTimerOrBlockTask
LEMMA DaemonSwitchesNext ==
    ASSUME KInv, program' = program, DaemonLooks, sched.tick < timers.last
    PROVE  DaemonKept
  <1> DEFINE resume == [pc |-> "resume", yields |-> FALSE, then |-> ToCommands]
             w == [pc |-> "timerSwitch", after |-> resume]
             now == sched.tick
  <1>1. /\ Daemon = sched.current /\ call[Daemon].pc = "run" /\ lastWake' = lastWake
        /\ call' = [call EXCEPT ![Daemon] = w] /\ sched' = SuspendAll(sched)
        /\ timers' = [timers EXCEPT !.last = now]
    BY DEF DaemonLooks, At, Goto, ToCommands
  <1>2. /\ Core(sched) /\ Settled(sched) /\ sched.notify[Daemon] # "WAITING" /\ sched.item[Daemon] # 0
        /\ sched.nesting = 0 /\ Awake(sched, Daemon) /\ Well(timers)
    BY <1>1, DaemonRuns
  <1>3. now \in Time
    BY <1>2, CoreParts
  <1> HIDE DEF now
  <1>4. Well(timers')
    BY <1>1, <1>2, <1>3, LookedAt
  <1>5. Core(sched') /\ Calm(sched, sched') /\ sched'.nesting = 1 /\ Settled(sched')
    BY <1>1, <1>2, AllSuspended
  <1>6. sched'.notify[Daemon] # "WAITING" /\ sched'.item[Daemon] # 0 /\ Daemon = sched'.current /\ Awake(sched', Daemon)
    BY <1>1, <1>2, <1>5, Constants DEF Calm, NobodyWaits, BeginsNoWait
  <1>7. Acts(sched, sched')
    BY <1>5 DEF Acts, Calm, NobodyWaits
  <1>8. Resuming(Daemon, resume) /\ ~ resume.yields /\ resume.then.pc = "timerCommands" /\ resume.pc = "resume"
    <2> HIDE DEF ToCommands
    <2> QED
      BY CommandsPlain, Constants DEF Resuming
  <1> HIDE DEF resume
  <1>9. Shape(Daemon, w) /\ w.pc = "timerSwitch" /\ w.after.pc = "resume"
    BY <1>8 DEF Shape, Switching
  <1> HIDE DEF w
  <1>10. ~ Flat(Daemon, w) /\ ~ WaitsForBits(w)
    BY <1>9 DEF Flat, WaitsForBits
  <1>11. Fits(Daemon, w, sched')
    BY <1>5, <1>6, <1>9, <1>10 DEF Fits
  <1>12. ListsWith(w, timers')
    BY <1>9 DEF ListsWith
  <1> QED
    BY <1>1, <1>4, <1>7, <1>11, <1>12, DaemonProceeds

LEMMA DaemonFindsExpired ==
    ASSUME KInv, program' = program, lastWake' = lastWake, Daemon = sched.current, call[Daemon].pc = "run",
           ~ (sched.tick < timers.last), sched' \in ResumeAll(SuspendAll(sched)),
           timers' = [timers EXCEPT !.last = sched.tick],
           call' = [call EXCEPT ![Daemon] = [pc |-> "timerExpired", now |-> sched.tick]]
    PROVE  DaemonKept
  <1> DEFINE now == sched.tick
             w == [pc |-> "timerExpired", now |-> now]
             s == SuspendAll(sched)
  <1>1. /\ Core(sched) /\ Settled(sched) /\ sched.notify[Daemon] # "WAITING" /\ sched.item[Daemon] # 0
        /\ sched.nesting = 0 /\ Awake(sched, Daemon) /\ Well(timers) /\ ListsWith(call[Daemon], timers)
    BY DaemonRuns
  <1>2. now \in Time /\ NextTurn(timers)
    BY <1>1, CoreParts DEF ListsWith
  <1>3. Core(s) /\ Calm(sched, s) /\ s.nesting = 1 /\ sched' \in ResumeAll(s)
    BY <1>1, AllSuspended
  <1> HIDE DEF s
  <1>4. Core(sched') /\ Goes(s, sched') /\ sched'.nesting = 0
    BY <1>3, ResumedAll
  <1>5. NobodyWaits(sched, sched')
    BY <1>3, <1>4 DEF Calm, Goes, NobodyWaits, BeginsNoWait
  <1>6. s.current = Daemon /\ Awake(s, Daemon)
    BY <1>1, <1>3 DEF Calm
  <1>7. Acts(sched, sched')
    BY <1>4, <1>5, <1>6 DEF Acts, Goes, NobodyWaits
  <1>8. /\ sched'.notify[Daemon] # "WAITING" /\ sched'.item[Daemon] # 0
        /\ Daemon = sched'.current => Awake(sched', Daemon)
    <2>1. BeginsNoWait(sched, sched', Daemon)
      BY <1>5, Constants DEF NobodyWaits
    <2>2. Daemon = sched'.current => Awake(sched', Daemon)
      BY <1>4, <1>6 DEF Goes
    <2> QED
      BY <1>1, <2>1, <2>2 DEF BeginsNoWait
  <1>9. timers' = [timers EXCEPT !.last = now] /\ call' = [call EXCEPT ![Daemon] = w]
    OBVIOUS
  <1>10. ~ (now < timers.last)
    OBVIOUS
  <1>11. w.now = now /\ w.pc = "timerExpired" /\ "pc" \in DOMAIN w
    OBVIOUS
  <1> HIDE DEF w
  <1>12. Well(timers') /\ timers'.last = now /\ NextTurn(timers')
    <2> DEFINE us == [timers EXCEPT !.last = now]
    <2>1. timers' = us
      BY <1>9
    <2> HIDE DEF now
    <2>2. Well(us) /\ us.last = now /\ NextTurn(us)
      BY <1>1, <1>2, <1>10, LookedAt
    <2> HIDE DEF us
    <2> QED
      BY <2>1, <2>2
  <1> HIDE DEF now
  <1>13. Plain(Daemon, w)
    BY <1>11, DaemonIsPlain DEF DaemonPCs, DaemonCall
  <1>14. Fits(Daemon, w, sched')
    BY <1>4, <1>8, <1>11, <1>13, FlatFits
  <1>15. ListsWith(w, timers')
    BY <1>11, <1>12 DEF ListsWith
  <1> QED
    BY <1>7, <1>9, <1>12, <1>14, <1>15, DaemonProceeds

LEMMA DaemonFindsNone ==
    ASSUME KInv, program' = program, lastWake' = lastWake, Daemon = sched.current, call[Daemon].pc = "run",
           ~ (sched.tick < timers.last), NEW next,
           \/ timers.current = {} /\ next = 0
           \/ timers.current # {} /\ next \in Time /\ ~ (next <= sched.tick),
           sched' = SuspendAll(sched),
           timers' = [timers EXCEPT !.last = sched.tick, !.lock = queueLOCKED_UNMODIFIED],
           call' = [call EXCEPT ![Daemon] =
                      [pc |-> "timerWait", ticks |-> Wrap(next - sched.tick),
                       indefinitely |-> timers.current = {} /\ timers.overflow = {}]]
    PROVE  DaemonKept
  <1> DEFINE now == sched.tick
             ticks == Wrap(next - sched.tick)
             forever == timers.current = {} /\ timers.overflow = {}
             w == [pc |-> "timerWait", ticks |-> ticks, indefinitely |-> forever]
             v == [timers EXCEPT !.last = now]
  <1>1. /\ Core(sched) /\ Settled(sched) /\ sched.notify[Daemon] # "WAITING" /\ sched.item[Daemon] # 0
        /\ sched.nesting = 0 /\ Awake(sched, Daemon) /\ Well(timers) /\ ListsWith(call[Daemon], timers)
    BY DaemonRuns
  <1>2. now \in Time /\ NextTurn(timers)
    BY <1>1, CoreParts DEF ListsWith
  <1>3. Core(sched') /\ Calm(sched, sched') /\ sched'.nesting = 1 /\ Settled(sched')
    BY <1>1, AllSuspended
  <1>4. sched'.notify[Daemon] # "WAITING" /\ sched'.item[Daemon] # 0 /\ Daemon = sched'.current /\ Awake(sched', Daemon)
    BY <1>1, <1>3, Constants DEF Calm, NobodyWaits, BeginsNoWait
  <1>5. Acts(sched, sched')
    BY <1>3 DEF Acts, Calm, NobodyWaits
  <1>6. call' = [call EXCEPT ![Daemon] = w]
    OBVIOUS
  <1>7. forever \/ ticks \in Time \ {0}
    BY <1>1, <1>2, WaitsSome
  <1>8. w.pc = "timerWait" /\ "pc" \in DOMAIN w /\ (w.indefinitely \/ w.ticks \in Time \ {0})
    BY <1>7
  <1>9. timers' = [v EXCEPT !.lock = queueLOCKED_UNMODIFIED]
    BY <1>1 DEF Well, TimerFields
  <1>10. Well(v) /\ NextTurn(v)
    BY <1>1, <1>2, LookedAt
  <1> HIDE DEF v, w, forever, ticks
  <1>11. Well(timers') /\ NextTurn(timers')
    <2>1. queueLOCKED_UNMODIFIED \in Int
      BY DEF queueLOCKED_UNMODIFIED
    <2> QED
      BY <1>9, <1>10, <2>1, LockSet
  <1>12. Plain(Daemon, w)
    BY <1>8, DaemonIsPlain DEF DaemonPCs, DaemonCall
  <1>13. Fits(Daemon, w, sched')
    BY <1>3, <1>4, <1>8, <1>12, OnceFits
  <1>14. ListsWith(w, timers')
    BY <1>8, <1>11 DEF ListsWith
  <1> QED
    BY <1>5, <1>6, <1>11, <1>13, <1>14, DaemonProceeds

LEMMA DaemonLooksStep ==
    ASSUME KInv, program' = program, DaemonLooks
    PROVE  DaemonKept
  <1> DEFINE x == CHOOSE y \in Heads(timers) : TRUE
             next == IF timers.current = {} THEN 0 ELSE timers.value[x]
             late == timers.current # {} /\ next <= sched.tick
  <1>1. CASE sched.tick < timers.last
    BY <1>1, DaemonSwitchesNext
  <1>2. CASE ~ (sched.tick < timers.last)
    <2>1. /\ Daemon = sched.current /\ call[Daemon].pc = "run" /\ lastWake' = lastWake
          /\ \/ /\ late
                /\ sched' \in ResumeAll(SuspendAll(sched))
                /\ timers' = [timers EXCEPT !.last = sched.tick]
                /\ call' = [call EXCEPT ![Daemon] = [pc |-> "timerExpired", now |-> sched.tick]]
             \/ /\ ~ late
                /\ sched' = SuspendAll(sched)
                /\ timers' = [timers EXCEPT !.last = sched.tick, !.lock = queueLOCKED_UNMODIFIED]
                /\ call' = [call EXCEPT ![Daemon] =
                              [pc |-> "timerWait", ticks |-> Wrap(next - sched.tick),
                               indefinitely |-> timers.current = {} /\ timers.overflow = {}]]
      BY <1>2 DEF DaemonLooks, At, Goto
    <2>2. Well(timers)
      BY TimersAreWell DEF KInv
    <2>3. timers.current = {} \/ next \in Time
      BY <2>2, FirstIsInTheList, WellParts
    <2>4. timers.current = {} => next = 0
      OBVIOUS
    <2>5. late <=> timers.current # {} /\ next <= sched.tick
      OBVIOUS
    <2> HIDE DEF next, late
    <2>6. CASE late
      BY <1>2, <2>1, <2>6, DaemonFindsExpired
    <2>7. CASE ~ late
      BY <1>2, <2>1, <2>3, <2>4, <2>5, <2>7, DaemonFindsNone
    <2> QED
      BY <2>6, <2>7
  <1> QED
    BY <1>1, <1>2

\* vQueueWaitForMessageRestricted
LEMMA DaemonWaitsStep ==
    ASSUME KInv, program' = program, DaemonWaits
    PROVE  DaemonKept
  <1> DEFINE w == [pc |-> "timerUnlock"]
             c == call[Daemon]
             u == PlaceOnEventListRestricted(sched, xTimerQueue, c.ticks, c.indefinitely)
  <1>1. /\ Daemon = sched.current /\ c.pc = "timerWait" /\ lastWake' = lastWake /\ timers' = timers
        /\ call' = [call EXCEPT ![Daemon] = w]
        /\ (sched' = sched \/ sched' = u)
    BY DEF DaemonWaits, At, Goto
  <1>2. /\ Core(sched) /\ Settled(sched) /\ sched.notify[Daemon] # "WAITING" /\ sched.item[Daemon] # 0
        /\ sched.nesting = 1 /\ Awake(sched, Daemon) /\ Well(timers) /\ ListsWith(c, timers) /\ Plain(Daemon, c)
    BY <1>1, DaemonRuns DEF DaemonPCs
  <1>3. c.indefinitely \/ c.ticks \in 1 .. portMAX_DELAY
    <2>1. c.indefinitely \/ c.ticks \in Time \ {0}
      BY <1>1, <1>2 DEF Plain, DaemonCall, DaemonPCs
    <2> QED
      BY <2>1, Constants
  <1>4. Acts(sched, sched') /\ sched'.notify = sched.notify /\ sched'.item = sched.item /\ sched'.nesting = 1
        /\ sched'.current = Daemon
    <2>1. CASE sched' = sched
      <3>1. Acts(sched, sched')
        BY <1>2, <2>1, BenignOnce, BenignActs
      <3> QED
        BY <1>1, <1>2, <2>1, <3>1
    <2>2. CASE sched' = u
      <3>1. xTimerQueue \in Semaphore => sched.item[sched.current] > 0
        <4>1. sched.item[Daemon] \in 0 .. configMAX_PRIORITIES
          BY <1>2, Constants DEF Core, Lists, Types
        <4> QED
          BY <1>1, <1>2, <4>1, Constants
      <3>2. /\ sched.current # Idle /\ Awake(sched, sched.current) /\ sched.notify[sched.current] # "WAITING"
            /\ xTimerQueue \in EventList
        BY <1>1, <1>2, Constants
      <3>3. \E n : FallsAsleep(sched, u, n) /\ u.notify = sched.notify /\ u.item = sched.item
        BY <1>2, <1>3, <3>1, <3>2, PlacedRestricted
      <3>4. PICK n : FallsAsleep(sched, u, n)
        BY <3>3
      <3>5. u.notify = sched.notify /\ u.item = sched.item
        BY <3>3
      <3> HIDE DEF u
      <3>6. Calm(sched, sched)
        BY BenignOnce DEF Benign
      <3>7. Acts(sched, u) /\ u.nesting = sched.nesting /\ u.current = sched.current
        BY <1>2, <3>4, <3>6, SleepActs
      <3> QED
        BY <1>1, <1>2, <2>2, <3>5, <3>7
    <2> QED
      BY <1>1, <2>1, <2>2
  <1>5. w.pc = "timerUnlock" /\ "pc" \in DOMAIN w
    OBVIOUS
  <1> HIDE DEF w, u, c
  <1>6. Plain(Daemon, w)
    BY <1>5, DaemonIsPlain DEF DaemonPCs, DaemonCall
  <1>7. Gives(Daemon, w) /\ ~ Flat(Daemon, w) /\ ~ WaitsForBits(w)
    BY <1>5 DEF Gives, Flat, WaitsForBits
  <1>8. Fits(Daemon, w, sched')
    BY <1>2, <1>4, <1>6, <1>7 DEF Fits, Shape
  <1>9. ListsWith(w, timers')
    BY <1>1, <1>2, <1>5 DEF ListsWith
  <1>10. Well(timers')
    BY <1>1, <1>2
  <1> QED
    BY <1>1, <1>4, <1>8, <1>9, <1>10, DaemonProceeds

\* prvUnlockQueue
LEMMA DaemonUnlocksStep ==
    ASSUME KInv, program' = program, DaemonUnlocks
    PROVE  DaemonKept
  <1> DEFINE w == ToResume(ToCommands)
             u == Unlocked(sched, xTimerQueue, timers.lock)
  <1>1. /\ Daemon = sched.current /\ call[Daemon].pc = "timerUnlock" /\ lastWake' = lastWake
        /\ timers' = [timers EXCEPT !.lock = queueUNLOCKED]
        /\ call' = [call EXCEPT ![Daemon] = w] /\ sched' = u
    BY DEF DaemonUnlocks, At, Goto, ToCommands
  <1>2. /\ Core(sched) /\ Settled(sched) /\ sched.notify[Daemon] # "WAITING" /\ sched.item[Daemon] # 0
        /\ sched.nesting = 1 /\ Well(timers) /\ ListsWith(call[Daemon], timers)
    BY <1>1, DaemonRuns DEF DaemonPCs
  <1>3. Core(u) /\ Benign(sched, u)
    <2>1. timers.lock \in Int
      BY <1>2 DEF Well
    <2> QED
      BY <1>2, <2>1, UnlockedList, Constants
  <1> HIDE DEF u
  <1>4. Acts(sched, sched') /\ sched'.nesting = 1 /\ sched'.current = Daemon
    BY <1>1, <1>2, <1>3, BenignActs DEF Benign, Calm
  <1>5. sched'.notify[Daemon] # "WAITING" /\ sched'.item[Daemon] # 0
    BY <1>1, <1>2, <1>3, Constants DEF Benign, Calm, NobodyWaits, BeginsNoWait
  <1>6. Fits(Daemon, w, sched')
    BY <1>4, <1>5, CommandsPlain, ToResumeFits, Constants
  <1>7. w.pc = "resume"
    BY DEF ToResume
  <1> HIDE DEF w
  <1>8. queueUNLOCKED \in Int
    BY DEF queueUNLOCKED
  <1>9. NextTurn(timers)
    BY <1>1, <1>2 DEF ListsWith
  <1>10. Well(timers') /\ NextTurn(timers')
    BY <1>1, <1>2, <1>8, <1>9, LockSet
  <1>11. ListsWith(w, timers')
    BY <1>7, <1>10 DEF ListsWith
  <1> QED
    BY <1>1, <1>4, <1>6, <1>10, <1>11, DaemonProceeds

\* A timer leaves its list and is called.
LEMMA CalledTimer ==
    ASSUME NEW ts, Well(ts), NEW x, NEW us, us = CallBack(Stopped(ts, x), x)
    PROVE  /\ Well(us) /\ (NextTurn(ts) => NextTurn(us)) /\ x \notin us.overflow
           /\ us.last = ts.last /\ us.value = ts.value /\ us.period = ts.period
  <1> DEFINE r == Stopped(ts, x)
  <1>1. /\ Well(r) /\ (NextTurn(ts) => NextTurn(r)) /\ x \notin r.overflow
        /\ r.last = ts.last /\ r.value = ts.value /\ r.period = ts.period
    BY StoppedTimer
  <1>2. us = CallBack(r, x)
    OBVIOUS
  <1> HIDE DEF r
  <1>3. Alike(r, us, Aside)
    BY <1>1, <1>2, CalledBack
  <1> QED
    BY <1>1, <1>3, WellAside

LEMMA ActiveSet ==
    ASSUME NEW ts, Well(ts), NEW x, NEW n, NEW us, us = [ts EXCEPT !.active[x] = n]
    PROVE  Well(us) /\ (NextTurn(ts) => NextTurn(us)) /\ us.last = ts.last
  <1> DEFINE e == [ts.active EXCEPT ![x] = n]
             v == [ts EXCEPT !.active = e]
  <1>1. us = v
    BY WellParts DEF TimerFields
  <1> HIDE DEF e
  <1>2. Alike(ts, v, Aside)
    BY WellParts, AsideSet DEF Aside
  <1> HIDE DEF v
  <1>3. Well(v) /\ (NextTurn(ts) => NextTurn(v)) /\ v.last = ts.last
    BY <1>2, WellAside
  <1> QED
    BY <1>1, <1>3

LEMMA NextIsTime ==
    ASSUME NEW a \in Time, NEW b \in Time
    PROVE  Wrap(a + b) \in Time
  <1>1. a + b \in Int
    BY TimeIsInt
  <1> QED
    BY <1>1, Wrapped

\* prvProcessExpiredTimer
LEMMA DaemonExpiresStep ==
    ASSUME KInv, program' = program, DaemonExpires
    PROVE  DaemonKept
  <1> DEFINE now == call[Daemon].now
  <1>1. /\ Daemon = sched.current /\ call[Daemon].pc = "timerExpired" /\ lastWake' = lastWake
        /\ sched' = sched /\ call' = [call EXCEPT ![Daemon] = ToCommands]
    BY DEF DaemonExpires, At, Goto, ToCommands
  <1>2. PICK x \in Heads(timers) :
          LET at == timers.value[x]
              next == Wrap(at + timers.period[x])
              ts == CallBack(Stopped(timers, x), x)
          IN  timers' = IF ~timers.reload[x] THEN [ts EXCEPT !.active[x] = FALSE]
                        ELSE IF ProcessNow(ts, x, next, now, at) THEN StartAgain([ts EXCEPT !.value[x] = next], x, at)
                        ELSE Insert(ts, x, next, now)
    BY DEF DaemonExpires
  <1> DEFINE at == timers.value[x]
             next == Wrap(at + timers.period[x])
             ts == CallBack(Stopped(timers, x), x)
             v == [ts EXCEPT !.value[x] = next]
  <1>3. \/ timers' = [ts EXCEPT !.active[x] = FALSE]
        \/ timers' = StartAgain(v, x, at)
        \/ ~ ProcessNow(ts, x, next, now, at) /\ timers' = Insert(ts, x, next, now)
    BY <1>2
  <1>4. /\ sched.notify[Daemon] # "WAITING" /\ sched.item[Daemon] # 0
        /\ sched.nesting = 0 /\ Awake(sched, Daemon) /\ Well(timers) /\ ListsWith(call[Daemon], timers)
    BY <1>1, DaemonRuns DEF DaemonPCs
  <1>5. NextTurn(timers) /\ now = timers.last /\ now \in Time
    BY <1>1, <1>4, WellParts DEF ListsWith
  <1>6. x \in Timer
    BY <1>4, FirstIsInTheList
  <1>7. at \in Time /\ timers.period[x] \in Time /\ timers.period[x] # 0
    BY <1>4, <1>6, WellParts
  <1>8. next \in Time
    BY <1>7, NextIsTime
  <1>9. /\ Well(ts) /\ NextTurn(ts) /\ x \notin ts.overflow /\ ts.last = now /\ ts.period = timers.period
    BY <1>4, <1>5, CalledTimer
  <1> HIDE DEF ts, now
  <1>10. ~ ProcessNow(ts, x, next, now, at) => next # now
    BY <1>5, <1>7, <1>9, NotNow DEF ProcessNow
  <1> HIDE DEF next, at
  <1>11. Well(v) /\ NextTurn(v)
    BY <1>6, <1>8, <1>9, Revalued
  <1> HIDE DEF v
  <1>12. Well(timers') /\ NextTurn(timers')
    <2>1. CASE timers' = [ts EXCEPT !.active[x] = FALSE]
      BY <1>9, <2>1, ActiveSet
    <2>2. CASE timers' = StartAgain(v, x, at)
      BY <1>6, <1>7, <1>11, <2>2, StartedAgain
    <2>3. CASE ~ ProcessNow(ts, x, next, now, at) /\ timers' = Insert(ts, x, next, now)
      BY <1>6, <1>8, <1>9, <1>10, <2>3, Inserted
    <2> QED
      BY <1>3, <2>1, <2>2, <2>3
  <1> QED
    BY <1>1, <1>4, <1>12, ToTheCommands

LEMMA SwitchesRuns ==
    ASSUME KInv, Daemon = sched.current, call[Daemon].pc = "timerSwitch"
    PROVE  /\ Core(sched) /\ Settled(sched) /\ sched.notify[Daemon] # "WAITING" /\ sched.item[Daemon] # 0
           /\ Awake(sched, Daemon) /\ Well(timers) /\ Switching(Daemon, call[Daemon])
           /\ call[Daemon].after.pc = "resume" => sched.nesting = 1
           /\ call[Daemon].after.pc = "timerObeys" => sched.nesting = 0 /\ call[Daemon].after.now = timers.last
  <1> DEFINE c == call[Daemon]
  <1>1. /\ Core(sched) /\ Settled(sched) /\ Shape(Daemon, c)
        /\ c.pc # "notified" => sched.notify[Daemon] # "WAITING"
        /\ ~ WaitsForBits(c) => sched.item[Daemon] # 0
        /\ Flat(Daemon, c) => sched.nesting = 0
        /\ Once(Daemon, c) => sched.nesting = 1
        /\ Awake(sched, Daemon) \/ Gives(Daemon, c)
    BY Constants, RunsNow
  <1>2. ~ WaitsForBits(c) /\ ~ Gives(Daemon, c)
    BY DEF WaitsForBits, Gives
  <1>3. c.after.pc = "resume" => Once(Daemon, c)
    BY DEF Once
  <1>4. c.after.pc = "timerObeys" => Flat(Daemon, c)
    BY DEF Flat
  <1>5. Switching(Daemon, c)
    BY <1>1 DEF Shape, Plain, Resuming, Yielding, Notifying, TakePCs, SendPCs, ReceivePCs, DaemonPCs, OtherPCs
  <1>6. c.after.pc = "timerObeys" => c.after.now = timers.last
    BY DEF KInv, TimerLists
  <1>7. Well(timers)
    BY TimersAreWell DEF KInv
  <1>8. c.pc = "timerSwitch"
    OBVIOUS
  <1> HIDE DEF c
  <1> QED
    BY <1>1, <1>2, <1>3, <1>4, <1>5, <1>6, <1>7, <1>8 DEF c

\* prvSwitchTimerLists
LEMMA ListsSwitched ==
    ASSUME KInv, program' = program, lastWake' = lastWake, sched' = sched,
           Daemon = sched.current, call[Daemon].pc = "timerSwitch",
           timers' = [timers EXCEPT !.current = timers.overflow, !.overflow = {}],
           call' = [call EXCEPT ![Daemon] = call[Daemon].after]
    PROVE  DaemonKept
  <1> DEFINE w == call[Daemon].after
             us == [timers EXCEPT !.current = timers.overflow, !.overflow = {}]
  <1>1. /\ Core(sched) /\ Settled(sched) /\ sched.notify[Daemon] # "WAITING" /\ sched.item[Daemon] # 0
        /\ Awake(sched, Daemon) /\ Well(timers) /\ Switching(Daemon, call[Daemon])
        /\ w.pc = "resume" => sched.nesting = 1
        /\ w.pc = "timerObeys" => sched.nesting = 0 /\ w.now = timers.last
    BY SwitchesRuns
  <1>2. \/ Resuming(Daemon, w) /\ ~ w.yields /\ w.pc = "resume" /\ w.then.pc = "timerCommands"
        \/ Plain(Daemon, w) /\ w.pc = "timerObeys"
    BY <1>1 DEF Switching, Resuming
  <1>3. call' = [call EXCEPT ![Daemon] = w] /\ timers' = us
    OBVIOUS
  <1>4. /\ DOMAIN us = TimerFields /\ us.queue = timers.queue /\ us.lock = timers.lock
        /\ us.current = timers.overflow /\ us.overflow = {} /\ us.last = timers.last
        /\ us.value = timers.value /\ us.period = timers.period
    BY <1>1 DEF Well, TimerFields
  <1> HIDE DEF w, us
  <1>5. Well(us) /\ NextTurn(us)
    BY <1>1, <1>4 DEF Well, NextTurn
  <1>6. Fits(Daemon, w, sched)
    <2>1. CASE Resuming(Daemon, w) /\ ~ w.yields /\ w.pc = "resume" /\ w.then.pc = "timerCommands"
      BY <1>1, <2>1, ResumeFits
    <2>2. CASE Plain(Daemon, w) /\ w.pc = "timerObeys"
      BY <1>1, <2>2, FlatFits
    <2> QED
      BY <1>2, <2>1, <2>2
  <1>7. ListsWith(w, us)
    BY <1>1, <1>2, <1>4, <1>5 DEF ListsWith
  <1>8. Well(timers') /\ ListsWith(w, timers')
    BY <1>3, <1>5, <1>7
  <1> QED
    BY <1>3, <1>6, <1>8, DaemonProceedsAlone

LEMMA DaemonSwitchesStep ==
    ASSUME KInv, program' = program, DaemonSwitches
    PROVE  DaemonKept
  <1>1. CASE timers.current = {}
    BY <1>1, ListsSwitched DEF DaemonSwitches, At, Goto
  <1>2. CASE timers.current # {}
    <2>1. /\ Daemon = sched.current /\ call[Daemon].pc = "timerSwitch" /\ lastWake' = lastWake
          /\ sched' = sched /\ call' = call
      BY <1>2 DEF DaemonSwitches, At
    <2>2. PICK x \in Heads(timers) :
            LET at == timers.value[x]
                next == Wrap(at + timers.period[x])
                ts == CallBack(Stopped(timers, x), x)
            IN  timers' = IF ~timers.reload[x] THEN ts
                          ELSE IF next > at THEN [ts EXCEPT !.value[x] = next, !.current = @ \cup {x}]
                          ELSE StartAgain(ts, x, at)
      BY <1>2 DEF DaemonSwitches
    <2> DEFINE at == timers.value[x]
               next == Wrap(at + timers.period[x])
               ts == CallBack(Stopped(timers, x), x)
               v == [ts EXCEPT !.value[x] = next]
               u == [v EXCEPT !.current = v.current \cup {x}]
    <2>3. Well(timers) /\ Switching(Daemon, call[Daemon]) /\ (call[Daemon].after.pc = "timerObeys" => call[Daemon].after.now = timers.last)
      BY <2>1, SwitchesRuns
    <2>4. x \in Timer
      BY <2>3, FirstIsInTheList
    <2>5. at \in Time /\ timers.period[x] \in Time
      BY <2>3, <2>4, WellParts
    <2>6. next \in Time
      BY <2>5, NextIsTime
    <2>7. Well(ts) /\ x \notin ts.overflow /\ ts.last = timers.last
      BY <2>3, CalledTimer
    <2> HIDE DEF ts
    <2>8. timers' = ts \/ timers' = u \/ timers' = StartAgain(ts, x, at)
      <3>1. [ts EXCEPT !.value[x] = next, !.current = @ \cup {x}] = u
        BY <2>7 DEF Well, TimerFields
      <3>2. \/ timers' = ts
            \/ timers' = [ts EXCEPT !.value[x] = next, !.current = @ \cup {x}]
            \/ timers' = StartAgain(ts, x, at)
        BY <2>2 DEF ts
      <3> HIDE DEF u, v, next, at
      <3> QED
        BY <3>1, <3>2
    <2> HIDE DEF next, at
    <2>9. Well(v) /\ v.last = ts.last
      BY <2>4, <2>6, <2>7, Revalued
    <2> HIDE DEF v
    <2>10. Well(u) /\ u.last = v.last
      BY <2>4, <2>9, CurrentGrown
    <2> HIDE DEF u
    <2>11. Well(timers') /\ timers'.last = timers.last
      <3>1. CASE timers' = ts
        BY <2>7, <3>1
      <3>2. CASE timers' = u
        BY <2>7, <2>9, <2>10, <3>2
      <3>3. CASE timers' = StartAgain(ts, x, at)
        BY <2>4, <2>5, <2>7, <3>3, StartedAgain
      <3> QED
        BY <2>8, <3>1, <3>2, <3>3
    <2>12. Scheduled
      BY <2>1, NothingChanges
    <2>13. TimerLists'
      <3>1. call'[Daemon].pc = "timerSwitch" /\ call'[Daemon].after = call[Daemon].after
        BY <2>1
      <3> QED
        BY <2>3, <2>11, <3>1 DEF TimerLists
    <2> QED
      BY <2>11, <2>12, <2>13, WellThen DEF DaemonKept, SchedulerKept, Scheduled
  <1> QED
    BY <1>1, <1>2

\* prvProcessReceivedCommands: a command is taken from the queue, ...
LEMMA DaemonReceivesStep ==
    ASSUME KInv, program' = program, DaemonReceives
    PROVE  DaemonKept
  <1> DEFINE m == Head(timers.queue)
             w == IF timers.queue = << >> THEN Run ELSE [pc |-> "timerCommand", message |-> m]
             us == [timers EXCEPT !.queue = Tail(@)]
  <1>1. /\ Daemon = sched.current /\ call[Daemon].pc = "timerCommands" /\ lastWake' = lastWake
        /\ sched' = sched /\ call' = [call EXCEPT ![Daemon] = w]
        /\ IF timers.queue = << >> THEN timers' = timers ELSE timers' = us
    BY DEF DaemonReceives, At, Goto
  <1>2. /\ sched.notify[Daemon] # "WAITING" /\ sched.item[Daemon] # 0
        /\ sched.nesting = 0 /\ Awake(sched, Daemon) /\ Well(timers) /\ ListsWith(call[Daemon], timers)
    BY <1>1, DaemonRuns DEF DaemonPCs
  <1>3. NextTurn(timers) /\ timers.queue \in Seq(DaemonTaskMessage)
    BY <1>1, <1>2, WellParts DEF ListsWith
  <1>4. timers.queue # << >> => m \in DaemonTaskMessage /\ Tail(timers.queue) \in Seq(DaemonTaskMessage)
    BY <1>3
  <1>5. CASE timers.queue = << >>
    <2>1. w.pc = "run" /\ "pc" \in DOMAIN w /\ w = Run
      BY <1>5 DEF Run
    <2> HIDE DEF w
    <2>2. Fits(Daemon, w, sched)
      BY <1>2, <2>1, RunFits
    <2>3. ListsWith(w, timers')
      BY <1>1, <1>3, <1>5, <2>1 DEF ListsWith
    <2>4. Well(timers')
      BY <1>1, <1>2, <1>5
    <2> QED
      BY <1>1, <2>2, <2>3, <2>4, DaemonProceedsAlone
  <1>6. CASE timers.queue # << >>
    <2>1. w.pc = "timerCommand" /\ "pc" \in DOMAIN w /\ w.message \in DaemonTaskMessage
      BY <1>4, <1>6
    <2>2. timers' = us
      BY <1>1, <1>6
    <2>3. /\ DOMAIN us = TimerFields /\ us.queue = Tail(timers.queue) /\ us.lock = timers.lock
          /\ us.current = timers.current /\ us.overflow = timers.overflow /\ us.last = timers.last
          /\ us.value = timers.value /\ us.period = timers.period
      BY <1>2 DEF Well, TimerFields
    <2> HIDE DEF w, us, m
    <2>4. Well(us) /\ NextTurn(us)
      BY <1>2, <1>3, <1>4, <1>6, <2>3 DEF Well, NextTurn
    <2>5. Plain(Daemon, w)
      BY <2>1, DaemonIsPlain DEF DaemonPCs, DaemonCall
    <2>6. Fits(Daemon, w, sched)
      BY <1>2, <2>1, <2>5, FlatFits
    <2>7. ListsWith(w, us)
      BY <2>1, <2>4 DEF ListsWith
    <2>8. Well(timers') /\ ListsWith(w, timers')
      BY <2>2, <2>4, <2>7
    <2> QED
      BY <1>1, <2>6, <2>8, DaemonProceedsAlone
  <1> QED
    BY <1>5, <1>6

\* ... a pended function is called, ...
LEMMA DaemonCallsPendedStep ==
    ASSUME KInv, program' = program, timers' = timers, DaemonCallsPended
    PROVE  DaemonKept
  <1> DEFINE m == call[Daemon].message
             bits == group \cup m.value
             ts == Met(SuspendAll(sched), bits)
             flags == bits \cup {"unblocked"}
             u == WakeWaiters(SuspendAll(sched), ts, flags)
             w == [pc |-> "resume", yields |-> FALSE, then |-> ToCommands]
  <1>1. /\ Daemon = sched.current /\ call[Daemon].pc = "timerCommand" /\ lastWake' = lastWake
        /\ \/ sched' = u /\ call' = [call EXCEPT ![Daemon] = w]
           \/ sched' = sched /\ call' = [call EXCEPT ![Daemon] = ToCommands]
    BY DEF DaemonCallsPended, At, Goto, SetBits, ToCommands
  <1> HIDE DEF ts, flags
  <1>2. /\ Core(sched) /\ Settled(sched) /\ sched.notify[Daemon] # "WAITING" /\ sched.item[Daemon] # 0
        /\ sched.nesting = 0 /\ Awake(sched, Daemon) /\ Well(timers) /\ ListsWith(call[Daemon], timers)
    BY <1>1, DaemonRuns DEF DaemonPCs
  <1>3. NextTurn(timers)
    BY <1>1, <1>2 DEF ListsWith
  <1>4. Well(timers') /\ NextTurn(timers')
    BY <1>2, <1>3
  <1>5. CASE sched' = u /\ call' = [call EXCEPT ![Daemon] = w]
    <2>1. Core(u) /\ Settled(u) /\ Calm(sched, u) /\ u.nesting = sched.nesting + 1
      BY <1>2, BitsSet
    <2> HIDE DEF u
    <2>2. u.notify[Daemon] # "WAITING" /\ u.item[Daemon] # 0 /\ Daemon = u.current /\ Awake(u, Daemon) /\ u.nesting = 1
      BY <1>1, <1>2, <2>1, Constants DEF Calm, NobodyWaits, BeginsNoWait
    <2>3. Fits(Daemon, w, u)
      BY <2>2, CommandsPlain, ResumesLater
    <2>4. w.pc = "resume"
      OBVIOUS
    <2> HIDE DEF w
    <2>5. Acts(sched, sched')
      BY <1>5, <2>1 DEF Acts, Calm, NobodyWaits
    <2>6. ListsWith(w, timers')
      BY <1>4, <2>4 DEF ListsWith
    <2>7. Fits(Daemon, w, sched')
      BY <1>5, <2>3
    <2> QED
      BY <1>1, <1>4, <1>5, <2>5, <2>6, <2>7, DaemonProceeds
  <1>6. CASE sched' = sched /\ call' = [call EXCEPT ![Daemon] = ToCommands]
    BY <1>1, <1>2, <1>4, <1>6, ToTheCommands
  <1> QED
    BY <1>1, <1>5, <1>6

\* ... or its timer leaves its list and the time is looked at.
LEMMA DaemonTakesTimerStep ==
    ASSUME KInv, program' = program, DaemonTakesTimer
    PROVE  DaemonKept
  <1> DEFINE m == call[Daemon].message
             now == sched.tick
             at == Elapsed(sched)
             obeys == [pc |-> "timerObeys", message |-> m, now |-> now, at |-> at]
             late == now < timers.last
             w == IF late THEN [pc |-> "timerSwitch", after |-> obeys] ELSE obeys
             ts == Stopped(timers, m.timer)
             us == [ts EXCEPT !.last = now]
  <1>1. /\ Daemon = sched.current /\ call[Daemon].pc = "timerCommand" /\ ~ Pended(m.id) /\ lastWake' = lastWake
        /\ sched' = sched /\ call' = [call EXCEPT ![Daemon] = w] /\ timers' = us
    BY DEF DaemonTakesTimer, At, Goto
  <1>2. /\ Core(sched) /\ sched.notify[Daemon] # "WAITING" /\ sched.item[Daemon] # 0
        /\ sched.nesting = 0 /\ Awake(sched, Daemon) /\ Well(timers) /\ ListsWith(call[Daemon], timers)
        /\ Plain(Daemon, call[Daemon])
    BY <1>1, DaemonRuns DEF DaemonPCs
  <1>3. m \in DaemonTaskMessage
    BY <1>1, <1>2 DEF Plain, DaemonCall, DaemonPCs
  <1>4. NextTurn(timers) /\ now \in Time /\ at \in Int
    BY <1>1, <1>2, CoreParts, ElapsedIsInt DEF ListsWith
  <1>5. Well(ts) /\ NextTurn(ts) /\ m.timer \notin ts.overflow /\ ts.last = timers.last
    BY <1>2, <1>4, StoppedTimer
  <1> HIDE DEF m, now, at, ts
  <1>6. Well(us) /\ us.last = now /\ (~ late => NextTurn(us))
    BY <1>4, <1>5, LookedAt
  <1>7. us.overflow = ts.overflow
    BY <1>5 DEF Well, TimerFields
  <1>8. /\ "pc" \in DOMAIN obeys /\ obeys.pc = "timerObeys" /\ obeys.now = now /\ obeys.message = m /\ obeys.at = at
    OBVIOUS
  <1> HIDE DEF us, obeys
  <1>9. Plain(Daemon, obeys)
    BY <1>1, <1>3, <1>4, <1>8, DaemonIsPlain DEF DaemonPCs, DaemonCall
  <1>10. CASE ~ late
    <2>1. w = obeys
      BY <1>10
    <2>2. Fits(Daemon, obeys, sched)
      BY <1>2, <1>8, <1>9, FlatFits
    <2>3. ListsWith(obeys, us)
      BY <1>5, <1>6, <1>7, <1>8, <1>10 DEF ListsWith
    <2>4. Fits(Daemon, w, sched) /\ Well(timers') /\ ListsWith(w, timers')
      BY <1>1, <1>6, <2>1, <2>2, <2>3
    <2> HIDE DEF w
    <2> QED
      BY <1>1, <2>4, DaemonProceedsAlone
  <1>11. CASE late
    <2> DEFINE x == [pc |-> "timerSwitch", after |-> obeys]
    <2>1. w = x
      BY <1>11
    <2>2. {"pc", "after"} \subseteq DOMAIN x /\ x.pc = "timerSwitch" /\ x.after = obeys
      OBVIOUS
    <2> HIDE DEF x, w
    <2>3. Shape(Daemon, x)
      BY <1>8, <1>9, <2>2 DEF Shape, Switching
    <2>4. ~ WaitsForBits(x) /\ ~ Once(Daemon, x) /\ ~ Nested(Daemon, x)
      BY <1>8, <2>2 DEF WaitsForBits, Nested, Once, OncePCs
    <2>5. Fits(Daemon, x, sched)
      BY <1>2, <2>3, <2>4 DEF Fits
    <2>6. ListsWith(x, us)
      BY <1>6, <1>8, <2>2 DEF ListsWith
    <2>7. Fits(Daemon, w, sched) /\ Well(timers') /\ ListsWith(w, timers')
      BY <1>1, <1>6, <2>1, <2>5, <2>6
    <2> QED
      BY <1>1, <2>7, DaemonProceedsAlone
  <1> HIDE DEF late
  <1> QED
    BY <1>10, <1>11

LEMMA LaterIsNotNow ==
    ASSUME NEW now \in Time, NEW n \in Time, n # 0
    PROVE  Wrap(now + n) # now
  <1>1. /\ now \in 0 .. portMAX_DELAY /\ n \in 1 .. portMAX_DELAY
        /\ Ticks = portMAX_DELAY + 1 /\ portMAX_DELAY \in Nat
    BY Constants
  <1>2. CASE now + n <= portMAX_DELAY
    <2>1. now + n \in Time
      BY <1>1, <1>2, Constants
    <2>2. Wrap(now + n) = now + n
      BY <1>1, <2>1, Wrapped
    <2> QED
      BY <1>1, <2>2
  <1>3. CASE ~ (now + n <= portMAX_DELAY)
    <2>1. now + n \in Ticks .. Ticks + portMAX_DELAY
      BY <1>1, <1>3
    <2>2. Wrap(now + n) = now + n - Ticks
      BY <1>1, <2>1, Wrapped
    <2> QED
      BY <1>1, <2>2
  <1> QED
    BY <1>2, <1>3

\* The command is obeyed: START and START_DONT_TRACE, ...
LEMMA TimerStarted ==
    ASSUME NEW ts, Well(ts), NextTurn(ts), NEW m, m.timer \in Timer, m.value \in Time,
           m.timer \notin ts.overflow, NEW us, us = Started(ts, m, ts.last)
    PROVE  Well(us) /\ NextTurn(us)
  <1> DEFINE x == m.timer
             now == ts.last
             at == m.value
             next == Wrap(at + ts.period[x])
             d == IF m.id = "START" THEN m.at + ts.period[x] ELSE ts.due[x]
             s == [ts EXCEPT !.active[x] = TRUE, !.due[x] = d]
             v == [s EXCEPT !.value[x] = next]
             called == CallBack(v, x)
  <1>1. \/ ~ ProcessNow(s, x, next, now, at) /\ us = Insert(s, x, next, now)
        \/ us = StartAgain(called, x, next)
        \/ us = called
    <2>1. [ts EXCEPT !.active[x] = TRUE, !.due[x] = IF m.id = "START" THEN m.at + ts.period[x] ELSE @] = s
      BY DEF Well, TimerFields
    <2> HIDE DEF s, d
    <2> QED
      BY <2>1 DEF Started
  <1>2. now \in Time /\ at \in Time /\ ts.period[x] \in Time /\ ts.period[x] # 0 /\ x \in Timer
    BY WellParts
  <1>3. next \in Time
    BY <1>2, NextIsTime
  <1>4. /\ Well(s) /\ NextTurn(s) /\ s.overflow = ts.overflow /\ s.last = now /\ s.period = ts.period
    <2> DEFINE e == [ts.active EXCEPT ![x] = TRUE]
               f == [ts.due EXCEPT ![x] = d]
               r == [ts EXCEPT !.active = e]
               u == [r EXCEPT !.due = f]
    <2> HIDE DEF d
    <2>1. s = u
      BY WellParts DEF TimerFields
    <2> HIDE DEF e, f
    <2>2. Alike(ts, r, Aside) /\ DOMAIN r = TimerFields
      BY WellParts, AsideSet DEF Aside, Alike
    <2> HIDE DEF r
    <2>3. Alike(r, u, Aside)
      BY <2>2, AsideSet DEF Aside
    <2> HIDE DEF u, s
    <2>4. Alike(ts, s, Aside)
      BY <2>1, <2>2, <2>3, AlikeTwice
    <2> QED
      BY <2>4, WellAside
  <1> HIDE DEF s
  <1>5. ~ ProcessNow(s, x, next, now, at) => next # now
    BY <1>2, <1>4, NotNow DEF ProcessNow
  <1>6. x \notin s.overflow
    BY <1>4
  <1> HIDE DEF next, at, now, x
  <1>7. Well(v) /\ NextTurn(v)
    BY <1>2, <1>3, <1>4, <1>6, Revalued
  <1> HIDE DEF v
  <1>8. Well(called) /\ NextTurn(called)
    BY <1>7, CalledBack, WellAside
  <1> HIDE DEF called
  <1>9. CASE ~ ProcessNow(s, x, next, now, at) /\ us = Insert(s, x, next, now)
    BY <1>2, <1>3, <1>4, <1>5, <1>6, <1>9, Inserted
  <1>10. CASE us = StartAgain(called, x, next)
    BY <1>2, <1>3, <1>8, <1>10, StartedAgain
  <1>11. CASE us = called
    BY <1>8, <1>11
  <1> QED
    BY <1>1, <1>9, <1>10, <1>11

\* ... CHANGE_PERIOD, ...
LEMMA PeriodChanged ==
    ASSUME NEW ts, Well(ts), NextTurn(ts), NEW x \in Timer, NEW n \in Time \ {0}, x \notin ts.overflow,
           NEW due, NEW us,
           us = Insert([ts EXCEPT !.active[x] = TRUE, !.period[x] = n, !.due[x] = due], x, Wrap(ts.last + n), ts.last)
    PROVE  Well(us) /\ NextTurn(us)
  <1> DEFINE s == [ts EXCEPT !.active[x] = TRUE, !.period[x] = n, !.due[x] = due]
             next == Wrap(ts.last + n)
  <1>1. us = Insert(s, x, next, ts.last)
    OBVIOUS
  <1>2. /\ DOMAIN s = TimerFields /\ s.queue = ts.queue /\ s.lock = ts.lock
        /\ s.current = ts.current /\ s.overflow = ts.overflow /\ s.last = ts.last
        /\ s.value = ts.value /\ s.period = [ts.period EXCEPT ![x] = n]
    BY DEF Well, TimerFields
  <1> HIDE DEF s
  <1>3. s.period \in [Timer -> Time \ {0}]
    BY <1>2 DEF Well
  <1>4. Well(s) /\ NextTurn(s)
    BY <1>2, <1>3 DEF Well, NextTurn
  <1>5. ts.last \in Time /\ n \in Time /\ n # 0
    BY WellParts
  <1>6. next \in Time /\ next # ts.last
    BY <1>5, NextIsTime, LaterIsNotNow
  <1> HIDE DEF next
  <1> QED
    BY <1>1, <1>2, <1>4, <1>6, Inserted

\* ... STOP and DELETE.
LEMMA TimerEnded ==
    ASSUME NEW ts, Well(ts), NEW x, NEW us,
           \/ us = [ts EXCEPT !.active[x] = FALSE, !.due[x] = Never]
           \/ us = [ts EXCEPT !.exists[x] = "no", !.due[x] = Never]
    PROVE  Well(us) /\ (NextTurn(ts) => NextTurn(us))
  <1> DEFINE a == [ts.active EXCEPT ![x] = FALSE]
             e == [ts.exists EXCEPT ![x] = "no"]
             f == [ts.due EXCEPT ![x] = Never]
             r1 == [ts EXCEPT !.active = a]
             r2 == [ts EXCEPT !.exists = e]
             u1 == [r1 EXCEPT !.due = f]
             u2 == [r2 EXCEPT !.due = f]
  <1>1. us = u1 \/ us = u2
    BY WellParts DEF TimerFields
  <1> HIDE DEF a, e, f
  <1>2. /\ Alike(ts, r1, Aside) /\ DOMAIN r1 = TimerFields
        /\ Alike(ts, r2, Aside) /\ DOMAIN r2 = TimerFields
    BY WellParts, AsideSet DEF Aside, Alike
  <1> HIDE DEF r1, r2
  <1>3. Alike(r1, u1, Aside) /\ Alike(r2, u2, Aside)
    BY <1>2, AsideSet DEF Aside
  <1> HIDE DEF u1, u2
  <1>4. Alike(ts, us, Aside)
    BY <1>1, <1>2, <1>3, AlikeTwice
  <1> QED
    BY <1>4, WellAside

LEMMA DaemonObeysStep ==
    ASSUME KInv, program' = program, DaemonObeys
    PROVE  DaemonKept
  <1> DEFINE w == call[Daemon]
             m == w.message
             x == m.timer
  <1>1. /\ Daemon = sched.current /\ w.pc = "timerObeys" /\ lastWake' = lastWake
        /\ sched' = sched /\ call' = [call EXCEPT ![Daemon] = ToCommands]
        /\ timers' = CASE m.id \in {"START", "START_DONT_TRACE"} -> Started(timers, m, w.now)
                       [] m.id = "STOP" -> [timers EXCEPT !.active[x] = FALSE, !.due[x] = Never]
                       [] m.id = "CHANGE_PERIOD" ->
                            Insert([timers EXCEPT !.active[x] = TRUE, !.period[x] = m.value, !.due[x] = w.at + m.value],
                                   x, Wrap(w.now + m.value), w.now)
                       [] m.id = "DELETE" -> [timers EXCEPT !.exists[x] = "no", !.due[x] = Never]
    BY DEF DaemonObeys, At, Goto, ToCommands
  <1>2. /\ sched.notify[Daemon] # "WAITING" /\ sched.item[Daemon] # 0
        /\ sched.nesting = 0 /\ Awake(sched, Daemon) /\ Well(timers) /\ ListsWith(w, timers) /\ Plain(Daemon, w)
    BY <1>1, DaemonRuns DEF DaemonPCs
  <1>3. NextTurn(timers) /\ w.now = timers.last /\ x \notin timers.overflow
    BY <1>1, <1>2 DEF ListsWith
  <1>4. m \in DaemonTaskMessage /\ ~ Pended(m.id)
    BY <1>1, <1>2 DEF Plain, DaemonCall, DaemonPCs
  <1>5. /\ m.timer \in Timer
        /\ \/ m.id \in {"START", "START_DONT_TRACE", "STOP", "DELETE"} /\ m.value \in 0 .. portMAX_DELAY
           \/ m.id = "CHANGE_PERIOD" /\ m.value \in 1 .. portMAX_DELAY
    BY <1>4 DEF DaemonTaskMessage, Pended
  <1>6. m.value \in Time /\ (m.id = "CHANGE_PERIOD" => m.value \in Time \ {0})
    BY <1>5, Constants
  <1>7. CASE m.id \in {"START", "START_DONT_TRACE"}
    <2>1. timers' = Started(timers, m, timers.last)
      BY <1>1, <1>3, <1>7
    <2>2. Well(timers') /\ NextTurn(timers')
      BY <1>2, <1>3, <1>5, <1>6, <2>1, TimerStarted
    <2> QED
      BY <1>1, <1>2, <2>2, ToTheCommands
  <1>8. CASE m.id = "CHANGE_PERIOD"
    <2> DEFINE d == w.at + m.value
    <2>1. timers' = Insert([timers EXCEPT !.active[x] = TRUE, !.period[x] = m.value, !.due[x] = d],
                           x, Wrap(timers.last + m.value), timers.last)
      BY <1>1, <1>3, <1>8
    <2> HIDE DEF d
    <2>2. Well(timers') /\ NextTurn(timers')
      BY <1>2, <1>3, <1>5, <1>6, <1>8, <2>1, PeriodChanged
    <2> QED
      BY <1>1, <1>2, <2>2, ToTheCommands
  <1>9. CASE m.id \in {"STOP", "DELETE"}
    <2>1. \/ timers' = [timers EXCEPT !.active[x] = FALSE, !.due[x] = Never]
          \/ timers' = [timers EXCEPT !.exists[x] = "no", !.due[x] = Never]
      BY <1>1, <1>9
    <2>2. Well(timers') /\ NextTurn(timers')
      BY <1>2, <1>3, <2>1, TimerEnded
    <2> QED
      BY <1>1, <1>2, <2>2, ToTheCommands
  <1> QED
    BY <1>5, <1>7, <1>8, <1>9

-----------------------------------------------------------------------------
LEMMA TimersStepKeeps ==
    ASSUME KInv, program' = program, TimersNext
    PROVE  DaemonKept
  <1>1. ASSUME TimersKept PROVE DaemonKept
    BY <1>1 DEF TimersKept, DaemonKept, Scheduled, SchedulerKept
  <1>2. ASSUME NEW t \in Task, TimersStep(t) PROVE DaemonKept
    <2>1. CASE TimerSends(t)
      BY <1>1, <2>1, TimerSendsStep
    <2>2. ASSUME NEW c \in program.calls[t], TimerCommand(t, c) PROVE DaemonKept
      BY <1>1, <2>2, TimerCommandStep
    <2>3. ASSUME NEW c \in program.calls[t], TimerCreate(t, c) PROVE DaemonKept
      BY <1>1, <2>3, TimerCreateStep
    <2>4. ASSUME NEW c \in program.calls[t], TimerSetReloadMode(t, c) PROVE DaemonKept
      BY <1>1, <2>4, TimerSetReloadModeStep
    <2> QED
      BY <1>2, <2>1, <2>2, <2>3, <2>4 DEF TimersStep
  <1>3. ASSUME NEW c \in program.isr, TimerFromISR(c) PROVE DaemonKept
    BY <1>1, <1>3, TimerFromISRStep
  <1>4. CASE DaemonLooks
    BY <1>4, DaemonLooksStep
  <1>5. CASE DaemonWaits
    BY <1>5, DaemonWaitsStep
  <1>6. CASE DaemonUnlocks
    BY <1>6, DaemonUnlocksStep
  <1>7. CASE DaemonExpires
    BY <1>7, DaemonExpiresStep
  <1>8. CASE DaemonSwitches
    BY <1>8, DaemonSwitchesStep
  <1>9. CASE DaemonReceives
    BY <1>9, DaemonReceivesStep
  <1>10. CASE DaemonCallsPended
    BY <1>10, DaemonCallsPendedStep DEF DaemonCallsPended
  <1>11. CASE DaemonTakesTimer
    BY <1>11, DaemonTakesTimerStep
  <1>12. CASE DaemonObeys
    BY <1>12, DaemonObeysStep
  <1> QED
    BY <1>2, <1>3, <1>4, <1>5, <1>6, <1>7, <1>8, <1>9, <1>10, <1>11, <1>12 DEF TimersNext

-----------------------------------------------------------------------------
(***************************************************************************)
(* The kernel's steps together.                                            *)
(***************************************************************************)
LEMMA KInvThen ==
    ASSUME KInv, program' = program, SchedulerKept, SemaphoresTyped', StreamTyped', TimersTyped', TimerLists'
    PROVE  KInv'
  BY DEF KInv, SchedulerKept

LEMMA KernelStep ==
    ASSUME KInv, [KernelNext]_kernelVars
    PROVE  KInv'
  <1>1. ASSUME Scheduled, timers' = timers
        PROVE  SchedulerKept /\ TimersTyped' /\ TimerLists'
    BY <1>1, TimersSame DEF TimersKept, Scheduled, SchedulerKept
  <1>2. (semaphore' = semaphore => SemaphoresTyped') /\ (stream' = stream => StreamTyped')
    BY SemaphoreSame, StreamSame DEF KInv
  <1>3. CASE TasksNext /\ UNCHANGED <<semaphore, setVars, groupVars, stream, timers>>
    <2>1. program' = program
      BY <1>3 DEF TasksNext
    <2>2. Scheduled
      BY <1>3, TasksStep
    <2> QED
      BY <1>1, <1>2, <1>3, <2>1, <2>2, KInvThen
  <1>4. CASE QueueSetNext /\ UNCHANGED <<program, groupVars, stream, timers>>
    <2>1. Scheduled /\ SemaphoresTyped'
      BY <1>4, SetStep
    <2> QED
      BY <1>1, <1>2, <1>4, <2>1, KInvThen
  <1>5. CASE EventGroupNext /\ UNCHANGED <<program, semaphore, setVars, stream, timers>>
    <2>1. Scheduled
      BY <1>5, EventGroupStepKeeps
    <2> QED
      BY <1>1, <1>2, <1>5, <2>1, KInvThen
  <1>6. CASE StreamBufferNext /\ UNCHANGED <<program, semaphore, setVars, groupVars, timers>>
    <2>1. Scheduled /\ StreamTyped'
      BY <1>6, StreamBufferStepKeeps
    <2> QED
      BY <1>1, <1>2, <1>6, <2>1, KInvThen
  <1>7. CASE TimersNext /\ UNCHANGED <<program, semaphore, setVars, meetings, stream>>
    <2>1. DaemonKept
      BY <1>7, TimersStepKeeps
    <2> QED
      BY <1>2, <1>7, <2>1, KInvThen DEF DaemonKept
  <1>8. CASE UNCHANGED kernelVars
    <2>1. /\ sched' = sched /\ call' = call /\ lastWake' = lastWake /\ program' = program
          /\ semaphore' = semaphore /\ stream' = stream /\ timers' = timers
      BY <1>8 DEF kernelVars, tasksVars
    <2>2. Scheduled
      BY <2>1, NothingChanges
    <2> QED
      BY <1>1, <1>2, <2>1, <2>2, KInvThen
  <1> QED
    BY <1>3, <1>4, <1>5, <1>6, <1>7, <1>8 DEF KernelNext

-----------------------------------------------------------------------------
(***************************************************************************)
(* When the scheduler starts.                                              *)
(***************************************************************************)
LEMMA CommandsTyped ==
    ASSUME NEW p \in Programs
    PROVE  p.commands \in Seq(DaemonTaskMessage)
  <1> DEFINE S == Range(p.commands)
  <1>1. p.commands \in Seq(S)
    BY KernelAssumption
  <1>2. ASSUME NEW m \in S PROVE m \in DaemonTaskMessage
    <2>1. MessageOf(m)
      BY KernelAssumption
    <2>2. /\ m = [id |-> m.id, timer |-> m.timer, at |-> m.at, value |-> m.value]
          /\ m.timer \in Timer /\ m.at \in Int
      BY <2>1 DEF MessageOf, CommandOf
    <2>3. portMAX_DELAY \in Nat
      BY TasksAssumption
    <2>4. \/ m.id \in {"START", "START_DONT_TRACE", "STOP", "DELETE"} /\ m.value \in 0 .. portMAX_DELAY
          \/ m.id = "CHANGE_PERIOD" /\ m.value \in 1 .. portMAX_DELAY
          \/ m.id \in {"SET_BITS", "CLEAR_BITS"} /\ m.value \in SUBSET Bit
      BY <2>1, <2>3 DEF MessageOf, CommandOf, Pended
    <2> QED
      BY <2>2, <2>4 DEF DaemonTaskMessage
  <1> HIDE DEF S
  <1> QED
    BY <1>1, <1>2

LEMMA StartsTyped ==
    ASSUME TasksInit
    PROVE  Types(sched)
  <1>1. PICK first \in {t \in program.started : \A u \in program.started : program.prio[t] >= program.prio[u]} :
        sched = [ready |-> [p \in Priority |-> {t \in program.started : program.prio[t] = p}],
                 delayed |-> {}, overflow |-> {}, suspended |-> {}, terminating |-> {},
                 pending |-> << >>, events |-> [l \in EventList |-> << >>],
                 wake |-> [t \in Task |-> 0],
                 item |-> [t \in Task |-> configMAX_PRIORITIES - program.prio[t]],
                 flags |-> [t \in Task |-> {}],
                 prio |-> program.prio, base |-> program.prio,
                 held |-> [t \in Task |-> 0],
                 notify |-> [t \in Task |-> "NOT_WAITING"], value |-> [t \in Task |-> 0],
                 current |-> first, nesting |-> 0, pended |-> 0, yield |-> FALSE,
                 top |-> program.prio[first], tick |-> configINITIAL_TICK_COUNT,
                 overflows |-> 0, next |-> portMAX_DELAY]
    BY DEF TasksInit
  <1>2. /\ program \in Programs /\ program.prio \in [Task -> Priority] /\ program.started \subseteq Task
        /\ first \in Task /\ program.prio[first] \in Priority
        /\ configINITIAL_TICK_COUNT \in Time /\ 0 \in Time /\ portMAX_DELAY \in Time
    BY TasksAssumption, KernelAssumption, TimeIsInt DEF TasksInit, Time
  <1>3. \A t \in Task : configMAX_PRIORITIES - program.prio[t] \in 0 .. configMAX_PRIORITIES
    <2> TAKE t \in Task
    <2>1. program.prio[t] \in Priority
      BY <1>2
    <2>2. configMAX_PRIORITIES - program.prio[t] \in 1 .. configMAX_PRIORITIES
      BY <2>1, ItemTyped
    <2> QED
      BY <2>2, Constants
  <1>4. DOMAIN sched = Fields
    BY <1>1 DEF Fields
  <1>5. sched.ready \in [Priority -> SUBSET Task]
    BY <1>1, <1>2
  <1>6. sched.item \in [Task -> 0 .. configMAX_PRIORITIES]
    BY <1>1, <1>3
  <1>7. /\ sched.delayed \subseteq Task /\ sched.overflow \subseteq Task
        /\ sched.suspended \subseteq Task /\ sched.terminating \subseteq Task
        /\ sched.pending \in Seq(Task) /\ sched.events \in [EventList -> Seq(Task)]
    BY <1>1, Empty
  <1>8. /\ sched.wake \in [Task -> Time] /\ sched.prio \in [Task -> Priority] /\ sched.base \in [Task -> Priority]
        /\ sched.notify \in [Task -> {"NOT_WAITING", "WAITING", "RECEIVED"}]
    BY <1>1, <1>2
  <1>9. /\ sched.current \in Task /\ sched.nesting \in Nat /\ sched.pended \in Nat
        /\ sched.top \in Priority /\ sched.tick \in Time /\ sched.next \in Time /\ sched.overflows \in Nat
    BY <1>1, <1>2
  <1> QED
    BY <1>4, <1>5, <1>6, <1>7, <1>8, <1>9 DEF Types

Starts(s) ==
    /\ s.ready = [p \in Priority |-> {t \in program.started : program.prio[t] = p}]
    /\ s.delayed = {} /\ s.overflow = {} /\ s.suspended = {} /\ s.terminating = {}
    /\ s.pending = << >> /\ s.events = [l \in EventList |-> << >>]
    /\ s.item = [t \in Task |-> configMAX_PRIORITIES - program.prio[t]]
    /\ s.prio = program.prio /\ s.notify = [t \in Task |-> "NOT_WAITING"]
    /\ s.nesting = 0 /\ s.pended = 0 /\ s.tick = configINITIAL_TICK_COUNT /\ s.next = portMAX_DELAY
    /\ s.current \in program.started /\ s.top = program.prio[s.current]

LEMMA StartsWell ==
    ASSUME TasksInit
    PROVE  Starts(sched) /\ program \in Programs /\ call = [t \in Task |-> Run]
           /\ lastWake = [t \in Task |-> configINITIAL_TICK_COUNT]
  BY DEF TasksInit, Starts

LEMMA CoreStarts ==
    ASSUME TasksInit
    PROVE  Core(sched) /\ Settled(sched) /\ Awake(sched, sched.current)
           /\ \A t \in Task : sched.notify[t] # "WAITING" /\ sched.item[t] # 0
  <1>1. Starts(sched) /\ Types(sched) /\ program \in Programs
    BY StartsWell, StartsTyped
  <1>2. /\ program.prio \in [Task -> Priority] /\ program.prio[Idle] = 0 /\ Idle \in program.started
        /\ program.started \subseteq Task
    BY <1>1, TasksAssumption, KernelAssumption
  <1>3. \A t \in program.started : Awake(sched, t)
    <2> TAKE t \in program.started
    <2>1. program.prio[t] \in Priority
      BY <1>2
    <2> QED
      BY <1>1, <2>1 DEF Starts, Awake
  <1>4. StateLists(sched)
    BY <1>1 DEF StateLists, Starts, Blocked
  <1>5. EventLists(sched, {})
    BY <1>1, Empty, Constants DEF EventLists, Starts
  <1>6. Times(sched)
    BY <1>1, TimeIsInt, TasksAssumption DEF Times, Starts
  <1>7. IdleWaits(sched)
    <2>1. sched.prio[Idle] = 0 /\ sched.top \in Priority
      BY <1>1, <1>2 DEF Starts, Types
    <2>2. 0 <= sched.top
      BY <2>1, Constants
    <2> QED
      BY <1>2, <1>3, <2>1, <2>2 DEF IdleWaits
  <1>8. \A t \in Task : sched.notify[t] # "WAITING" /\ sched.item[t] # 0
    <2> TAKE t \in Task
    <2>1. program.prio[t] \in Priority
      BY <1>2
    <2>2. configMAX_PRIORITIES - program.prio[t] # 0
      BY <2>1, Constants
    <2> QED
      BY <1>1, <2>2 DEF Starts
  <1>9. Settled(sched) /\ Awake(sched, sched.current)
    BY <1>1, <1>3 DEF Settled, Starts
  <1> QED
    BY <1>1, <1>4, <1>5, <1>6, <1>7, <1>8, <1>9 DEF Core, Lists

LEMMA KernelStarts ==
    ASSUME KernelInit
    PROVE  KInv
  <1>1. TasksInit
    BY DEF KernelInit
  <1>2. /\ Core(sched) /\ Settled(sched) /\ Awake(sched, sched.current)
        /\ \A t \in Task : sched.notify[t] # "WAITING" /\ sched.item[t] # 0
    BY <1>1, CoreStarts
  <1>3. /\ program \in Programs /\ call = [t \in Task |-> Run] /\ sched.nesting = 0
        /\ lastWake \in [Task -> Time]
    BY <1>1, StartsWell, TasksAssumption DEF Starts, Time
  <1>4. CallsFit
    <2>1. \A t \in Task : Fits(t, Run, sched)
      <3> TAKE t \in Task
      <3>1. "pc" \in DOMAIN Run /\ Run.pc = "run"
        BY DEF Run
      <3> QED
        BY <1>2, <1>3, <3>1, RunFits
    <2> QED
      BY <1>3, <2>1 DEF CallsFit
  <1>5. SemaphoresTyped
    <2>1. SemaphoresInit
      BY DEF KernelInit
    <2>2. queueUNLOCKED \in Int
      BY DEF queueUNLOCKED
    <2> DEFINE R == [count : Int, holder : Task \cup {Nobody}, calls : Int, lock : Int, inSet : BOOLEAN]
               f(q) == [count |-> IF IsMutex(q) THEN 1 ELSE 0, holder |-> Nobody,
                        calls |-> 0, lock |-> queueUNLOCKED, inSet |-> q \in Member]
    <2>3. ASSUME NEW q \in Semaphore PROVE f(q) \in R
      <3> DEFINE n == IF IsMutex(q) THEN 1 ELSE 0
                 b == q \in Member
      <3>1. n \in Int
        OBVIOUS
      <3>2. b \in BOOLEAN
        OBVIOUS
      <3> HIDE DEF n, b
      <3>3. [count |-> n, holder |-> Nobody, calls |-> 0, lock |-> queueUNLOCKED, inSet |-> b] \in R
        BY <2>2, <3>1, <3>2
      <3> QED
        BY <3>3 DEF n, b
    <2>4. semaphore = [q \in Semaphore |-> f(q)]
      BY <2>1 DEF SemaphoresInit
    <2> HIDE DEF f, R
    <2>5. semaphore \in [Semaphore -> R]
      BY <2>3, <2>4
    <2> QED
      BY <2>5 DEF SemaphoresTyped, R
  <1>6. StreamTyped
    BY DEF KernelInit, StreamBufferInit, Fresh, StreamTyped
  <1>7. TimersTyped /\ timers.overflow = {} /\ call[Daemon].pc = "run"
    <2>1. TimersInit
      BY DEF KernelInit
    <2>2. 0 \in Time /\ \A x \in Timer : program.timers[x].period \in Time \ {0}
      BY <1>3, KernelAssumption, TimeIsInt DEF Time
    <2>6. program.commands \in Seq(DaemonTaskMessage)
      BY <1>3, CommandsTyped
    <2>3. queueUNLOCKED \in Int
      BY DEF queueUNLOCKED
    <2>4. timers.overflow = {} /\ call[Daemon].pc = "run"
      BY <1>3, <2>1, Constants DEF TimersInit, Run
    <2>5. TimersTyped
      BY <2>1, <2>2, <2>3, <2>6 DEF TimersInit, TimersTyped
    <2> QED
      BY <2>4, <2>5
  <1>8. TimerLists
    BY <1>7 DEF TimerLists
  <1> QED
    BY <1>2, <1>3, <1>4, <1>5, <1>6, <1>7, <1>8 DEF KInv

-----------------------------------------------------------------------------
(***************************************************************************)
(* A task is in one list.                                                  *)
(***************************************************************************)
LEMMA AtMostOne ==
    ASSUME NEW S, \A x, y \in S : x = y
    PROVE  Cardinality(S) \in 0 .. 1 /\ (S = {} => Cardinality(S) = 0)
  <1>1. CASE S = {}
    BY <1>1, FS_EmptySet
  <1>2. CASE S # {}
    <2>1. PICK x \in S : TRUE
      BY <1>2
    <2>2. S = {x}
      BY <2>1
    <2> QED
      BY <1>2, <2>2, FS_Singleton
  <1> QED
    BY <1>1, <1>2

LEMMA OneStateList ==
    ASSUME NEW s, Core(s), NEW t \in Task
    PROVE  Cardinality({p \in Priority : t \in s.ready[p]})
           + Cardinality({l \in {s.delayed, s.overflow, s.suspended, s.terminating} : t \in l}) <= 1
  <1> DEFINE A == {p \in Priority : t \in s.ready[p]}
             B == {l \in {s.delayed, s.overflow, s.suspended, s.terminating} : t \in l}
  <1>1. StateLists(s)
    BY CoreParts
  <1>2. \A p, q \in A : p = q
    BY <1>1 DEF StateLists
  <1>3. \A k, l \in B : k = l
    BY <1>1 DEF StateLists, Blocked
  <1>4. A = {} \/ B = {}
    BY <1>1 DEF StateLists, Blocked
  <1> HIDE DEF A, B
  <1>5. Cardinality(A) \in 0 .. 1 /\ (A = {} => Cardinality(A) = 0)
    BY <1>2, AtMostOne
  <1>6. Cardinality(B) \in 0 .. 1 /\ (B = {} => Cardinality(B) = 0)
    BY <1>3, AtMostOne
  <1>7. Cardinality(A) + Cardinality(B) <= 1
    BY <1>4, <1>5, <1>6
  <1> QED
    BY <1>7 DEF A, B

LEMMA OneEventList ==
    ASSUME NEW s, Core(s), NEW t \in Task
    PROVE  Cardinality({l \in EventList : t \in Range(s.events[l])})
           + Cardinality({i \in DOMAIN s.pending : s.pending[i] = t}) <= 1
  <1> DEFINE A == {l \in EventList : t \in Range(s.events[l])}
             B == {i \in DOMAIN s.pending : s.pending[i] = t}
  <1>1. EventLists(s, {}) /\ s.pending \in Seq(Task)
    BY CoreParts
  <1>2. \A k, l \in A : k = l
    BY <1>1 DEF EventLists
  <1>3. \A i, j \in B : i = j
    BY <1>1 DEF EventLists, IsInjective
  <1>4. B # {} => t \in Range(s.pending)
    BY DEF Range
  <1>5. A = {} \/ t \notin Range(s.pending)
    BY <1>1 DEF EventLists
  <1>6. A = {} \/ B = {}
    BY <1>4, <1>5
  <1> HIDE DEF A, B
  <1>7. Cardinality(A) \in 0 .. 1 /\ (A = {} => Cardinality(A) = 0)
    BY <1>2, AtMostOne
  <1>8. Cardinality(B) \in 0 .. 1 /\ (B = {} => Cardinality(B) = 0)
    BY <1>3, AtMostOne
  <1>9. Cardinality(A) + Cardinality(B) <= 1
    BY <1>6, <1>7, <1>8
  <1> QED
    BY <1>9 DEF A, B

LEMMA ListsAgreeThen ==
    ASSUME KInv
    PROVE  ListsAgree
  <1>1. Core(sched) /\ Settled(sched)
    BY DEF KInv
  <1>2. StateLists(sched) /\ Times(sched)
    BY <1>1, CoreParts
  <1> QED
    BY <1>1, <1>2, OneStateList, OneEventList DEF ListsAgree, StateLists, Settled, Times

(***************************************************************************)
(* Whatever the program does, and whichever objects its tasks wait at, a   *)
(* task is in one list of state items and in at most one list of event     *)
(* items; ready ones are in the list of their priority; pended ticks and   *)
(* the pending ready list are empty unless the scheduler is suspended;     *)
(* every wake time is on the right side of the wrap, and the next one is   *)
(* not overlooked.                                                         *)
(***************************************************************************)
THEOREM KernelListsAgree == Spec => []ListsAgree
  <1>1. KernelInit => KInv
    BY KernelStarts
  <1>2. KInv /\ [KernelNext]_kernelVars => KInv'
    BY KernelStep
  <1>3. KInv => ListsAgree
    BY ListsAgreeThen
  <1> QED
    BY <1>1, <1>2, <1>3, PTL DEF Spec
=============================================================================
