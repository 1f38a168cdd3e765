--------------------------- MODULE SchedulerProofs ---------------------------
(***************************************************************************)
(* What every operation of the scheduler and of the objects that tasks     *)
(* wait at does to the scheduler's lists: for all tasks, priorities,       *)
(* event lists and widths of the tick count.                               *)
(***************************************************************************)
EXTENDS Kernel, FiniteSetTheorems, SequenceTheorems, TLAPS
(***************************************************************************)
(* The scheduler's part of the invariant.  Core relates the lists to each  *)
(* other, to the tasks' times and to the tick; it holds between any two    *)
(* steps of the scheduler, suspended or not.  Settled is what only         *)
(* xTaskResumeAll restores: nothing is pended unless it is suspended.      *)
(***************************************************************************)
Time == 0 .. portMAX_DELAY

Blocked(s) == s.delayed \cup s.overflow \cup s.suspended

Awake(s, t) == t \in s.ready[s.prio[t]]

Fields == {"ready", "delayed", "overflow", "suspended", "terminating", "pending", "events",
           "wake", "item", "flags", "prio", "base", "held", "notify", "value", "current",
           "nesting", "pended", "yield", "top", "tick", "overflows", "next"}

Types(s) ==
    /\ DOMAIN s = Fields
    /\ s.ready \in [Priority -> SUBSET Task]
    /\ s.delayed \subseteq Task /\ s.overflow \subseteq Task
    /\ s.suspended \subseteq Task /\ s.terminating \subseteq Task
    /\ s.pending \in Seq(Task) /\ s.events \in [EventList -> Seq(Task)]
    /\ s.wake \in [Task -> Time] /\ s.item \in [Task -> 0 .. configMAX_PRIORITIES]
    /\ s.prio \in [Task -> Priority] /\ s.base \in [Task -> Priority]
    /\ s.notify \in [Task -> {"NOT_WAITING", "WAITING", "RECEIVED"}]
    /\ s.current \in Task /\ s.nesting \in Nat /\ s.pended \in Nat
    /\ s.top \in Priority /\ s.tick \in Time /\ s.next \in Time /\ s.overflows \in Nat

StateLists(s) ==
    /\ \A p \in Priority : \A t \in s.ready[p] :
         s.prio[t] = p /\ t \notin Blocked(s) /\ t \notin s.terminating
    /\ s.delayed \cap s.overflow = {}
    /\ (s.delayed \cup s.overflow) \cap s.suspended = {}
    /\ Blocked(s) \cap s.terminating = {}

\* Tasks in ts are between two lists.
EventLists(s, ts) ==
    /\ \A l \in EventList : IsInjective(s.events[l])
    /\ \A l, m \in EventList : l # m => Range(s.events[l]) \cap Range(s.events[m]) = {}
    /\ \A l \in EventList : \A t \in Range(s.events[l]) :
         t \in Blocked(s) \cup ts /\ t \notin Range(s.pending) /\ s.notify[t] # "WAITING"
    /\ \A q \in Semaphore : \A t \in Range(s.events[q]) : s.item[t] > 0
    /\ IsInjective(s.pending)
    /\ \A t \in Range(s.pending) : s.notify[t] # "WAITING"
    /\ Awake(s, s.current) => s.current \notin Range(s.pending)

\* The tick has not passed a wake time: the count wraps, so those of the
\* overflow list are behind it (prvAddCurrentTaskToDelayedList).
Times(s) ==
    /\ \A t \in s.delayed : s.wake[t] > s.tick /\ s.next <= s.wake[t]
    /\ \A t \in s.overflow : s.wake[t] < s.tick
    /\ s.next >= s.tick

\* vTaskSwitchContext finds a task to run: the idle task never blocks.
IdleWaits(s) == Awake(s, Idle) /\ s.prio[Idle] <= s.top

Lists(s, ts) == Types(s) /\ StateLists(s) /\ EventLists(s, ts) /\ IdleWaits(s)

Core(s) == Lists(s, {}) /\ Times(s)

Settled(s) == s.nesting = 0 => s.pending = << >> /\ s.pended = 0

-----------------------------------------------------------------------------
(***************************************************************************)
(* Lists.                                                                  *)
(***************************************************************************)

LEMMA LeastExists ==
    ASSUME NEW T \in SUBSET Nat, T # {}
    PROVE  Min(T) \in T /\ \A y \in T : Min(T) <= y
  <1> DEFINE R == OpToRel(<, Nat)
  <1>1. IsWellFoundedOn(R, Nat)
    BY NatLessThanWellFounded
  <1>2. \A x, y \in Nat : x < y => <<x, y>> \in R
    BY DEF OpToRel
  <1> HIDE DEF R
  <1>3. PICK x \in T : \A y \in T : ~ (<<y, x>> \in R)
    BY <1>1, WFMin
  <1>4. ASSUME NEW y \in T PROVE x <= y
    <2>1. x \in Nat /\ y \in Nat /\ ~ (y < x)
      BY <1>2, <1>3
    <2> QED
      BY <2>1
  <1>5. \E z \in T : \A y \in T : z <= y
    BY <1>4
  <1> QED
    BY <1>5 DEF Min

\* What holds of 0 and of each number after one it holds of.
LEMMA UpTo ==
    ASSUME NEW n \in Nat, NEW P \in SUBSET (0 .. n), 0 \in P,
           \A i \in 1 .. n : i - 1 \in P => i \in P
    PROVE  P = 0 .. n
  <1> DEFINE T == (0 .. n) \ P
  <1>1. SUFFICES ASSUME T # {} PROVE FALSE
    OBVIOUS
  <1>2. T \in SUBSET Nat
    OBVIOUS
  <1>3. Min(T) \in T /\ \A y \in T : Min(T) <= y
    BY <1>1, <1>2, LeastExists
  <1> DEFINE k == Min(T)
  <1>4. k \in 0 .. n /\ k \notin P /\ \A y \in 0 .. n : y \notin P => k <= y
    BY <1>3
  <1> HIDE DEF T, k
  <1>5. k # 0
    BY <1>4
  <1>6. k - 1 \in 0 .. n /\ ~ (k <= k - 1)
    BY <1>4, <1>5
  <1>7. k - 1 \in P
    BY <1>4, <1>6
  <1>8. k \in 1 .. n
    BY <1>4, <1>5
  <1> QED
    BY <1>4, <1>7, <1>8

LEMMA InList ==
    ASSUME NEW S, NEW l \in Seq(S)
    PROVE  /\ Len(l) \in Nat /\ DOMAIN l = 1 .. Len(l)
           /\ Range(l) \subseteq S
           /\ \A t : t \in Range(l) <=> \E i \in 1 .. Len(l) : l[i] = t
           /\ l = << >> <=> Len(l) = 0
           /\ l = << >> <=> Range(l) = {}
  <1>1. Len(l) \in Nat /\ DOMAIN l = 1 .. Len(l)
    BY LenProperties
  <1>2. \A i \in 1 .. Len(l) : l[i] \in S
    BY ElementOfSeq
  <1>3. l = << >> <=> Len(l) = 0
    BY EmptySeq, <1>1
  <1>4. \A t : t \in Range(l) <=> \E i \in 1 .. Len(l) : l[i] = t
    BY <1>1 DEF Range
  <1>5. Len(l) # 0 => l[1] \in Range(l)
    BY <1>1, <1>4
  <1>6. Len(l) = 0 => Range(l) = {}
    BY <1>1, <1>4
  <1> QED
    BY <1>1, <1>2, <1>3, <1>4, <1>5, <1>6

LEMMA Empty ==
    << >> \in Seq(Task) /\ IsInjective(<< >>) /\ Range(<< >>) = {}
  <1>1. << >> \in Seq(Task) /\ Len(<< >>) = 0
    BY EmptySeq
  <1>2. DOMAIN << >> = {} /\ Range(<< >>) = {}
    <2>1. DOMAIN << >> = 1 .. Len(<< >>) /\ \A t : t \in Range(<< >>) <=> \E i \in 1 .. Len(<< >>) : << >>[i] = t
      BY <1>1, InList
    <2> QED
      BY <1>1, <2>1
  <1> QED
    BY <1>1, <1>2 DEF IsInjective

LEMMA Appended ==
    ASSUME NEW l \in Seq(Task), NEW t \in Task
    PROVE  /\ Append(l, t) \in Seq(Task) /\ Append(l, t) # << >>
           /\ Range(Append(l, t)) = Range(l) \cup {t}
           /\ IsInjective(l) /\ t \notin Range(l) => IsInjective(Append(l, t))
  <1> DEFINE a == Append(l, t)
  <1>1. /\ a \in Seq(Task) /\ Len(a) = Len(l) + 1 /\ a[Len(l) + 1] = t
        /\ \A i \in 1 .. Len(l) : a[i] = l[i]
    BY AppendProperties
  <1>2. Len(l) \in Nat /\ DOMAIN l = 1 .. Len(l) /\ \A u : u \in Range(l) <=> \E i \in 1 .. Len(l) : l[i] = u
    BY InList
  <1>3. DOMAIN a = 1 .. Len(a) /\ \A u : u \in Range(a) <=> \E i \in 1 .. Len(a) : a[i] = u
    BY <1>1, InList
  <1>4. \A u : u \in Range(a) <=> u \in Range(l) \/ u = t
    BY <1>1, <1>2, <1>3
  <1>5. ASSUME IsInjective(l), t \notin Range(l) PROVE IsInjective(a)
    <2>1. SUFFICES ASSUME NEW i \in 1 .. Len(l) + 1, NEW j \in 1 .. Len(l) + 1, a[i] = a[j] PROVE i = j
      BY <1>1, <1>3 DEF IsInjective
    <2> HIDE DEF a
    <2>2. \A k \in 1 .. Len(l) : a[k] # t
      BY <1>1, <1>2, <1>5
    <2>3. CASE i \in 1 .. Len(l) /\ j \in 1 .. Len(l)
      BY <2>1, <2>3, <1>1, <1>2, <1>5 DEF IsInjective
    <2>4. CASE i = Len(l) + 1 \/ j = Len(l) + 1
      BY <2>1, <2>2, <2>4, <1>1, <1>2
    <2> QED
      BY <2>3, <2>4, <1>2
  <1>6. a # << >>
    BY <1>1, <1>2, EmptySeq
  <1> QED
    BY <1>1, <1>4, <1>5, <1>6

LEMMA Tailed ==
    ASSUME NEW l \in Seq(Task), l # << >>
    PROVE  /\ Tail(l) \in Seq(Task) /\ Head(l) \in Range(l) /\ Head(l) \in Task
           /\ Len(Tail(l)) = Len(l) - 1
           /\ Range(Tail(l)) \subseteq Range(l)
           /\ IsInjective(l) => /\ IsInjective(Tail(l))
                                /\ Range(Tail(l)) = Range(l) \ {Head(l)}
  <1>1. Len(l) \in Nat \ {0} /\ DOMAIN l = 1 .. Len(l) /\ Range(l) \subseteq Task
        /\ \A u : u \in Range(l) <=> \E i \in 1 .. Len(l) : l[i] = u
    BY InList
  <1>2. /\ Head(l) = l[1] /\ Tail(l) \in Seq(Task) /\ Len(Tail(l)) = Len(l) - 1
        /\ \A i \in 1 .. Len(Tail(l)) : Tail(l)[i] = l[i + 1]
    BY HeadTailProperties
  <1>3. DOMAIN Tail(l) = 1 .. Len(l) - 1
        /\ \A u : u \in Range(Tail(l)) <=> \E i \in 1 .. Len(l) - 1 : Tail(l)[i] = u
    BY <1>2, InList
  <1> DEFINE m == Tail(l)
  <1>4. \A i \in 1 .. Len(l) - 1 : m[i] = l[i + 1] /\ i + 1 \in 1 .. Len(l) /\ i + 1 # 1
    BY <1>1, <1>2
  <1> HIDE DEF m
  <1>5. \A u : u \in Range(m) <=> \E i \in 1 .. Len(l) - 1 : l[i + 1] = u
    BY <1>3, <1>4 DEF m
  <1>6. Range(m) \subseteq Range(l)
    BY <1>1, <1>4, <1>5
  <1>7. ASSUME IsInjective(l) PROVE IsInjective(m) /\ Range(m) = Range(l) \ {l[1]}
    <2>1. \A i, j \in 1 .. Len(l) : l[i] = l[j] => i = j
      BY <1>1, <1>7 DEF IsInjective
    <2>2. IsInjective(m)
      <3>1. SUFFICES ASSUME NEW i \in 1 .. Len(l) - 1, NEW j \in 1 .. Len(l) - 1, m[i] = m[j] PROVE i = j
        BY <1>3 DEF IsInjective, m
      <3>2. i + 1 = j + 1
        BY <2>1, <3>1, <1>4
      <3> QED
        BY <3>2
    <2>3. l[1] \notin Range(m)
      <3>1. ASSUME NEW i \in 1 .. Len(l) - 1, l[i + 1] = l[1] PROVE FALSE
        <4>1. i + 1 = 1
          BY <2>1, <3>1, <1>1, <1>4
        <4> QED
          BY <4>1, <1>4
      <3> QED
        BY <1>5, <3>1
    <2>4. \A u \in Range(l) : u # l[1] => u \in Range(m)
      <3>1. ASSUME NEW i \in 1 .. Len(l), l[i] # l[1] PROVE l[i] \in Range(m)
        <4>1. i # 1 /\ i - 1 \in 1 .. Len(l) - 1 /\ (i - 1) + 1 = i
          BY <3>1, <1>1
        <4> QED
          BY <4>1, <1>5
      <3> QED
        BY <3>1, <1>1
    <2> QED
      BY <2>2, <2>3, <2>4, <1>6
  <1>8. l[1] \in Range(l)
    BY <1>1
  <1> QED
    BY <1>1, <1>2, <1>6, <1>7, <1>8 DEF m

(***************************************************************************)
(* Others is defined by recursion.  That the recursive function exists is  *)
(* shown for ever longer lists.                                            *)
(***************************************************************************)
Leaves(list, ts, left, m) ==
    left = [i \in 0 .. m |-> IF i = 0 THEN << >>
                             ELSE IF list[i] \in ts THEN left[i - 1] ELSE Append(left[i - 1], list[i])]

LEMMA LeavesExists ==
    ASSUME NEW list, NEW ts, NEW n \in Nat
    PROVE  \E left : Leaves(list, ts, left, n)
  <1> DEFINE P == {m \in 0 .. n : \E left : Leaves(list, ts, left, m)}
  <1>1. 0 \in P
    <2> DEFINE g == [i \in 0 .. 0 |-> << >>]
    <2>1. g = [i \in 0 .. 0 |-> IF i = 0 THEN << >>
                                ELSE IF list[i] \in ts THEN g[i - 1] ELSE Append(g[i - 1], list[i])]
      OBVIOUS
    <2> HIDE DEF g
    <2> QED
      BY <2>1 DEF Leaves
  <1>2. ASSUME NEW m \in 1 .. n, m - 1 \in P PROVE m \in P
    <2>1. PICK g : Leaves(list, ts, g, m - 1)
      BY <1>2
    <2>2. g = [i \in 0 .. m - 1 |-> IF i = 0 THEN << >>
                                    ELSE IF list[i] \in ts THEN g[i - 1] ELSE Append(g[i - 1], list[i])]
      BY <2>1 DEF Leaves
    <2> DEFINE last == IF list[m] \in ts THEN g[m - 1] ELSE Append(g[m - 1], list[m])
               h == [i \in 0 .. m |-> IF i = m THEN last ELSE g[i]]
    <2> HIDE DEF last
    <2>3. \A i \in 0 .. m : h[i] = IF i = 0 THEN << >>
                                   ELSE IF list[i] \in ts THEN h[i - 1] ELSE Append(h[i - 1], list[i])
      <3> TAKE i \in 0 .. m
      <3>1. CASE i = m
        <4>1. h[i] = last /\ h[i - 1] = g[m - 1]
          BY <3>1
        <4> QED
          BY <4>1, <3>1 DEF last
      <3>2. CASE i < m
        <4>1. h[i] = g[i] /\ i \in 0 .. m - 1
          BY <3>2
        <4>2. i # 0 => h[i - 1] = g[i - 1]
          BY <3>2
        <4> QED
          BY <4>1, <4>2, <2>2
      <3> QED
        BY <3>1, <3>2
    <2>4. h = [i \in 0 .. m |-> h[i]]
      OBVIOUS
    <2> HIDE DEF h
    <2>5. h = [i \in 0 .. m |-> IF i = 0 THEN << >>
                                ELSE IF list[i] \in ts THEN h[i - 1] ELSE Append(h[i - 1], list[i])]
      BY <2>3, <2>4
    <2>6. Leaves(list, ts, h, m)
      BY <2>5 DEF Leaves
    <2>7. m \in 0 .. n
      OBVIOUS
    <2> QED
      BY <2>6, <2>7
  <1> HIDE DEF P
  <1>3. P = 0 .. n
    BY <1>1, <1>2, UpTo DEF P
  <1> QED
    BY <1>3 DEF P

LEMMA OthersList ==
    ASSUME NEW l \in Seq(Task), NEW ts
    PROVE  /\ Others(l, ts) \in Seq(Task) /\ Range(Others(l, ts)) = Range(l) \ ts
           /\ IsInjective(l) => IsInjective(Others(l, ts))
  <1>1. Len(l) \in Nat /\ DOMAIN l = 1 .. Len(l) /\ \A u : u \in Range(l) <=> \E i \in 1 .. Len(l) : l[i] = u
    BY InList
  <1> DEFINE left == CHOOSE f : Leaves(l, ts, f, Len(l))
  <1>2. Others(l, ts) = left[Len(l)]
    BY DEF Others, Leaves
  <1>3. Leaves(l, ts, left, Len(l))
    BY <1>1, LeavesExists
  <1> HIDE DEF left
  <1>4. left[0] = << >> /\ \A i \in 1 .. Len(l) :
          left[i] = IF l[i] \in ts THEN left[i - 1] ELSE Append(left[i - 1], l[i])
    <2>1. \A i \in 0 .. Len(l) :
            left[i] = IF i = 0 THEN << >>
                      ELSE IF l[i] \in ts THEN left[i - 1] ELSE Append(left[i - 1], l[i])
      BY <1>1, <1>3 DEF Leaves
    <2>2. 0 \in 0 .. Len(l) /\ \A i \in 1 .. Len(l) : i \in 0 .. Len(l) /\ i # 0
      BY <1>1
    <2> QED
      BY <2>1, <2>2
  <1> DEFINE Good(i) == /\ left[i] \in Seq(Task)
                        /\ \A u : u \in Range(left[i]) <=> u \notin ts /\ \E j \in 1 .. i : l[j] = u
                        /\ IsInjective(l) => IsInjective(left[i])
             P == {i \in 0 .. Len(l) : Good(i)}
  <1>5. 0 \in P
    <2>1. Good(0)
      BY <1>4, Empty
    <2> QED
      BY <2>1, <1>1
  <1>6. ASSUME NEW i \in 1 .. Len(l), i - 1 \in P PROVE i \in P
    <2>1. Good(i - 1) /\ l[i] \in Task
      BY <1>6, ElementOfSeq, <1>1
    <2>2. \A u : (\E j \in 1 .. i : l[j] = u) <=> (l[i] = u \/ \E j \in 1 .. i - 1 : l[j] = u)
      BY <1>1
    <2>3. CASE l[i] \in ts
      <3>1. left[i] = left[i - 1]
        BY <2>3, <1>4
      <3> QED
        BY <3>1, <2>1, <2>2, <2>3
    <2>4. CASE l[i] \notin ts
      <3>1. left[i] = Append(left[i - 1], l[i])
        BY <2>4, <1>4
      <3>2. IsInjective(l) => l[i] \notin Range(left[i - 1])
        <4>1. \A j \in 1 .. i - 1 : j \in 1 .. Len(l) /\ j # i
          BY <1>1
        <4>2. IsInjective(l) => \A j \in 1 .. i - 1 : l[j] # l[i]
          BY <4>1, <1>1 DEF IsInjective
        <4> QED
          BY <4>2, <2>1
      <3>3. /\ left[i] \in Seq(Task) /\ Range(left[i]) = Range(left[i - 1]) \cup {l[i]}
            /\ IsInjective(l) => IsInjective(left[i])
        BY <3>1, <3>2, <2>1, Appended
      <3> HIDE DEF P
      <3> QED
        BY <3>3, <2>1, <2>2, <2>4 DEF P
    <2> QED
      BY <2>3, <2>4
  <1> HIDE DEF P
  <1>7. P = 0 .. Len(l)
    BY <1>1, <1>5, <1>6, UpTo DEF P
  <1>8. Good(Len(l))
    <2>1. Len(l) \in P
      BY <1>1, <1>7
    <2> HIDE DEF Good
    <2> QED
      BY <2>1 DEF P
  <1>9. \A u : u \in Range(left[Len(l)]) <=> u \in Range(l) \ ts
    BY <1>1, <1>8
  <1> QED
    BY <1>2, <1>8, <1>9

LEMMA InsertedList ==
    ASSUME NEW l \in Seq(Task), NEW t \in Task, NEW k \in 1 .. Len(l) + 1
    PROVE  /\ InsertAt(l, k, t) \in Seq(Task)
           /\ Range(InsertAt(l, k, t)) = Range(l) \cup {t}
           /\ IsInjective(l) /\ t \notin Range(l) => IsInjective(InsertAt(l, k, t))
  <1>1. Len(l) \in Nat /\ DOMAIN l = 1 .. Len(l) /\ \A u : u \in Range(l) <=> \E i \in 1 .. Len(l) : l[i] = u
    BY InList
  <1> DEFINE a == SubSeq(l, 1, k - 1)
             b == SubSeq(l, k, Len(l))
             m == InsertAt(l, k, t)
  <1>2. /\ a \in Seq(Task) /\ Len(a) = k - 1 /\ \A i \in 1 .. k - 1 : a[i] = l[i]
    <2>1. 1 \in 1 .. Len(l) + 1 /\ k - 1 \in 1 - 1 .. Len(l)
      BY <1>1
    <2>2. /\ a \in Seq(Task) /\ Len(a) = IF 1 <= k - 1 THEN k - 1 - 1 + 1 ELSE 0
          /\ \A i \in 1 .. k - 1 - 1 + 1 : a[i] = l[1 + i - 1]
      BY <2>1, SubSeqProperties
    <2> QED
      BY <2>2, <1>1
  <1>3. /\ b \in Seq(Task) /\ Len(b) = Len(l) - k + 1 /\ \A i \in 1 .. Len(l) - k + 1 : b[i] = l[k + i - 1]
    <2>1. k \in 1 .. Len(l) + 1 /\ Len(l) \in k - 1 .. Len(l)
      BY <1>1
    <2>2. /\ b \in Seq(Task) /\ Len(b) = IF k <= Len(l) THEN Len(l) - k + 1 ELSE 0
          /\ \A i \in 1 .. Len(l) - k + 1 : b[i] = l[k + i - 1]
      BY <2>1, SubSeqProperties
    <2> QED
      BY <2>2, <1>1
  <1>4. /\ m \in Seq(Task) /\ Len(m) = Len(l) + 1 /\ m[k] = t
        /\ \A i \in 1 .. k - 1 : m[i] = l[i]
        /\ \A i \in k + 1 .. Len(l) + 1 : m[i] = l[i - 1]
    <2> DEFINE c == a \o <<t>>
    <2>1. <<t>> \in Seq(Task) /\ Len(<<t>>) = 1 /\ <<t>>[1] = t
      OBVIOUS
    <2> HIDE DEF a, b
    <2>2. /\ c \in Seq(Task) /\ Len(c) = k
          /\ \A i \in 1 .. k : c[i] = IF i < k THEN a[i] ELSE t
      BY <2>1, <1>1, <1>2
    <2> HIDE DEF c
    <2>3. /\ c \o b \in Seq(Task) /\ Len(c \o b) = Len(l) + 1
          /\ \A i \in 1 .. Len(l) + 1 : (c \o b)[i] = IF i <= k THEN c[i] ELSE b[i - k]
      <3>1. /\ c \o b \in Seq(Task) /\ Len(c \o b) = Len(c) + Len(b)
            /\ \A i \in 1 .. Len(c) + Len(b) : (c \o b)[i] = IF i <= Len(c) THEN c[i] ELSE b[i - Len(c)]
        BY <2>2, <1>3, ConcatProperties
      <3>2. Len(c) + Len(b) = Len(l) + 1
        BY <2>2, <1>1, <1>3
      <3> QED
        BY <3>1, <3>2, <2>2
    <2>4. m = c \o b
      BY DEF InsertAt, a, b, c
    <2> HIDE DEF m
    <2>5. \A i \in k + 1 .. Len(l) + 1 : i - k \in 1 .. Len(l) - k + 1 /\ k + (i - k) - 1 = i - 1
      BY <1>1
    <2>6. \A i \in 1 .. Len(l) + 1 : m[i] = IF i <= k THEN c[i] ELSE b[i - k]
      BY <2>3, <2>4
    <2>7. m[k] = t
      <3>1. m[k] = c[k]
        BY <2>6, <1>1
      <3> QED
        BY <3>1, <2>2
    <2>8. ASSUME NEW i \in 1 .. k - 1 PROVE m[i] = l[i]
      <3>1. i \in 1 .. Len(l) + 1 /\ i <= k /\ i \in 1 .. k /\ i < k
        BY <1>1
      <3> QED
        BY <3>1, <2>2, <2>6, <1>2
    <2>9. ASSUME NEW i \in k + 1 .. Len(l) + 1 PROVE m[i] = l[i - 1]
      <3>1. i \in 1 .. Len(l) + 1 /\ ~ (i <= k)
        BY <1>1
      <3>2. m[i] = b[i - k] /\ b[i - k] = l[k + (i - k) - 1]
        BY <3>1, <2>5, <2>6, <1>3
      <3> QED
        BY <3>2, <2>5
    <2> QED
      BY <2>3, <2>4, <2>7, <2>8, <2>9
  <1> HIDE DEF m, a, b
  <1>5. DOMAIN m = 1 .. Len(l) + 1 /\ \A u : u \in Range(m) <=> \E i \in 1 .. Len(l) + 1 : m[i] = u
    BY <1>4, InList
  <1> DEFINE Was(i) == IF i < k THEN i ELSE i - 1
  <1>6. \A i \in 1 .. Len(l) + 1 : i # k => Was(i) \in 1 .. Len(l) /\ m[i] = l[Was(i)]
    BY <1>1, <1>4
  <1>7. \A j \in 1 .. Len(l) : \E i \in 1 .. Len(l) + 1 : i # k /\ m[i] = l[j]
    <2> TAKE j \in 1 .. Len(l)
    <2>1. CASE j < k
      BY <2>1, <1>1, <1>4
    <2>2. CASE j >= k
      <3>1. j + 1 \in k + 1 .. Len(l) + 1 /\ j + 1 # k /\ j + 1 \in 1 .. Len(l) + 1 /\ (j + 1) - 1 = j
        BY <2>2, <1>1
      <3> QED
        BY <3>1, <1>4
    <2> QED
      BY <2>1, <2>2, <1>1
  <1>8. \A i, j \in 1 .. Len(l) + 1 : i # k /\ j # k /\ Was(i) = Was(j) => i = j
    BY <1>1
  <1> HIDE DEF Was
  <1>9. \A u : u \in Range(m) <=> u \in Range(l) \/ u = t
    BY <1>1, <1>4, <1>5, <1>6, <1>7
  <1>10. ASSUME IsInjective(l), t \notin Range(l) PROVE IsInjective(m)
    <2>1. SUFFICES ASSUME NEW i \in 1 .. Len(l) + 1, NEW j \in 1 .. Len(l) + 1, m[i] = m[j] PROVE i = j
      BY <1>5 DEF IsInjective
    <2>2. \A n \in 1 .. Len(l) + 1 : n # k => m[n] # t
      BY <1>1, <1>6, <1>10
    <2>3. CASE i = k \/ j = k
      BY <2>1, <2>2, <2>3, <1>4
    <2>4. CASE i # k /\ j # k
      BY <2>1, <2>4, <1>1, <1>6, <1>8, <1>10 DEF IsInjective
    <2> QED
      BY <2>3, <2>4
  <1> QED
    BY <1>4, <1>9, <1>10 DEF m

LEMMA InsertedByItem ==
    ASSUME NEW s, NEW l \in Seq(Task), NEW t \in Task
    PROVE  /\ InsertByItem(s, l, t) \in Seq(Task)
           /\ Range(InsertByItem(s, l, t)) = Range(l) \cup {t}
           /\ IsInjective(l) /\ t \notin Range(l) => IsInjective(InsertByItem(s, l, t))
  <1> DEFINE later == {i \in DOMAIN l : s.item[l[i]] > s.item[t]}
             k == IF later = {} THEN Len(l) + 1 ELSE Min(later)
  <1>1. Len(l) \in Nat /\ DOMAIN l = 1 .. Len(l)
    BY InList
  <1>2. k \in 1 .. Len(l) + 1
    <2>1. CASE later = {}
      BY <2>1, <1>1
    <2>2. CASE later # {}
      <3>1. later \in SUBSET (1 .. Len(l)) /\ later \in SUBSET Nat
        BY <1>1
      <3> HIDE DEF later
      <3>2. Min(later) \in later
        BY <2>2, <3>1, LeastExists
      <3>3. Min(later) \in 1 .. Len(l)
        BY <3>1, <3>2
      <3> QED
        BY <2>2, <3>3, <1>1
    <2> QED
      BY <2>1, <2>2
  <1>3. InsertByItem(s, l, t) = InsertAt(l, k, t)
    BY DEF InsertByItem
  <1> HIDE DEF k
  <1> QED
    BY <1>2, <1>3, InsertedList

-----------------------------------------------------------------------------
(***************************************************************************)
(* The operators of the scheduler.  u is s after one of them; what it does *)
(* not name in Same is as in s.                                            *)
(***************************************************************************)
Same(s, u, changed) == DOMAIN u = Fields /\ \A f \in Fields \ changed : u[f] = s[f]

BeginsNoWait(s, u, t) ==
    /\ u.notify[t] = "WAITING" => s.notify[t] = "WAITING"
    /\ u.item[t] = 0 => s.item[t] = 0
    /\ t \in u.delayed \cup u.overflow => t \in s.delayed \cup s.overflow /\ u.wake[t] = s.wake[t]

NobodyWaits(s, u) == \A t \in Task : BeginsNoWait(s, u, t)

\* The current task goes on, if it was not about to give way.
Calm(s, u) ==
    /\ u.current = s.current /\ NobodyWaits(s, u)
    /\ Awake(s, s.current) => Awake(u, u.current)

Benign(s, u) ==
    /\ Calm(s, u) /\ u.nesting = s.nesting /\ (Settled(s) => Settled(u))
    /\ s.nesting > 0 => u.tick = s.tick

\* What the operators on lists of state items change.
StateItems == {"ready", "delayed", "overflow", "suspended", "terminating", "wake", "top", "next"}

LEMMA Constants ==
    /\ portMAX_DELAY \in Nat \ {0} /\ Ticks = portMAX_DELAY + 1 /\ Time = 0 .. portMAX_DELAY
    /\ configMAX_PRIORITIES \in Nat \ {0} /\ Priority = 0 .. configMAX_PRIORITIES - 1
    /\ Idle \in Task /\ Daemon \in Task /\ Idle # Daemon /\ IsFiniteSet(Task)
    /\ TasksWaitingForBits \in EventList /\ xTimerQueue \in EventList /\ Semaphore \subseteq EventList
    /\ TasksWaitingForBits \notin Semaphore
  BY TasksAssumption, SemaphoresAssumption, EventGroupAssumption, TimersAssumption, KernelAssumption
     DEF Priority, Time, Ticks

LEMMA TimeIsInt ==
    0 \in Time /\ portMAX_DELAY \in Time /\ \A n \in Time : n \in Int /\ 0 <= n /\ n <= portMAX_DELAY
  BY Constants

LEMMA Wrapped ==
    ASSUME NEW n \in Int
    PROVE  /\ Wrap(n) \in Time
           /\ n \in Time => Wrap(n) = n
           /\ n \in Ticks .. Ticks + portMAX_DELAY => Wrap(n) = n - Ticks
           /\ n \in -portMAX_DELAY .. -1 => Wrap(n) = n + Ticks
  <1>1. Ticks \in Nat \ {0} /\ portMAX_DELAY = Ticks - 1 /\ Time = 0 .. Ticks - 1
    BY Constants
  <1> HIDE DEF Ticks, Time
  <1>2. n % Ticks \in 0 .. Ticks - 1
    BY <1>1
  <1>3. n \in 0 .. Ticks - 1 => n % Ticks = n
    BY <1>1
  <1>4. n \in Ticks .. Ticks + portMAX_DELAY => n % Ticks = n - Ticks
    BY <1>1
  <1>5. n \in -portMAX_DELAY .. -1 => n % Ticks = n + Ticks
    BY <1>1
  <1> QED
    BY <1>1, <1>2, <1>3, <1>4, <1>5 DEF Wrap

LEMMA CalmTwice ==
    ASSUME NEW s, NEW u, NEW v, Calm(s, u), Calm(u, v)
    PROVE  Calm(s, v)
  BY DEF Calm, NobodyWaits, BeginsNoWait

LEMMA BenignTwice ==
    ASSUME NEW s, NEW u, NEW v, Benign(s, u), Benign(u, v)
    PROVE  Benign(s, v)
  BY CalmTwice DEF Benign

LEMMA BenignOnce ==
    ASSUME NEW s PROVE Benign(s, s)
  BY DEF Benign, Calm, NobodyWaits, BeginsNoWait

\* What the lists do not depend on.
LEMMA Unconcerned ==
    ASSUME NEW s, NEW u, NEW ts, Lists(s, ts),
           Same(s, u, {"yield", "value", "flags", "held", "nesting", "pended", "overflows"}),
           u.nesting \in Nat, u.pended \in Nat, u.overflows \in Nat
    PROVE  Lists(u, ts) /\ (Times(s) => Times(u)) /\ Calm(s, u)
  <1>1. /\ u.ready = s.ready /\ u.delayed = s.delayed /\ u.overflow = s.overflow /\ u.suspended = s.suspended
        /\ u.terminating = s.terminating /\ u.pending = s.pending /\ u.events = s.events /\ u.wake = s.wake
        /\ u.item = s.item /\ u.prio = s.prio /\ u.base = s.base /\ u.notify = s.notify
        /\ u.current = s.current /\ u.top = s.top /\ u.tick = s.tick /\ u.next = s.next /\ DOMAIN u = Fields
    BY DEF Same, Fields
  <1>2. Types(u)
    BY <1>1 DEF Lists, Types
  <1>3. StateLists(u)
    BY <1>1 DEF Lists, StateLists, Blocked
  <1>4. EventLists(u, ts)
    BY <1>1 DEF Lists, EventLists, Blocked, Awake
  <1>5. IdleWaits(u) /\ (Times(s) => Times(u)) /\ Calm(s, u)
    BY <1>1 DEF Lists, IdleWaits, Awake, Times, Calm, NobodyWaits, BeginsNoWait
  <1> QED
    BY <1>2, <1>3, <1>4, <1>5 DEF Lists

LEMMA MostExists ==
    ASSUME NEW n \in Nat, NEW T \in SUBSET (0 .. n), T # {}
    PROVE  Max(T) \in T /\ \A y \in T : y <= Max(T)
  <1> DEFINE N == {n - x : x \in T}
             k == n - Min(N)
  <1>1. N \in SUBSET Nat /\ N # {}
    <2>1. \A x \in T : n - x \in Nat /\ n - x \in N
      OBVIOUS
    <2>2. PICK x \in T : TRUE
      OBVIOUS
    <2> QED
      BY <2>1, <2>2
  <1> HIDE DEF N
  <1>2. Min(N) \in N /\ \A y \in N : Min(N) <= y
    BY <1>1, LeastExists
  <1>3. PICK x \in T : Min(N) = n - x
    BY <1>2 DEF N
  <1>4. k = x
    BY <1>3
  <1>5. ASSUME NEW y \in T PROVE y <= k
    <2>1. n - y \in N
      BY DEF N
    <2>2. n - x <= n - y
      BY <1>2, <1>3, <2>1
    <2> QED
      BY <2>2, <1>4
  <1> HIDE DEF k
  <1>6. \E z \in T : \A y \in T : y <= z
    BY <1>3, <1>4, <1>5
  <1>7. \E z \in T : \A y \in T : z >= y
    BY <1>6
  <1> QED
    BY <1>7 DEF Max

LEMMA UnlistFields ==
    ASSUME NEW s, NEW ts, DOMAIN s = Fields
    PROVE  LET u == Unlist(s, ts)
           IN  /\ Same(s, u, {"ready", "delayed", "overflow", "suspended", "terminating", "wake"})
               /\ u.ready = [p \in Priority |-> s.ready[p] \ ts]
               /\ u.delayed = s.delayed \ ts /\ u.overflow = s.overflow \ ts
               /\ u.suspended = s.suspended \ ts /\ u.terminating = s.terminating \ ts
               /\ u.wake = [t \in Task |-> IF t \in ts THEN 0 ELSE s.wake[t]]
  BY DEF Unlist, Same, Fields

\* The tasks leave the lists of state items.
LEMMA Unlisted ==
    ASSUME NEW s, NEW ts, NEW us, Lists(s, us), Idle \notin ts
    PROVE  /\ Lists(Unlist(s, ts), us \cup ts)
           /\ Times(s) => Times(Unlist(s, ts))
           /\ \A t \in Task : t \notin ts /\ Awake(s, t) => Awake(Unlist(s, ts), t)
  <1> DEFINE u == Unlist(s, ts)
  <1>1. /\ Types(s) /\ StateLists(s) /\ EventLists(s, us) /\ IdleWaits(s)
        /\ DOMAIN s = Fields
    BY DEF Lists, Types
  <1>2. /\ Same(s, u, {"ready", "delayed", "overflow", "suspended", "terminating", "wake"})
        /\ u.ready = [p \in Priority |-> s.ready[p] \ ts]
        /\ u.delayed = s.delayed \ ts /\ u.overflow = s.overflow \ ts
        /\ u.suspended = s.suspended \ ts /\ u.terminating = s.terminating \ ts
        /\ u.wake = [t \in Task |-> IF t \in ts THEN 0 ELSE s.wake[t]]
    BY <1>1, UnlistFields
  <1> HIDE DEF u
  <1>3. /\ DOMAIN u = Fields /\ u.pending = s.pending /\ u.events = s.events
        /\ u.item = s.item /\ u.prio = s.prio /\ u.base = s.base /\ u.notify = s.notify
        /\ u.current = s.current /\ u.top = s.top /\ u.tick = s.tick /\ u.next = s.next
        /\ u.nesting = s.nesting /\ u.pended = s.pended /\ u.overflows = s.overflows
    BY <1>2 DEF Same, Fields
  <1>4. Types(u)
    <2>1. u.ready \in [Priority -> SUBSET Task]
      BY <1>1, <1>2 DEF Types
    <2>2. u.wake \in [Task -> Time]
      <3>1. s.wake \in [Task -> Time] /\ 0 \in Time
        <4>1. s.wake \in [Task -> Time]
          BY <1>1 DEF Types
        <4>2. 0 \in Time
          BY Constants
        <4> QED
          BY <4>1, <4>2
      <3>2. \A t \in Task : (IF t \in ts THEN 0 ELSE s.wake[t]) \in Time
        BY <3>1
      <3>3. u.wake = [t \in Task |-> IF t \in ts THEN 0 ELSE s.wake[t]]
        BY <1>2
      <3> QED
        BY <3>2, <3>3
    <2> QED
      BY <1>1, <1>2, <1>3, <2>1, <2>2 DEF Types
  <1>5. StateLists(u)
    BY <1>1, <1>2, <1>3 DEF StateLists, Blocked
  <1>6. \A t \in Task : Awake(u, t) <=> Awake(s, t) /\ t \notin ts
    BY <1>1, <1>2, <1>3 DEF Awake, Types
  <1>7. Blocked(u) = Blocked(s) \ ts
    BY <1>2 DEF Blocked
  <1>8. EventLists(u, us \cup ts)
    <2>1. s.current \in Task
      BY <1>1 DEF Types
    <2> QED
      BY <1>1, <1>3, <1>6, <1>7, <2>1 DEF EventLists
  <1>9. IdleWaits(u)
    BY <1>1, <1>3, <1>6, Constants DEF IdleWaits
  <1>10. Times(s) => Times(u)
    BY <1>1, <1>2, <1>3 DEF Times, Types
  <1> QED
    BY <1>4, <1>5, <1>6, <1>8, <1>9, <1>10 DEF Lists, u

LEMMA DetachFields ==
    ASSUME NEW s, NEW ts, DOMAIN s = Fields
    PROVE  LET u == Detach(s, ts)
           IN  /\ Same(s, u, {"events", "pending"})
               /\ u.events = [l \in EventList |-> Others(s.events[l], ts)]
               /\ u.pending = Others(s.pending, ts)
  BY DEF Detach, Same, Fields

\* The tasks leave the lists of event items.
LEMMA Detached ==
    ASSUME NEW s, NEW ts, NEW us, Lists(s, us), NEW vs, us \subseteq vs \cup ts
    PROVE  LET u == Detach(s, ts)
           IN  /\ Lists(u, vs) /\ (Times(s) => Times(u))
               /\ Same(s, u, {"events", "pending"})
               /\ \A l \in EventList : Range(u.events[l]) = Range(s.events[l]) \ ts
               /\ Range(u.pending) = Range(s.pending) \ ts
               /\ s.pending = << >> => u.pending = << >>
               /\ Benign(s, u)
  <1> DEFINE u == Detach(s, ts)
  <1>1. /\ Types(s) /\ StateLists(s) /\ EventLists(s, us) /\ IdleWaits(s)
        /\ DOMAIN s = Fields
    BY DEF Lists, Types
  <1>2. /\ Same(s, u, {"events", "pending"})
        /\ u.events = [l \in EventList |-> Others(s.events[l], ts)]
        /\ u.pending = Others(s.pending, ts)
    BY <1>1, DetachFields
  <1> HIDE DEF u
  <1>3. /\ u.ready = s.ready /\ u.delayed = s.delayed /\ u.overflow = s.overflow /\ u.suspended = s.suspended
        /\ u.terminating = s.terminating /\ u.wake = s.wake
        /\ u.item = s.item /\ u.prio = s.prio /\ u.base = s.base /\ u.notify = s.notify
        /\ u.current = s.current /\ u.top = s.top /\ u.tick = s.tick /\ u.next = s.next
        /\ u.nesting = s.nesting /\ u.pended = s.pended /\ u.overflows = s.overflows /\ DOMAIN u = Fields
    BY <1>2 DEF Same, Fields
  <1>4. \A l \in EventList : s.events[l] \in Seq(Task) /\ u.events[l] = Others(s.events[l], ts)
    BY <1>1, <1>2 DEF Types
  <1>5. \A l \in EventList : /\ u.events[l] \in Seq(Task) /\ Range(u.events[l]) = Range(s.events[l]) \ ts
                             /\ IsInjective(s.events[l]) => IsInjective(u.events[l])
    BY <1>4, OthersList
  <1>6. /\ u.pending \in Seq(Task) /\ Range(u.pending) = Range(s.pending) \ ts
        /\ IsInjective(s.pending) => IsInjective(u.pending)
    BY <1>1, <1>2, OthersList DEF Types
  <1>7. s.pending = << >> => u.pending = << >>
    <2>1. s.pending = << >> => Range(u.pending) = {}
      BY <1>6, Empty
    <2> QED
      BY <1>6, <2>1, InList
  <1>8. Types(u)
    <2>1. u.events \in [EventList -> Seq(Task)]
      BY <1>2, <1>5
    <2> QED
      BY <1>1, <1>3, <1>6, <2>1 DEF Types
  <1>9. StateLists(u) /\ IdleWaits(u) /\ (Times(s) => Times(u))
    BY <1>1, <1>3 DEF StateLists, Blocked, IdleWaits, Awake, Times
  <1>10. EventLists(u, vs)
    <2>1. Blocked(u) = Blocked(s) /\ (Awake(u, u.current) <=> Awake(s, s.current))
      BY <1>3 DEF Blocked, Awake
    <2>2. \A l, m \in EventList : l # m => Range(u.events[l]) \cap Range(u.events[m]) = {}
      BY <1>1, <1>5 DEF EventLists
    <2>3. \A q \in Semaphore : \A t \in Range(u.events[q]) : u.item[t] > 0
      <3>1. \A q \in Semaphore : q \in EventList /\ \A t \in Range(s.events[q]) : s.item[t] > 0
        BY <1>1, Constants DEF EventLists
      <3>2. \A q \in Semaphore : \A t \in Range(u.events[q]) : t \in Range(s.events[q])
        BY <1>5, <3>1
      <3> QED
        BY <1>3, <3>1, <3>2
    <2>4. \A l \in EventList : IsInjective(u.events[l])
      <3>1. \A l \in EventList : IsInjective(s.events[l])
        BY <1>1 DEF EventLists
      <3> QED
        BY <3>1, <1>5
    <2>5. \A l \in EventList : \A t \in Range(u.events[l]) :
            t \in Blocked(u) \cup vs /\ t \notin Range(u.pending) /\ u.notify[t] # "WAITING"
      BY <1>1, <1>3, <1>5, <1>6, <2>1 DEF EventLists
    <2>6. /\ IsInjective(u.pending)
          /\ \A t \in Range(u.pending) : u.notify[t] # "WAITING"
          /\ Awake(u, u.current) => u.current \notin Range(u.pending)
      BY <1>1, <1>3, <1>6, <2>1 DEF EventLists
    <2> QED
      BY <2>2, <2>3, <2>4, <2>5, <2>6 DEF EventLists
  <1>11. Benign(s, u)
    BY <1>3, <1>7 DEF Benign, Calm, NobodyWaits, BeginsNoWait, Settled, Awake
  <1> QED
    BY <1>2, <1>5, <1>6, <1>7, <1>8, <1>9, <1>10, <1>11 DEF Lists, u

ReadyFields(s, ts, u) ==
    /\ Same(s, u, {"ready", "delayed", "overflow", "suspended", "terminating", "wake", "top"})
    /\ u.ready = [p \in Priority |-> (s.ready[p] \ ts) \cup {t \in ts : s.prio[t] = p}]
    /\ u.delayed = s.delayed \ ts /\ u.overflow = s.overflow \ ts
    /\ u.suspended = s.suspended \ ts /\ u.terminating = s.terminating \ ts
    /\ u.wake = [t \in Task |-> IF t \in ts THEN 0 ELSE s.wake[t]]
    /\ u.top = Max({s.top} \cup {s.prio[t] : t \in ts})

LEMMA MakeReadyFields ==
    ASSUME NEW s, NEW ts, DOMAIN s = Fields
    PROVE  ReadyFields(s, ts, MakeReady(s, ts))
  <1> DEFINE v == Unlist(s, ts)
             u == MakeReady(s, ts)
  <1>1. /\ Same(s, v, {"ready", "delayed", "overflow", "suspended", "terminating", "wake"})
        /\ v.ready = [p \in Priority |-> s.ready[p] \ ts]
        /\ v.delayed = s.delayed \ ts /\ v.overflow = s.overflow \ ts
        /\ v.suspended = s.suspended \ ts /\ v.terminating = s.terminating \ ts
        /\ v.wake = [t \in Task |-> IF t \in ts THEN 0 ELSE s.wake[t]]
    BY UnlistFields
  <1>2. u = [v EXCEPT !.ready = [p \in Priority |-> v.ready[p] \cup {t \in ts : s.prio[t] = p}],
                      !.top = Max({v.top} \cup {s.prio[t] : t \in ts})]
    BY DEF MakeReady
  <1> HIDE DEF u, v
  <1>3. /\ Same(v, u, {"ready", "top"})
        /\ u.ready = [p \in Priority |-> v.ready[p] \cup {t \in ts : s.prio[t] = p}]
        /\ u.top = Max({v.top} \cup {s.prio[t] : t \in ts})
    BY <1>1, <1>2 DEF Same, Fields
  <1>4. u.ready = [p \in Priority |-> (s.ready[p] \ ts) \cup {t \in ts : s.prio[t] = p}]
    BY <1>1, <1>3
  <1>5. v.top = s.top
    BY <1>1 DEF Same, Fields
  <1>6. Same(s, u, {"ready", "delayed", "overflow", "suspended", "terminating", "wake", "top"})
    BY <1>1, <1>3 DEF Same, Fields
  <1>7. /\ u.delayed = v.delayed /\ u.overflow = v.overflow /\ u.suspended = v.suspended
        /\ u.terminating = v.terminating /\ u.wake = v.wake
    BY <1>3 DEF Same, Fields
  <1> QED
    BY <1>1, <1>3, <1>4, <1>5, <1>6, <1>7 DEF ReadyFields, u

\* The tasks leave their lists of state items for the ready lists.
LEMMA MadeReady ==
    ASSUME NEW s, NEW ts \in SUBSET Task, Lists(s, {}),
           \A l \in EventList : ts \cap Range(s.events[l]) = {},
           s.current \in ts => s.current \notin Range(s.pending)
    PROVE  LET u == MakeReady(s, ts)
           IN  /\ Lists(u, {}) /\ (Times(s) => Times(u))
               /\ Same(s, u, {"ready", "delayed", "overflow", "suspended", "terminating", "wake", "top"})
               /\ u.delayed = s.delayed \ ts /\ u.overflow = s.overflow \ ts
               /\ \A t \in Task : t \notin ts => u.wake[t] = s.wake[t]
               /\ \A t \in Task : Awake(u, t) <=> Awake(s, t) \/ t \in ts
               /\ Benign(s, u)
  <1> DEFINE u == MakeReady(s, ts)
  <1>1. /\ Types(s) /\ StateLists(s) /\ EventLists(s, {}) /\ IdleWaits(s)
        /\ DOMAIN s = Fields
    BY DEF Lists, Types
  <1>2. /\ Same(s, u, {"ready", "delayed", "overflow", "suspended", "terminating", "wake", "top"})
        /\ u.ready = [p \in Priority |-> (s.ready[p] \ ts) \cup {t \in ts : s.prio[t] = p}]
        /\ u.delayed = s.delayed \ ts /\ u.overflow = s.overflow \ ts
        /\ u.suspended = s.suspended \ ts /\ u.terminating = s.terminating \ ts
        /\ u.wake = [t \in Task |-> IF t \in ts THEN 0 ELSE s.wake[t]]
        /\ u.top = Max({s.top} \cup {s.prio[t] : t \in ts})
    BY <1>1, MakeReadyFields DEF ReadyFields
  <1> HIDE DEF u
  <1>3. /\ DOMAIN u = Fields /\ u.pending = s.pending /\ u.events = s.events
        /\ u.item = s.item /\ u.prio = s.prio /\ u.base = s.base /\ u.notify = s.notify
        /\ u.current = s.current /\ u.tick = s.tick /\ u.next = s.next
        /\ u.nesting = s.nesting /\ u.pended = s.pended /\ u.overflows = s.overflows
    BY <1>2 DEF Same, Fields
  <1>4. u.top \in Priority /\ s.top <= u.top
    <2> DEFINE T == {s.top} \cup {s.prio[t] : t \in ts}
    <2>1. T \in SUBSET (0 .. configMAX_PRIORITIES - 1) /\ s.top \in T /\ configMAX_PRIORITIES - 1 \in Nat
      <3>1. s.top \in Priority /\ \A t \in ts : s.prio[t] \in Priority
        BY <1>1 DEF Types
      <3>2. T \subseteq Priority /\ s.top \in T
        BY <3>1
      <3> HIDE DEF T
      <3> QED
        BY <3>2, Constants
    <2> HIDE DEF T
    <2>2. Max(T) \in T /\ s.top <= Max(T)
      BY <2>1, MostExists
    <2>3. u.top = Max(T)
      BY <1>2 DEF T
    <2> QED
      BY <2>1, <2>2, <2>3, Constants
  <1>5. Types(u)
    <2>1. u.ready \in [Priority -> SUBSET Task]
      BY <1>1, <1>2 DEF Types
    <2>2. u.wake \in [Task -> Time]
      <3>1. s.wake \in [Task -> Time] /\ 0 \in Time
        <4>1. s.wake \in [Task -> Time]
          BY <1>1 DEF Types
        <4>2. 0 \in Time
          BY Constants
        <4> QED
          BY <4>1, <4>2
      <3>2. \A t \in Task : (IF t \in ts THEN 0 ELSE s.wake[t]) \in Time
        BY <3>1
      <3>3. u.wake = [t \in Task |-> IF t \in ts THEN 0 ELSE s.wake[t]]
        BY <1>2
      <3> QED
        BY <3>2, <3>3
    <2> QED
      BY <1>1, <1>2, <1>3, <1>4, <2>1, <2>2 DEF Types
  <1>6. Blocked(u) = Blocked(s) \ ts
    BY <1>2 DEF Blocked
  <1>7. StateLists(u)
    <2>1. ASSUME NEW p \in Priority, NEW t \in u.ready[p]
          PROVE  u.prio[t] = p /\ t \notin Blocked(u) /\ t \notin u.terminating
      <3>1. (t \in ts /\ s.prio[t] = p) \/ (t \in s.ready[p] /\ t \notin ts)
        BY <1>2, <2>1
      <3> QED
        BY <3>1, <1>1, <1>2, <1>3, <1>6 DEF StateLists
    <2>2. /\ u.delayed \cap u.overflow = {}
          /\ (u.delayed \cup u.overflow) \cap u.suspended = {}
          /\ Blocked(u) \cap u.terminating = {}
      BY <1>1, <1>2, <1>6 DEF StateLists
    <2> QED
      BY <2>1, <2>2 DEF StateLists
  <1>8. \A t \in Task : Awake(u, t) <=> Awake(s, t) \/ t \in ts
    <2> TAKE t \in Task
    <2>1. s.prio[t] \in Priority /\ u.prio[t] = s.prio[t]
      BY <1>1, <1>3 DEF Types
    <2>2. t \in u.ready[s.prio[t]] <=> (t \in s.ready[s.prio[t]] /\ t \notin ts) \/ t \in ts
      BY <1>2, <2>1
    <2> QED
      BY <2>1, <2>2 DEF Awake
  <1>9. EventLists(u, {})
    <2>1. s.current \in Task
      BY <1>1 DEF Types
    <2>2. \A l \in EventList : \A t \in Range(s.events[l]) :
            t \in Blocked(u) /\ t \notin Range(s.pending) /\ s.notify[t] # "WAITING"
      BY <1>1, <1>6 DEF EventLists
    <2>3. Awake(u, u.current) => u.current \notin Range(u.pending)
      BY <1>1, <1>3, <1>8, <2>1 DEF EventLists
    <2> QED
      BY <1>1, <1>3, <2>2, <2>3 DEF EventLists
  <1>10. IdleWaits(u)
    <2>1. Awake(u, Idle)
      BY <1>1, <1>8, Constants DEF IdleWaits
    <2>2. s.prio[Idle] <= u.top
      <3>1. s.prio[Idle] \in Int /\ s.top \in Int /\ u.top \in Int /\ s.prio[Idle] <= s.top
        <4>1. s.prio[Idle] \in Priority /\ s.top \in Priority /\ s.prio[Idle] <= s.top
          BY <1>1, Constants DEF IdleWaits, Types
        <4>2. Priority \subseteq Int
          BY Constants
        <4> QED
          BY <4>1, <4>2, <1>4
      <3> QED
        BY <3>1, <1>4
    <2> QED
      BY <1>3, <2>1, <2>2 DEF IdleWaits
  <1>11. Times(s) => Times(u)
    <2>1. \A t \in s.delayed \cup s.overflow : t \notin ts => u.wake[t] = s.wake[t]
      BY <1>1, <1>2 DEF Types
    <2> QED
      BY <1>2, <1>3, <2>1 DEF Times
  <1>12. \A t \in Task : t \notin ts => u.wake[t] = s.wake[t]
    BY <1>2
  <1>13. Benign(s, u)
    <2>1. NobodyWaits(s, u)
      BY <1>2, <1>3, <1>12 DEF NobodyWaits, BeginsNoWait
    <2> QED
      BY <1>1, <1>3, <1>8, <2>1 DEF Benign, Calm, Settled, Types
  <1> QED
    BY <1>2, <1>5, <1>7, <1>8, <1>9, <1>10, <1>11, <1>12, <1>13 DEF Lists, u

\* The next task to wake is found.
LEMMA NextReset ==
    ASSUME NEW s, NEW ts, Lists(s, ts)
    PROVE  LET u == ResetNext(s)
           IN  /\ Lists(u, ts) /\ Same(s, u, {"next"}) /\ Benign(s, u)
               /\ \A t \in u.delayed : u.next <= u.wake[t]
               /\ (\A t \in s.delayed : s.wake[t] > s.tick) /\ (\A t \in s.overflow : s.wake[t] < s.tick) => Times(u)
  <1> DEFINE u == ResetNext(s)
             next == IF s.delayed = {} THEN portMAX_DELAY ELSE Min({s.wake[t] : t \in s.delayed})
  <1>1. /\ Types(s) /\ StateLists(s) /\ EventLists(s, ts) /\ IdleWaits(s)
        /\ DOMAIN s = Fields
    BY DEF Lists, Types
  <1>2. u = [s EXCEPT !.next = next]
    BY DEF ResetNext
  <1> HIDE DEF u, next
  <1>3. Same(s, u, {"next"}) /\ u.next = next
    BY <1>1, <1>2 DEF Same, Fields
  <1>4. /\ u.ready = s.ready /\ u.delayed = s.delayed /\ u.overflow = s.overflow /\ u.suspended = s.suspended
        /\ u.terminating = s.terminating /\ u.pending = s.pending /\ u.events = s.events /\ u.wake = s.wake
        /\ u.item = s.item /\ u.prio = s.prio /\ u.base = s.base /\ u.notify = s.notify
        /\ u.current = s.current /\ u.top = s.top /\ u.tick = s.tick /\ DOMAIN u = Fields
        /\ u.nesting = s.nesting /\ u.pended = s.pended /\ u.overflows = s.overflows
    BY <1>3 DEF Same, Fields
  <1>5. /\ next \in Time
        /\ \A t \in s.delayed : next <= s.wake[t]
        /\ (\A t \in s.delayed : s.wake[t] > s.tick) => next >= s.tick
    <2>0. s.tick \in Time
      BY <1>1 DEF Types
    <2>1. CASE s.delayed = {}
      <3>1. next = portMAX_DELAY /\ portMAX_DELAY \in Time /\ s.tick <= portMAX_DELAY
        BY <2>0, <2>1, Constants DEF next
      <3> QED
        BY <2>1, <3>1
    <2>2. CASE s.delayed # {}
      <3> DEFINE W == {s.wake[t] : t \in s.delayed}
      <3>1. W # {} /\ W \in SUBSET Nat /\ W \in SUBSET Time
        <4>1. \A t \in s.delayed : s.wake[t] \in Time
          BY <1>1 DEF Types
        <4>2. Time \in SUBSET Nat
          BY Constants
        <4> QED
          BY <2>2, <4>1, <4>2
      <3>2. \A t \in s.delayed : s.wake[t] \in W
        OBVIOUS
      <3>3. \A y \in W : \E t \in s.delayed : y = s.wake[t]
        OBVIOUS
      <3>4. next = Min(W)
        BY <2>2 DEF next
      <3> HIDE DEF W
      <3>5. Min(W) \in W /\ \A y \in W : Min(W) <= y
        BY <3>1, LeastExists
      <3>6. next \in Time /\ \A t \in s.delayed : next <= s.wake[t]
        BY <3>1, <3>2, <3>4, <3>5
      <3>7. PICK t \in s.delayed : next = s.wake[t]
        BY <3>3, <3>4, <3>5
      <3>8. s.wake[t] > s.tick => next >= s.tick
        BY <3>6, <3>7, <2>0, Constants
      <3> QED
        BY <3>6, <3>7, <3>8
    <2> QED
      BY <2>1, <2>2
  <1>6. Types(u)
    BY <1>1, <1>3, <1>4, <1>5 DEF Types
  <1>7. StateLists(u) /\ IdleWaits(u)
    BY <1>1, <1>4 DEF StateLists, Blocked, IdleWaits, Awake
  <1>8. EventLists(u, ts)
    BY <1>1, <1>4 DEF EventLists, Blocked, Awake
  <1>9. Benign(s, u)
    BY <1>4 DEF Benign, Calm, NobodyWaits, BeginsNoWait, Settled, Awake
  <1>10. \A t \in u.delayed : u.next <= u.wake[t]
    BY <1>3, <1>4, <1>5
  <1>11. (\A t \in s.delayed : s.wake[t] > s.tick) /\ (\A t \in s.overflow : s.wake[t] < s.tick) => Times(u)
    BY <1>3, <1>4, <1>5 DEF Times
  <1> QED
    BY <1>3, <1>6, <1>7, <1>8, <1>9, <1>10, <1>11 DEF Lists, u

LEMMA DelayFields ==
    ASSUME NEW s, NEW ticks, NEW indefinitely, DOMAIN s = Fields
    PROVE  LET u == DelayCurrent(s, ticks, indefinitely)
               t == s.current
               w == Wrap(s.tick + ticks)
           IN  /\ Same(s, u, {"ready", "delayed", "overflow", "suspended", "terminating", "wake", "next"})
               /\ u.ready = [p \in Priority |-> s.ready[p] \ {t}]
               /\ u.terminating = s.terminating \ {t}
               /\ \/ /\ u.suspended = (s.suspended \ {t}) \cup {t}
                     /\ u.delayed = s.delayed \ {t} /\ u.overflow = s.overflow \ {t}
                     /\ u.wake = [x \in Task |-> IF x = t THEN 0 ELSE s.wake[x]] /\ u.next = s.next
                  \/ /\ w < s.tick
                     /\ u.suspended = s.suspended \ {t}
                     /\ u.delayed = s.delayed \ {t} /\ u.overflow = (s.overflow \ {t}) \cup {t}
                     /\ u.wake = [x \in Task |-> IF x = t THEN w ELSE s.wake[x]] /\ u.next = s.next
                  \/ /\ ~ (w < s.tick)
                     /\ u.suspended = s.suspended \ {t}
                     /\ u.delayed = (s.delayed \ {t}) \cup {t} /\ u.overflow = s.overflow \ {t}
                     /\ u.wake = [x \in Task |-> IF x = t THEN w ELSE s.wake[x]]
                     /\ u.next = IF w < s.next THEN w ELSE s.next
  <1> DEFINE t == s.current
             v == Unlist(s, {t})
             w == Wrap(s.tick + ticks)
             u == DelayCurrent(s, ticks, indefinitely)
  <1>1. /\ Same(s, v, {"ready", "delayed", "overflow", "suspended", "terminating", "wake"})
        /\ v.ready = [p \in Priority |-> s.ready[p] \ {t}]
        /\ v.delayed = s.delayed \ {t} /\ v.overflow = s.overflow \ {t}
        /\ v.suspended = s.suspended \ {t} /\ v.terminating = s.terminating \ {t}
        /\ v.wake = [x \in Task |-> IF x \in {t} THEN 0 ELSE s.wake[x]]
    BY UnlistFields
  <1>2. \/ u = [v EXCEPT !.suspended = @ \cup {t}]
        \/ w < s.tick /\ u = [v EXCEPT !.wake[t] = w, !.overflow = @ \cup {t}]
        \/ ~ (w < s.tick) /\ u = [v EXCEPT !.wake[t] = w, !.delayed = @ \cup {t}, !.next = IF w < @ THEN w ELSE @]
    BY DEF DelayCurrent
  <1> HIDE DEF t, u, v, w
  <1>3. [v.wake EXCEPT ![t] = w] = [x \in Task |-> IF x = t THEN w ELSE s.wake[x]]
    BY <1>1
  <1>4. v.wake = [x \in Task |-> IF x = t THEN 0 ELSE s.wake[x]]
    BY <1>1
  <1>5. v.next = s.next /\ DOMAIN v = Fields
    BY <1>1 DEF Same, Fields
  <1>6. CASE u = [v EXCEPT !.suspended = @ \cup {t}]
    <2>1. Same(v, u, {"suspended"}) /\ u.suspended = v.suspended \cup {t}
      BY <1>5, <1>6 DEF Same, Fields
    <2>2. /\ u.ready = v.ready /\ u.delayed = v.delayed /\ u.overflow = v.overflow /\ u.terminating = v.terminating
          /\ u.wake = v.wake /\ u.next = v.next
      BY <2>1 DEF Same, Fields
    <2>3. Same(s, u, {"ready", "delayed", "overflow", "suspended", "terminating", "wake", "next"})
      BY <1>1, <2>1 DEF Same, Fields
    <2> QED
      BY <1>1, <1>4, <1>5, <2>1, <2>2, <2>3 DEF t, u
  <1>7. CASE w < s.tick /\ u = [v EXCEPT !.wake[t] = w, !.overflow = @ \cup {t}]
    <2>1. Same(v, u, {"wake", "overflow"}) /\ u.overflow = v.overflow \cup {t} /\ u.wake = [v.wake EXCEPT ![t] = w]
      BY <1>5, <1>7 DEF Same, Fields
    <2>2. /\ u.ready = v.ready /\ u.delayed = v.delayed /\ u.suspended = v.suspended /\ u.terminating = v.terminating
          /\ u.next = v.next
      BY <2>1 DEF Same, Fields
    <2>3. Same(s, u, {"ready", "delayed", "overflow", "suspended", "terminating", "wake", "next"})
      BY <1>1, <2>1 DEF Same, Fields
    <2> QED
      BY <1>1, <1>3, <1>5, <1>7, <2>1, <2>2, <2>3 DEF t, u, w
  <1>8. CASE ~ (w < s.tick) /\ u = [v EXCEPT !.wake[t] = w, !.delayed = @ \cup {t}, !.next = IF w < @ THEN w ELSE @]
    <2>1. /\ Same(v, u, {"wake", "delayed", "next"}) /\ u.delayed = v.delayed \cup {t}
          /\ u.wake = [v.wake EXCEPT ![t] = w] /\ u.next = IF w < v.next THEN w ELSE v.next
      BY <1>5, <1>8 DEF Same, Fields
    <2>2. u.ready = v.ready /\ u.overflow = v.overflow /\ u.suspended = v.suspended /\ u.terminating = v.terminating
      BY <2>1 DEF Same, Fields
    <2>3. Same(s, u, {"ready", "delayed", "overflow", "suspended", "terminating", "wake", "next"})
      BY <1>1, <2>1 DEF Same, Fields
    <2> QED
      BY <1>1, <1>3, <1>5, <1>8, <2>1, <2>2, <2>3 DEF t, u, w
  <1> QED
    BY <1>2, <1>6, <1>7, <1>8

\* The current task goes to sleep.
LEMMA Delayed ==
    ASSUME NEW s, NEW ticks \in 1 .. portMAX_DELAY, NEW indefinitely,
           Lists(s, {s.current}), Times(s), s.current # Idle
    PROVE  LET u == DelayCurrent(s, ticks, indefinitely)
           IN  /\ Core(u)
               /\ Same(s, u, {"ready", "delayed", "overflow", "suspended", "terminating", "wake", "next"})
               /\ \A t \in Task \ {s.current} : BeginsNoWait(s, u, t)
               /\ s.current \in u.delayed \cup u.overflow => u.wake[s.current] = Wrap(s.tick + ticks)
  <1> DEFINE u == DelayCurrent(s, ticks, indefinitely)
             t == s.current
             w == Wrap(s.tick + ticks)
  <1>1. /\ Types(s) /\ StateLists(s) /\ EventLists(s, {t}) /\ IdleWaits(s)
        /\ DOMAIN s = Fields /\ t \in Task
    BY DEF Lists, Types
  <1> DEFINE Case1 == /\ u.suspended = (s.suspended \ {t}) \cup {t}
                      /\ u.delayed = s.delayed \ {t} /\ u.overflow = s.overflow \ {t}
                      /\ u.wake = [x \in Task |-> IF x = t THEN 0 ELSE s.wake[x]] /\ u.next = s.next
             Case2 == /\ w < s.tick
                      /\ u.suspended = s.suspended \ {t}
                      /\ u.delayed = s.delayed \ {t} /\ u.overflow = (s.overflow \ {t}) \cup {t}
                      /\ u.wake = [x \in Task |-> IF x = t THEN w ELSE s.wake[x]] /\ u.next = s.next
             Case3 == /\ ~ (w < s.tick)
                      /\ u.suspended = s.suspended \ {t}
                      /\ u.delayed = (s.delayed \ {t}) \cup {t} /\ u.overflow = s.overflow \ {t}
                      /\ u.wake = [x \in Task |-> IF x = t THEN w ELSE s.wake[x]]
                      /\ u.next = IF w < s.next THEN w ELSE s.next
  <1>2. /\ Same(s, u, {"ready", "delayed", "overflow", "suspended", "terminating", "wake", "next"})
        /\ u.ready = [p \in Priority |-> s.ready[p] \ {t}]
        /\ u.terminating = s.terminating \ {t}
        /\ Case1 \/ Case2 \/ Case3
    BY <1>1, DelayFields
  <1> HIDE DEF Case1, Case2, Case3
  <1>3. w \in Time /\ w # s.tick
    <2>1. s.tick \in 0 .. portMAX_DELAY /\ Time = 0 .. portMAX_DELAY /\ Ticks = portMAX_DELAY + 1 /\ portMAX_DELAY \in Nat
      BY <1>1, Constants DEF Types
    <2> DEFINE n == s.tick + ticks
    <2>2. n \in Int /\ (n \in Time \/ n \in Ticks .. Ticks + portMAX_DELAY)
      BY <2>1
    <2>3. w = Wrap(n)
      OBVIOUS
    <2> HIDE DEF n, w
    <2>4. CASE n \in Time
      <3>1. w = n
        BY <2>2, <2>3, <2>4, Wrapped
      <3> QED
        BY <3>1, <2>1, <2>4 DEF n
    <2>5. CASE n \in Ticks .. Ticks + portMAX_DELAY
      <3>1. w = n - Ticks /\ w \in Time
        BY <2>2, <2>3, <2>5, Wrapped
      <3>2. w = s.tick + ticks - (portMAX_DELAY + 1)
        BY <3>1, <2>1 DEF n
      <3> QED
        BY <3>1, <3>2, <2>1
    <2> QED
      BY <2>2, <2>4, <2>5
  <1> HIDE DEF u, w, t
  <1>4. /\ DOMAIN u = Fields /\ u.pending = s.pending /\ u.events = s.events
        /\ u.item = s.item /\ u.prio = s.prio /\ u.base = s.base /\ u.notify = s.notify
        /\ u.current = s.current /\ u.tick = s.tick /\ u.top = s.top
        /\ u.nesting = s.nesting /\ u.pended = s.pended /\ u.overflows = s.overflows
    BY <1>2 DEF Same, Fields
  <1>5. /\ u.next \in Time /\ (u.next = s.next \/ (u.next = w /\ ~ (w < s.tick)))
        /\ u.next <= s.next
    <2>1. s.next \in Time /\ s.next \in Int /\ w \in Int
      BY <1>1, <1>3, Constants DEF Types
    <2> QED
      BY <1>2, <1>3, <2>1 DEF Case1, Case2, Case3
  <1>6. u.wake \in [Task -> Time] /\ \A x \in Task : x # t => u.wake[x] = s.wake[x]
    <2>1. s.wake \in [Task -> Time]
      BY <1>1 DEF Types
    <2>2. 0 \in Time
      BY Constants
    <2> QED
      BY <1>2, <1>3, <2>1, <2>2 DEF Case1, Case2, Case3
  <1>7. Types(u)
    <2>1. u.ready \in [Priority -> SUBSET Task]
      BY <1>1, <1>2 DEF Types
    <2>2. u.delayed \subseteq Task /\ u.overflow \subseteq Task /\ u.suspended \subseteq Task /\ u.terminating \subseteq Task
      BY <1>1, <1>2 DEF Types, Case1, Case2, Case3
    <2> QED
      BY <1>1, <1>4, <1>5, <1>6, <2>1, <2>2 DEF Types
  <1>8. Blocked(u) = Blocked(s) \cup {t}
    BY <1>2 DEF Blocked, Case1, Case2, Case3
  <1>9. StateLists(u)
    <2>1. ASSUME NEW p \in Priority, NEW x \in u.ready[p]
          PROVE  u.prio[x] = p /\ x \notin Blocked(u) /\ x \notin u.terminating
      <3>1. x \in s.ready[p] /\ x # t
        BY <1>2, <2>1
      <3> QED
        BY <3>1, <1>1, <1>2, <1>4, <1>8 DEF StateLists
    <2>2. s.delayed \cap s.overflow = {} /\ (s.delayed \cup s.overflow) \cap s.suspended = {}
      BY <1>1 DEF StateLists
    <2>3. u.delayed \cap u.overflow = {} /\ (u.delayed \cup u.overflow) \cap u.suspended = {}
      BY <1>2, <2>2 DEF Case1, Case2, Case3
    <2>4. Blocked(u) \cap u.terminating = {}
      BY <1>1, <1>2, <1>8 DEF StateLists
    <2> QED
      BY <2>1, <2>3, <2>4 DEF StateLists
  <1>10. \A x \in Task : Awake(u, x) <=> Awake(s, x) /\ x # t
    BY <1>1, <1>2, <1>4 DEF Awake, Types
  <1>11. EventLists(u, {})
    <2>1. ~ Awake(u, u.current)
      BY <1>1, <1>4, <1>10 DEF t
    <2>2. \A l \in EventList : \A x \in Range(s.events[l]) :
            x \in Blocked(u) /\ x \notin Range(s.pending) /\ s.notify[x] # "WAITING"
      BY <1>1, <1>8 DEF EventLists
    <2> QED
      BY <1>1, <1>4, <2>1, <2>2 DEF EventLists
  <1>12. IdleWaits(u)
    BY <1>1, <1>4, <1>10, Constants DEF IdleWaits, t
  <1>13. Times(u)
    <2>1. s.next >= s.tick /\ s.next \in Int /\ s.tick \in Int /\ w \in Int /\ u.next \in Int
      BY <1>1, <1>3, <1>5, Constants DEF Core, Times, Types
    <2>2. u.next >= u.tick
      BY <1>3, <1>4, <1>5, <2>1
    <2>3. ASSUME NEW x \in u.delayed PROVE u.wake[x] > u.tick /\ u.next <= u.wake[x]
      <3>1. CASE x = t
        <4>1. Case3
          BY <1>2, <2>3, <3>1 DEF Case1, Case2
        <4>2. u.wake[x] = w /\ ~ (w < s.tick) /\ u.next <= w
          BY <4>1, <1>1, <2>1, <3>1 DEF Case3
        <4> QED
          BY <4>2, <1>3, <1>4, <2>1
      <3>2. CASE x # t
        <4>1. x \in s.delayed /\ x \in Task /\ u.wake[x] = s.wake[x]
          BY <1>1, <1>2, <1>6, <2>3, <3>2 DEF Types, Case1, Case2, Case3
        <4>2. s.wake[x] > s.tick /\ s.next <= s.wake[x]
          BY <4>1 DEF Times
        <4>3. s.wake[x] \in Time
          BY <4>1, <1>1 DEF Types
        <4>4. s.wake[x] \in Int
          BY <4>3, TimeIsInt
        <4> QED
          BY <4>1, <4>2, <4>4, <1>4, <1>5, <2>1
      <3> QED
        BY <3>1, <3>2
    <2>4. ASSUME NEW x \in u.overflow PROVE u.wake[x] < u.tick
      <3>1. CASE x = t
        <4>1. Case2
          BY <1>2, <2>4, <3>1 DEF Case1, Case3
        <4> QED
          BY <4>1, <1>1, <1>4, <3>1 DEF Case2
      <3>2. CASE x # t
        <4>1. x \in s.overflow /\ x \in Task /\ u.wake[x] = s.wake[x]
          BY <1>1, <1>2, <1>6, <2>4, <3>2 DEF Types, Case1, Case2, Case3
        <4> QED
          BY <4>1, <1>4 DEF Times
      <3> QED
        BY <3>1, <3>2
    <2> QED
      BY <2>2, <2>3, <2>4 DEF Times
  <1>14. \A x \in Task \ {t} : BeginsNoWait(s, u, x)
    BY <1>2, <1>4, <1>6 DEF BeginsNoWait, Case1, Case2, Case3
  <1>15. t \in u.delayed \cup u.overflow => u.wake[t] = w
    BY <1>1, <1>2 DEF Case1, Case2, Case3
  <1> QED
    BY <1>2, <1>7, <1>9, <1>11, <1>12, <1>13, <1>14, <1>15 DEF Core, Lists, t, u, w

LEMMA SameTwice ==
    ASSUME NEW s, NEW u, NEW v, NEW A, NEW B, Same(s, u, A), Same(u, v, B)
    PROVE  Same(s, v, A \cup B)
  BY DEF Same

\* Those that are due leave the lists of both their items.
LEMMA DueWoken ==
    ASSUME NEW s, Lists(s, {}),
           \A t \in s.delayed : s.wake[t] >= s.tick /\ s.next <= s.wake[t],
           \A t \in s.overflow : s.wake[t] < s.tick
    PROVE  LET u == WakeDue(s)
           IN  /\ Core(u) /\ Benign(s, u) /\ Same(s, u, StateItems \cup {"events", "pending"})
               /\ s.pending = << >> => u.pending = << >>
  <1> DEFINE D == Due(s)
             v == Detach(s, D)
             m == MakeReady(v, D)
             u == WakeDue(s)
  <1>1. u = IF s.tick >= s.next THEN ResetNext(m) ELSE s
    BY DEF WakeDue
  <1>2. /\ D \in SUBSET Task /\ D \subseteq s.delayed
        /\ \A t \in s.delayed : t \in Task /\ (t \notin D => ~ (s.wake[t] <= s.tick))
    BY DEF Due, Lists, Types
  <1>3. s.tick \in Int /\ s.next \in Int /\ \A t \in Task : s.wake[t] \in Int
    <2>1. s.tick \in Time /\ s.next \in Time /\ \A t \in Task : s.wake[t] \in Time
      BY DEF Lists, Types
    <2> QED
      BY <2>1, TimeIsInt
  <1>4. CASE s.tick >= s.next
    <2> HIDE DEF D
    <2>2. {} \subseteq {} \cup D
      OBVIOUS
    <2>1. /\ Lists(v, {})
          /\ Same(s, v, {"events", "pending"})
          /\ \A l \in EventList : Range(v.events[l]) = Range(s.events[l]) \ D
          /\ Range(v.pending) = Range(s.pending) \ D
          /\ s.pending = << >> => v.pending = << >>
          /\ Benign(s, v)
      BY <2>2, Detached
    <2> HIDE DEF v
    <2>3. \A l \in EventList : D \cap Range(v.events[l]) = {}
      BY <2>1
    <2>4. v.current \in D => v.current \notin Range(v.pending)
      BY <2>1
    <2>5. /\ Lists(m, {})
          /\ Same(v, m, {"ready", "delayed", "overflow", "suspended", "terminating", "wake", "top"})
          /\ m.delayed = v.delayed \ D /\ m.overflow = v.overflow \ D
          /\ \A t \in Task : t \notin D => m.wake[t] = v.wake[t]
          /\ Benign(v, m)
      BY <1>2, <2>1, <2>3, <2>4, MadeReady
    <2> HIDE DEF m
    <2>6. v.delayed = s.delayed /\ v.overflow = s.overflow /\ v.wake = s.wake /\ v.tick = s.tick
      BY <2>1 DEF Same, Fields
    <2>7. m.tick = s.tick /\ m.pending = v.pending
      BY <2>5, <2>6 DEF Same, Fields
    <2>8. \A t \in m.delayed : m.wake[t] > m.tick
      <3> TAKE t \in m.delayed
      <3>1. t \in s.delayed /\ t \notin D
        BY <2>5, <2>6
      <3>2. m.wake[t] = s.wake[t] /\ ~ (s.wake[t] <= s.tick) /\ t \in Task
        BY <1>2, <2>5, <2>6, <3>1
      <3> QED
        BY <3>2, <1>3, <2>7
    <2>9. \A t \in m.overflow : m.wake[t] < m.tick
      <3> TAKE t \in m.overflow
      <3>1. t \in s.overflow /\ t \notin D /\ t \in Task
        BY <2>5, <2>6 DEF Lists, Types
      <3> QED
        BY <2>5, <2>6, <2>7, <3>1
    <2>10. /\ Lists(ResetNext(m), {}) /\ Same(m, ResetNext(m), {"next"}) /\ Benign(m, ResetNext(m))
           /\ Times(ResetNext(m))
      BY <2>5, <2>8, <2>9, NextReset
    <2>11. u = ResetNext(m)
      BY <1>1, <1>4
    <2> HIDE DEF u
    <2>12. Benign(s, u)
      BY <2>1, <2>5, <2>10, <2>11, BenignTwice
    <2>13. u.pending = v.pending
      BY <2>7, <2>10, <2>11 DEF Same, Fields
    <2>14. Same(s, u, StateItems \cup {"events", "pending"})
      BY <2>1, <2>5, <2>10, <2>11 DEF Same, StateItems
    <2> QED
      BY <2>1, <2>10, <2>11, <2>12, <2>13, <2>14 DEF Core, u
  <1>5. CASE ~ (s.tick >= s.next)
    <2>1. u = s
      BY <1>1, <1>5
    <2>2. Times(s)
      BY <1>2, <1>3, <1>5 DEF Times
    <2>3. Same(s, s, StateItems \cup {"events", "pending"})
      BY DEF Same, Lists, Types
    <2> QED
      BY <2>1, <2>2, <2>3, BenignOnce DEF Core
  <1> QED
    BY <1>4, <1>5

\* A tick.
LEMMA Advanced ==
    ASSUME NEW s, Core(s)
    PROVE  LET u == Advance(s)
           IN  /\ Core(u) /\ Calm(s, u) /\ u.nesting = s.nesting /\ u.pended = s.pended
               /\ s.pending = << >> => u.pending = << >>
  <1> DEFINE u == Advance(s)
             now == [s EXCEPT !.tick = Wrap(@ + 1)]
             turned == [now EXCEPT !.delayed = now.overflow, !.overflow = now.delayed, !.overflows = @ + 1]
  <1>1. /\ Types(s) /\ StateLists(s) /\ EventLists(s, {}) /\ IdleWaits(s) /\ Times(s)
        /\ DOMAIN s = Fields /\ s.tick \in Time /\ s.next \in Time
    BY DEF Core, Lists, Types
  <1>2. u = WakeDue(IF now.tick = 0 THEN ResetNext(turned) ELSE now)
    BY DEF Advance, SwitchDelayedLists
  <1>3. Same(s, now, {"tick"}) /\ now.tick = Wrap(s.tick + 1)
    BY <1>1 DEF Same, Fields
  <1>4. /\ now.tick \in Time
        /\ s.tick # portMAX_DELAY => now.tick = s.tick + 1
        /\ s.tick = portMAX_DELAY => now.tick = 0
    <2> DEFINE n == s.tick + 1
    <2>1. s.tick \in Int /\ 0 <= s.tick /\ s.tick <= portMAX_DELAY
      BY <1>1, TimeIsInt
    <2>2. n \in Int /\ Ticks = portMAX_DELAY + 1
      BY <2>1, Constants
    <2>3. CASE s.tick # portMAX_DELAY
      <3>1. n \in Time
        BY <2>1, <2>3, Constants
      <3> HIDE DEF n
      <3>2. Wrap(n) = n /\ Wrap(n) \in Time
        BY <2>2, <3>1, Wrapped
      <3> QED
        BY <1>3, <2>3, <3>2 DEF n
    <2>4. CASE s.tick = portMAX_DELAY
      <3>1. n = Ticks /\ n \in Ticks .. Ticks + portMAX_DELAY
        BY <2>1, <2>2, <2>4, Constants
      <3> HIDE DEF n
      <3>2. Wrap(n) = n - Ticks /\ Wrap(n) \in Time
        BY <2>2, <3>1, Wrapped
      <3>3. n - Ticks = 0
        BY <2>1, <2>2, <3>1, Constants
      <3> QED
        BY <1>3, <2>4, <3>2, <3>3 DEF n
    <2> QED
      BY <2>3, <2>4
  <1> HIDE DEF now
  <1>5. \A t \in Task : s.wake[t] \in Time /\ s.wake[t] \in Int /\ 0 <= s.wake[t] /\ s.wake[t] <= portMAX_DELAY
    <2>1. \A t \in Task : s.wake[t] \in Time
      BY <1>1 DEF Types
    <2> QED
      BY <2>1, TimeIsInt
  <1>6. s.tick \in Int /\ s.next \in Int /\ 0 <= s.tick /\ s.tick <= portMAX_DELAY
    BY <1>1, TimeIsInt
  <1>7. CASE s.tick = portMAX_DELAY
    <2> DEFINE v == turned
    <2>1. /\ Same(now, v, {"delayed", "overflow", "overflows"})
          /\ v.delayed = now.overflow /\ v.overflow = now.delayed /\ v.overflows = now.overflows + 1
      BY <1>3 DEF Same, Fields
    <2> HIDE DEF v
    <2>2. /\ DOMAIN v = Fields /\ v.pending = s.pending /\ v.events = s.events
          /\ v.ready = s.ready /\ v.suspended = s.suspended /\ v.terminating = s.terminating /\ v.wake = s.wake
          /\ v.item = s.item /\ v.prio = s.prio /\ v.base = s.base /\ v.notify = s.notify
          /\ v.current = s.current /\ v.tick = 0 /\ v.top = s.top /\ v.next = s.next
          /\ v.nesting = s.nesting /\ v.pended = s.pended
          /\ v.delayed = s.overflow /\ v.overflow = s.delayed /\ v.overflows = s.overflows + 1
      BY <1>3, <1>4, <1>7, <2>1 DEF Same, Fields
    <2>3. s.delayed = {}
      <3>1. ASSUME NEW t \in s.delayed PROVE FALSE
        <4>1. t \in Task /\ s.wake[t] > s.tick
          BY <1>1 DEF Types, Times
        <4> QED
          BY <4>1, <1>5, <1>6, <1>7
      <3> QED
        BY <3>1
    <2>4. Blocked(v) = Blocked(s) /\ \A t : Awake(v, t) <=> Awake(s, t)
      BY <2>2 DEF Blocked, Awake
    <2>5. Types(v)
      <3>1. 0 \in Time
        BY TimeIsInt
      <3>2. s.overflows + 1 \in Nat
        BY <1>1 DEF Types
      <3> QED
        BY <1>1, <2>2, <3>1, <3>2 DEF Types
    <2>6. StateLists(v) /\ EventLists(v, {}) /\ IdleWaits(v)
      <3>1. StateLists(v)
        BY <1>1, <2>2, <2>4 DEF StateLists
      <3>2. EventLists(v, {})
        BY <1>1, <2>2, <2>4 DEF EventLists
      <3>3. IdleWaits(v)
        BY <1>1, <2>2, <2>4 DEF IdleWaits
      <3> QED
        BY <3>1, <3>2, <3>3
    <2>7. Lists(v, {})
      BY <2>5, <2>6 DEF Lists
    <2>8. Calm(s, v)
      BY <2>2, <2>4 DEF Calm, NobodyWaits, BeginsNoWait
    <2> DEFINE r == ResetNext(v)
    <2>9. /\ Lists(r, {}) /\ Same(v, r, {"next"}) /\ Benign(v, r)
          /\ \A t \in r.delayed : r.next <= r.wake[t]
      BY <2>7, NextReset
    <2> HIDE DEF r
    <2>10. /\ r.delayed = s.overflow /\ r.overflow = {} /\ r.wake = s.wake /\ r.tick = 0
           /\ r.pending = s.pending /\ r.nesting = s.nesting /\ r.pended = s.pended
      BY <2>2, <2>3, <2>9 DEF Same, Fields
    <2>11. \A t \in r.delayed : r.wake[t] >= r.tick /\ r.next <= r.wake[t]
      <3> TAKE t \in r.delayed
      <3>1. t \in Task
        BY <1>1, <2>10 DEF Types
      <3> QED
        BY <3>1, <1>5, <2>9, <2>10
    <2>12. \A t \in r.overflow : r.wake[t] < r.tick
      BY <2>10
    <2> DEFINE w == WakeDue(r)
    <2>13. /\ Core(w) /\ Benign(r, w) /\ Same(r, w, StateItems \cup {"events", "pending"})
           /\ r.pending = << >> => w.pending = << >>
      BY <2>9, <2>11, <2>12, DueWoken
    <2>14. u = w
      BY <1>2, <1>4, <1>7 DEF r, v
    <2> HIDE DEF w, u
    <2>15. w.nesting = s.nesting /\ w.pended = s.pended /\ (s.pending = << >> => w.pending = << >>)
      BY <2>10, <2>13 DEF Same, Fields, StateItems
    <2>16. Calm(s, w)
      BY <2>8, <2>9, <2>13, CalmTwice DEF Benign
    <2> QED
      BY <2>13, <2>14, <2>15, <2>16 DEF u
  <1>8. CASE s.tick # portMAX_DELAY
    <2>2. /\ DOMAIN now = Fields /\ now.pending = s.pending /\ now.events = s.events
          /\ now.ready = s.ready /\ now.suspended = s.suspended /\ now.terminating = s.terminating /\ now.wake = s.wake
          /\ now.item = s.item /\ now.prio = s.prio /\ now.base = s.base /\ now.notify = s.notify
          /\ now.current = s.current /\ now.tick = s.tick + 1 /\ now.top = s.top /\ now.next = s.next
          /\ now.nesting = s.nesting /\ now.pended = s.pended
          /\ now.delayed = s.delayed /\ now.overflow = s.overflow /\ now.overflows = s.overflows
      BY <1>3, <1>4, <1>8 DEF Same, Fields
    <2>4. Blocked(now) = Blocked(s) /\ \A t : Awake(now, t) <=> Awake(s, t)
      BY <2>2 DEF Blocked, Awake
    <2>5. Types(now)
      BY <1>1, <1>4, <2>2 DEF Types
    <2>6. StateLists(now) /\ EventLists(now, {}) /\ IdleWaits(now)
      <3>1. StateLists(now)
        BY <1>1, <2>2, <2>4 DEF StateLists
      <3>2. EventLists(now, {})
        BY <1>1, <2>2, <2>4 DEF EventLists
      <3>3. IdleWaits(now)
        BY <1>1, <2>2, <2>4 DEF IdleWaits
      <3> QED
        BY <3>1, <3>2, <3>3
    <2>7. Lists(now, {})
      BY <2>5, <2>6 DEF Lists
    <2>8. Calm(s, now)
      BY <2>2, <2>4 DEF Calm, NobodyWaits, BeginsNoWait
    <2>11. \A t \in now.delayed : now.wake[t] >= now.tick /\ now.next <= now.wake[t]
      <3> TAKE t \in now.delayed
      <3>1. t \in Task /\ s.wake[t] > s.tick /\ s.next <= s.wake[t]
        BY <1>1, <2>2 DEF Types, Times
      <3> QED
        BY <3>1, <1>5, <1>6, <2>2
    <2>12. \A t \in now.overflow : now.wake[t] < now.tick
      <3> TAKE t \in now.overflow
      <3>1. t \in Task /\ s.wake[t] < s.tick
        BY <1>1, <2>2 DEF Types, Times
      <3> QED
        BY <3>1, <1>5, <1>6, <2>2
    <2> DEFINE w == WakeDue(now)
    <2>13. /\ Core(w) /\ Benign(now, w) /\ Same(now, w, StateItems \cup {"events", "pending"})
           /\ now.pending = << >> => w.pending = << >>
      BY <2>7, <2>11, <2>12, DueWoken
    <2>14. u = w
      BY <1>2, <1>4, <1>6, <1>8
    <2> HIDE DEF w, u
    <2>15. w.nesting = s.nesting /\ w.pended = s.pended /\ (s.pending = << >> => w.pending = << >>)
      BY <2>2, <2>13 DEF Same, Fields, StateItems
    <2>16. Calm(s, w)
      BY <2>8, <2>13, CalmTwice DEF Benign
    <2> QED
      BY <2>13, <2>14, <2>15, <2>16 DEF u
  <1> QED
    BY <1>7, <1>8

LEMMA CoreParts ==
    ASSUME NEW s, Core(s)
    PROVE  /\ Types(s) /\ StateLists(s) /\ EventLists(s, {}) /\ IdleWaits(s) /\ Times(s) /\ Lists(s, {})
           /\ DOMAIN s = Fields /\ s.nesting \in Nat /\ s.pended \in Nat /\ s.overflows \in Nat
           /\ s.tick \in Time /\ s.current \in Task /\ s.pending \in Seq(Task)
           /\ \A l \in EventList : s.events[l] \in Seq(Task)
           /\ \A t \in Task : s.prio[t] \in Priority /\ s.base[t] \in Priority
           /\ \A p \in Priority : s.ready[p] \subseteq Task
           /\ s.delayed \cup s.overflow \cup s.suspended \cup s.terminating \subseteq Task
  BY DEF Core, Lists, Types

LEMMA Yields ==
    ASSUME NEW s, Core(s), NEW v
    PROVE  LET u == [s EXCEPT !.yield = v]
           IN  Core(u) /\ Benign(s, u) /\ Same(s, u, {"yield"})
  <1> DEFINE u == [s EXCEPT !.yield = v]
  <1>1. Lists(s, {}) /\ Times(s) /\ DOMAIN s = Fields /\ s.nesting \in Nat /\ s.pended \in Nat /\ s.overflows \in Nat
    BY CoreParts
  <1>2. Same(s, u, {"yield"})
    BY <1>1 DEF Same, Fields
  <1> HIDE DEF u
  <1>3. /\ u.nesting = s.nesting /\ u.pended = s.pended /\ u.pending = s.pending /\ u.overflows = s.overflows
        /\ u.tick = s.tick
    BY <1>2 DEF Same, Fields
  <1>4. Same(s, u, {"yield", "value", "flags", "held", "nesting", "pended", "overflows"})
    BY <1>2 DEF Same
  <1>5. Lists(u, {}) /\ Times(u) /\ Calm(s, u)
    BY <1>1, <1>3, <1>4, Unconcerned
  <1> QED
    BY <1>2, <1>3, <1>5 DEF Core, Benign, Settled, u

\* The pending ready list is emptied.
LEMMA PendingMoved ==
    ASSUME NEW s, Core(s)
    PROVE  LET u == MovePending(s)
           IN  /\ Core(u) /\ Calm(s, u) /\ u.nesting = s.nesting /\ u.pended = s.pended /\ u.pending = << >>
  <1> DEFINE P == Range(s.pending)
             v == Detach(s, P)
             m == MakeReady(v, P)
             u == MovePending(s)
             preempt == \E t \in P : s.prio[t] >= s.prio[s.current]
  <1>1. /\ Lists(s, {}) /\ Times(s) /\ EventLists(s, {}) /\ s.pending \in Seq(Task) /\ s.current \in Task
    BY CoreParts
  <1>2. u = IF s.pending = << >> THEN s ELSE ResetNext([m EXCEPT !.yield = @ \/ preempt])
    BY DEF MovePending
  <1> HIDE DEF preempt, u
  <1>3. P \in SUBSET Task
    BY <1>1, InList
  <1>4. CASE s.pending # << >>
    <2>1. \A l \in EventList : P \cap Range(s.events[l]) = {}
      BY <1>1 DEF EventLists
    <2> HIDE DEF P
    <2>2. {} \subseteq {} \cup P
      OBVIOUS
    <2>3. /\ Lists(v, {}) /\ (Times(s) => Times(v))
          /\ Same(s, v, {"events", "pending"})
          /\ \A l \in EventList : Range(v.events[l]) = Range(s.events[l]) \ P
          /\ Range(v.pending) = Range(s.pending) \ P
          /\ s.pending = << >> => v.pending = << >>
          /\ Benign(s, v)
      BY <1>1, <2>2, Detached
    <2> HIDE DEF v
    <2>4. \A l \in EventList : P \cap Range(v.events[l]) = {}
      BY <2>3
    <2>5. Range(v.pending) = {}
      BY <2>3 DEF P
    <2>6. v.pending = << >>
      <3>1. v.pending \in Seq(Task)
        BY <2>3 DEF Lists, Types
      <3> QED
        BY <2>5, <3>1, InList
    <2>7. /\ Lists(m, {}) /\ Times(m)
          /\ Same(v, m, {"ready", "delayed", "overflow", "suspended", "terminating", "wake", "top"})
          /\ Benign(v, m)
      BY <1>1, <1>3, <2>3, <2>4, <2>5, MadeReady
    <2> HIDE DEF m
    <2> DEFINE y == [m EXCEPT !.yield = @ \/ preempt]
    <2>8. Core(y) /\ Benign(m, y) /\ Same(m, y, {"yield"})
      BY <2>7, Yields DEF Core
    <2> HIDE DEF y
    <2>9. /\ Lists(ResetNext(y), {}) /\ Same(y, ResetNext(y), {"next"}) /\ Benign(y, ResetNext(y))
          /\ Times(ResetNext(y))
      BY <2>8, NextReset DEF Core, Times
    <2>10. u = ResetNext(y)
      BY <1>2, <1>4 DEF y
    <2> HIDE DEF u
    <2>11. u.pending = << >> /\ u.pended = s.pended
      BY <2>3, <2>6, <2>7, <2>8, <2>9, <2>10 DEF Same, Fields
    <2>12. Benign(s, u)
      BY <2>3, <2>7, <2>8, <2>9, <2>10, BenignTwice
    <2> QED
      BY <2>9, <2>10, <2>11, <2>12 DEF Core, Benign, u
  <1>5. CASE s.pending = << >>
    BY <1>2, <1>5, BenignOnce DEF Benign, u
  <1> QED
    BY <1>4, <1>5

LEMMA TickMadeUp ==
    ASSUME NEW s, Core(s)
    PROVE  LET u == AnotherTick(s)
           IN  /\ Core(u) /\ Calm(s, u) /\ u.nesting = s.nesting /\ u.pended = s.pended
               /\ s.pending = << >> => u.pending = << >>
  <1> DEFINE v == Advance(s)
             u == AnotherTick(s)
  <1>1. /\ Core(v) /\ Calm(s, v) /\ v.nesting = s.nesting /\ v.pended = s.pended
        /\ s.pending = << >> => v.pending = << >>
    BY Advanced
  <1>2. u = [v EXCEPT !.yield = SwitchRequired(s)]
    BY DEF AnotherTick
  <1> HIDE DEF u, v
  <1>3. Core(u) /\ Benign(v, u) /\ Same(v, u, {"yield"})
    BY <1>1, <1>2, Yields
  <1>4. u.nesting = v.nesting /\ u.pended = v.pended /\ u.pending = v.pending
    BY <1>3 DEF Same, Fields
  <1> QED
    BY <1>1, <1>3, <1>4, CalmTwice DEF Benign, u

(***************************************************************************)
(* MakeUpTicks is defined by recursion.                                    *)
(***************************************************************************)
MakesUp(s, after, n) == after = [i \in 0 .. n |-> IF i = 0 THEN s ELSE AnotherTick(after[i - 1])]

LEMMA MakesUpExists ==
    ASSUME NEW s, NEW n \in Nat
    PROVE  \E after : MakesUp(s, after, n)
  <1> DEFINE P == {m \in 0 .. n : \E after : MakesUp(s, after, m)}
  <1>1. 0 \in P
    <2> DEFINE g == [i \in 0 .. 0 |-> s]
    <2>1. g = [i \in 0 .. 0 |-> IF i = 0 THEN s ELSE AnotherTick(g[i - 1])]
      OBVIOUS
    <2> HIDE DEF g
    <2> QED
      BY <2>1 DEF MakesUp
  <1>2. ASSUME NEW m \in 1 .. n, m - 1 \in P PROVE m \in P
    <2>1. PICK g : MakesUp(s, g, m - 1)
      BY <1>2
    <2>2. g = [i \in 0 .. m - 1 |-> IF i = 0 THEN s ELSE AnotherTick(g[i - 1])]
      BY <2>1 DEF MakesUp
    <2> DEFINE last == AnotherTick(g[m - 1])
               h == [i \in 0 .. m |-> IF i = m THEN last ELSE g[i]]
    <2> HIDE DEF last
    <2>3. \A i \in 0 .. m : h[i] = IF i = 0 THEN s ELSE AnotherTick(h[i - 1])
      <3> TAKE i \in 0 .. m
      <3>1. CASE i = m
        <4>1. h[i] = last /\ h[i - 1] = g[m - 1]
          BY <3>1
        <4> QED
          BY <4>1, <3>1 DEF last
      <3>2. CASE i < m
        <4>1. h[i] = g[i] /\ i \in 0 .. m - 1
          BY <3>2
        <4>2. i # 0 => h[i - 1] = g[i - 1]
          BY <3>2
        <4> QED
          BY <4>1, <4>2, <2>2
      <3> QED
        BY <3>1, <3>2
    <2>4. h = [i \in 0 .. m |-> h[i]]
      OBVIOUS
    <2> HIDE DEF h
    <2>5. h = [i \in 0 .. m |-> IF i = 0 THEN s ELSE AnotherTick(h[i - 1])]
      BY <2>3, <2>4
    <2>6. MakesUp(s, h, m)
      BY <2>5 DEF MakesUp
    <2>7. m \in 0 .. n
      OBVIOUS
    <2> QED
      BY <2>6, <2>7
  <1> HIDE DEF P
  <1>3. P = 0 .. n
    BY <1>1, <1>2, UpTo DEF P
  <1> QED
    BY <1>3 DEF P

LEMMA TicksMadeUp ==
    ASSUME NEW s, Core(s), s.pending = << >>
    PROVE  LET u == MakeUpTicks(s)
           IN  Core(u) /\ Calm(s, u) /\ u.nesting = s.nesting /\ u.pended = 0 /\ u.pending = << >>
  <1> DEFINE u == MakeUpTicks(s)
             n == s.pended
             after == CHOOSE f : MakesUp(s, f, n)
  <1>1. n \in Nat
    BY CoreParts
  <1>2. u = [after[n] EXCEPT !.pended = 0]
    BY DEF MakeUpTicks, MakesUp
  <1>3. MakesUp(s, after, n)
    BY <1>1, MakesUpExists
  <1> HIDE DEF after, u
  <1>4. after[0] = s /\ \A i \in 1 .. n : after[i] = AnotherTick(after[i - 1])
    <2>1. \A i \in 0 .. n : after[i] = IF i = 0 THEN s ELSE AnotherTick(after[i - 1])
      BY <1>1, <1>3 DEF MakesUp
    <2>2. 0 \in 0 .. n /\ \A i \in 1 .. n : i \in 0 .. n /\ i # 0
      BY <1>1
    <2> QED
      BY <2>1, <2>2
  <1> DEFINE Good(r) == Core(r) /\ Calm(s, r) /\ r.nesting = s.nesting /\ r.pending = << >>
             P == {i \in 0 .. n : Good(after[i])}
  <1>5. 0 \in P
    <2>1. Good(s)
      BY BenignOnce DEF Benign
    <2> QED
      BY <2>1, <1>1, <1>4
  <1>6. ASSUME NEW i \in 1 .. n, i - 1 \in P PROVE i \in P
    <2> DEFINE r == after[i - 1]
               v == AnotherTick(r)
    <2>1. Core(r) /\ Calm(s, r) /\ r.nesting = s.nesting /\ r.pending = << >>
      BY <1>6
    <2> HIDE DEF r
    <2>2. /\ Core(v) /\ Calm(r, v) /\ v.nesting = r.nesting /\ v.pending = << >>
      BY <2>1, TickMadeUp
    <2>3. after[i] = v /\ i \in 0 .. n
      BY <1>4 DEF r
    <2> HIDE DEF v
    <2>4. Good(v)
      BY <2>1, <2>2, CalmTwice
    <2> QED
      BY <2>3, <2>4
  <1> HIDE DEF P
  <1>7. P = 0 .. n
    BY <1>1, <1>5, <1>6, UpTo DEF P
  <1> DEFINE r == after[n]
  <1>8. Good(r)
    BY <1>1, <1>7 DEF P
  <1>9. u = [r EXCEPT !.pended = 0]
    BY <1>2
  <1> HIDE DEF r
  <1>10. /\ Lists(r, {}) /\ Times(r) /\ DOMAIN r = Fields /\ r.nesting \in Nat /\ r.overflows \in Nat
    BY <1>8, CoreParts
  <1>11. Same(r, u, {"pended"}) /\ u.pended = 0
    BY <1>9, <1>10 DEF Same, Fields
  <1>12. u.nesting = r.nesting /\ u.pending = r.pending /\ u.overflows = r.overflows
         /\ u.nesting \in Nat /\ u.overflows \in Nat /\ u.pended \in Nat
    BY <1>10, <1>11 DEF Same, Fields
  <1>13. Same(r, u, {"yield", "value", "flags", "held", "nesting", "pended", "overflows"})
    BY <1>11 DEF Same
  <1>14. Lists(u, {}) /\ Times(u) /\ Calm(r, u)
    BY <1>10, <1>11, <1>12, <1>13, Unconcerned
  <1> QED
    BY <1>8, <1>11, <1>12, <1>14, CalmTwice DEF Core, u

(***************************************************************************)
(* What follows when the scheduler may have switched.                      *)
(***************************************************************************)
Goes(s, u) ==
    /\ NobodyWaits(s, u) /\ Settled(u)
    /\ \/ u.current = s.current /\ (Awake(s, s.current) => Awake(u, u.current))
       \/ u.nesting = 0 /\ Awake(u, u.current)

Moves(s, u) ==
    /\ Goes(s, u) /\ u.nesting = s.nesting
    /\ s.nesting > 0 => u.tick = s.tick /\ u.current = s.current

LEMMA Switched ==
    ASSUME NEW s, Core(s), Settled(s), NEW u \in Switch(s)
    PROVE  /\ Core(u) /\ Settled(u) /\ Same(s, u, {"yield", "top", "current"}) /\ NobodyWaits(s, u)
           /\ s.nesting > 0 => Benign(s, u)
           /\ s.nesting = 0 => Awake(u, u.current)
  <1>1. /\ Types(s) /\ StateLists(s) /\ EventLists(s, {}) /\ IdleWaits(s) /\ Times(s)
        /\ DOMAIN s = Fields /\ s.nesting \in Nat /\ s.pending \in Seq(Task)
        /\ \A p \in Priority : s.ready[p] \subseteq Task
    BY CoreParts
  <1>2. CASE s.nesting > 0
    <2>1. u = [s EXCEPT !.yield = TRUE]
      BY <1>2 DEF Switch
    <2>2. Core(u) /\ Benign(s, u) /\ Same(s, u, {"yield"})
      BY <2>1, Yields
    <2>3. Same(s, u, {"yield", "top", "current"})
      BY <2>2 DEF Same
    <2> QED
      BY <2>2, <2>3, <1>2, <1>1 DEF Benign, Calm
  <1>3. CASE ~ (s.nesting > 0)
    <2> DEFINE T == {p \in 0 .. s.top : s.ready[p] # {}}
               highest == Max(T)
    <2>1. /\ s.nesting = 0 /\ s.pending = << >> /\ s.pended = 0
      BY <1>1, <1>3 DEF Settled
    <2>2. PICK t \in s.ready[highest] : u = [s EXCEPT !.yield = FALSE, !.top = highest, !.current = t]
      BY <1>3 DEF Switch
    <2>3. s.top \in Nat /\ s.top \in Priority /\ s.prio[Idle] \in 0 .. s.top /\ s.prio[Idle] \in Int
          /\ Idle \in s.ready[s.prio[Idle]] /\ 0 .. s.top \subseteq Priority
      <3>1. s.top \in Priority /\ s.prio[Idle] \in Priority /\ s.prio[Idle] <= s.top /\ Idle \in s.ready[s.prio[Idle]]
        BY <1>1, Constants DEF Types, IdleWaits, Awake
      <3>2. Priority = 0 .. configMAX_PRIORITIES - 1 /\ configMAX_PRIORITIES \in Nat \ {0}
        BY Constants
      <3> QED
        BY <3>1, <3>2
    <2>4. T \in SUBSET (0 .. s.top) /\ s.prio[Idle] \in T /\ T # {}
      BY <2>3
    <2>5. highest \in T /\ s.prio[Idle] <= highest
      <3> HIDE DEF T
      <3> QED
        BY <2>3, <2>4, MostExists
    <2>6. highest \in Priority
      BY <2>3, <2>4, <2>5
    <2> HIDE DEF highest, T
    <2>7. /\ Same(s, u, {"yield", "top", "current"}) /\ u.top = highest /\ u.current = t
      BY <1>1, <2>2 DEF Same, Fields
    <2>8. /\ DOMAIN u = Fields /\ u.pending = s.pending /\ u.events = s.events
          /\ u.ready = s.ready /\ u.delayed = s.delayed /\ u.overflow = s.overflow
          /\ u.suspended = s.suspended /\ u.terminating = s.terminating /\ u.wake = s.wake
          /\ u.item = s.item /\ u.prio = s.prio /\ u.base = s.base /\ u.notify = s.notify
          /\ u.tick = s.tick /\ u.next = s.next
          /\ u.nesting = s.nesting /\ u.pended = s.pended /\ u.overflows = s.overflows
      BY <2>7 DEF Same, Fields
    <2>9. t \in Task /\ s.prio[t] = highest
      BY <1>1, <2>2, <2>6 DEF StateLists
    <2>10. Awake(u, u.current)
      BY <2>2, <2>7, <2>8, <2>9 DEF Awake
    <2>11. Types(u)
      BY <1>1, <2>6, <2>7, <2>8, <2>9 DEF Types
    <2>12. StateLists(u) /\ Times(u)
      BY <1>1, <2>8 DEF StateLists, Blocked, Times
    <2>13. Blocked(u) = Blocked(s)
      BY <2>8 DEF Blocked
    <2>14. EventLists(u, {})
      <3>1. u.current \notin Range(u.pending)
        BY <2>1, <2>8, Empty
      <3> QED
        BY <1>1, <2>8, <2>13, <3>1 DEF EventLists
    <2>15. IdleWaits(u)
      BY <1>1, <2>5, <2>7, <2>8 DEF IdleWaits, Awake
    <2>16. NobodyWaits(s, u)
      BY <2>8 DEF NobodyWaits, BeginsNoWait
    <2>17. Settled(u)
      BY <2>1, <2>8 DEF Settled
    <2> QED
      BY <2>7, <2>10, <2>11, <2>12, <2>14, <2>15, <2>16, <2>17, <1>3 DEF Core, Lists
  <1> QED
    BY <1>2, <1>3

LEMMA Movement ==
    ASSUME NEW s, NEW v, Settled(s), Core(v), Benign(s, v), NEW required, NEW u \in SwitchIf(required, v)
    PROVE  Core(u) /\ Moves(s, u)
  <1>1. Settled(v) /\ Calm(s, v) /\ v.nesting = s.nesting /\ (s.nesting > 0 => v.tick = s.tick)
        /\ v.current = s.current /\ v.nesting \in Nat
    BY CoreParts DEF Benign, Calm
  <1>2. CASE ~ required
    <2>1. u = v
      BY <1>2 DEF SwitchIf
    <2> QED
      BY <1>1, <2>1 DEF Moves, Goes, Calm
  <1>3. CASE required
    <2>1. u \in Switch(v)
      BY <1>3 DEF SwitchIf
    <2>2. /\ Core(u) /\ Settled(u) /\ Same(v, u, {"yield", "top", "current"}) /\ NobodyWaits(v, u)
          /\ v.nesting > 0 => Benign(v, u)
          /\ v.nesting = 0 => Awake(u, u.current)
      BY <1>1, <2>1, Switched
    <2>3. u.nesting = v.nesting /\ u.tick = v.tick
      BY <2>2 DEF Same, Fields
    <2>4. NobodyWaits(s, u)
      BY <1>1, <2>2 DEF Calm, NobodyWaits, BeginsNoWait
    <2>5. CASE v.nesting > 0
      <3>1. Calm(s, u) /\ u.current = s.current
        BY <1>1, <2>2, <2>5, CalmTwice DEF Benign, Calm
      <3> QED
        BY <1>1, <2>2, <2>3, <2>4, <2>5, <3>1 DEF Moves, Goes, Calm
    <2>6. CASE v.nesting = 0
      BY <1>1, <2>2, <2>3, <2>4, <2>6 DEF Moves, Goes
    <2> QED
      BY <1>1, <2>5, <2>6
  <1> QED
    BY <1>2, <1>3

LEMMA ResumedCore ==
    ASSUME NEW s, Core(s), s.nesting > 0
    PROVE  LET u == Resumed(s)
           IN  Core(u) /\ Calm(s, u) /\ u.nesting = s.nesting - 1 /\ Settled(u)
  <1> DEFINE v == [s EXCEPT !.nesting = @ - 1]
             u == Resumed(s)
  <1>1. /\ Lists(s, {}) /\ Times(s) /\ DOMAIN s = Fields /\ s.nesting \in Nat /\ s.pended \in Nat /\ s.overflows \in Nat
    BY CoreParts
  <1>2. u = IF v.nesting > 0 THEN v ELSE MakeUpTicks(MovePending(v))
    BY DEF Resumed
  <1>3. Same(s, v, {"nesting"}) /\ v.nesting = s.nesting - 1
    BY <1>1 DEF Same, Fields
  <1> HIDE DEF u, v
  <1>4. v.pended \in Nat /\ v.overflows \in Nat /\ v.nesting \in Nat
    BY <1>1, <1>3 DEF Same, Fields
  <1>5. Same(s, v, {"yield", "value", "flags", "held", "nesting", "pended", "overflows"})
    BY <1>3 DEF Same
  <1>7. Calm(s, v) /\ Lists(v, {}) /\ Times(v)
    BY <1>1, <1>4, <1>5, Unconcerned
  <1>8. CASE v.nesting > 0
    BY <1>2, <1>3, <1>4, <1>7, <1>8 DEF Core, Settled, u
  <1>9. CASE ~ (v.nesting > 0)
    <2> DEFINE m == MovePending(v)
               w == MakeUpTicks(m)
    <2>1. Core(m) /\ Calm(v, m) /\ m.nesting = v.nesting /\ m.pended = v.pended /\ m.pending = << >>
      BY <1>7, PendingMoved DEF Core
    <2> HIDE DEF m
    <2>2. Core(w) /\ Calm(m, w) /\ w.nesting = m.nesting /\ w.pended = 0 /\ w.pending = << >>
      BY <2>1, TicksMadeUp
    <2>3. u = w
      BY <1>2, <1>9 DEF m
    <2> HIDE DEF w
    <2>4. Calm(s, w)
      BY <1>7, <2>1, <2>2, CalmTwice
    <2> QED
      BY <1>3, <2>1, <2>2, <2>3, <2>4 DEF Settled, u
  <1> QED
    BY <1>8, <1>9

LEMMA ResumedAll ==
    ASSUME NEW s, Core(s), s.nesting > 0, NEW u \in ResumeAll(s)
    PROVE  /\ Core(u) /\ Goes(s, u) /\ u.nesting = s.nesting - 1
           /\ AlreadyYielded(s) => u.nesting = 0 /\ Awake(u, u.current)
           /\ u.nesting > 0 => u.current = s.current
  <1> DEFINE v == Resumed(s)
  <1>1. Core(v) /\ Calm(s, v) /\ v.nesting = s.nesting - 1 /\ Settled(v)
    BY ResumedCore
  <1>2. u \in SwitchIf(AlreadyYielded(s), v)
    BY DEF ResumeAll
  <1>3. AlreadyYielded(s) => v.nesting = 0
    BY DEF AlreadyYielded
  <1> HIDE DEF v
  <1>4. CASE ~ AlreadyYielded(s)
    <2>1. u = v
      BY <1>2, <1>4 DEF SwitchIf
    <2> QED
      BY <1>1, <1>4, <2>1 DEF Goes, Calm
  <1>5. CASE AlreadyYielded(s)
    <2>1. u \in Switch(v)
      BY <1>2, <1>5 DEF SwitchIf
    <2>2. /\ Core(u) /\ Settled(u) /\ Same(v, u, {"yield", "top", "current"}) /\ NobodyWaits(v, u)
          /\ Awake(u, u.current)
      BY <1>1, <1>3, <1>5, <2>1, Switched
    <2>3. u.nesting = 0 /\ v.nesting = 0
      BY <1>3, <1>5, <2>2 DEF Same, Fields
    <2>4. NobodyWaits(s, u)
      BY <1>1, <2>2 DEF Calm, NobodyWaits, BeginsNoWait
    <2>5. Goes(s, u)
      BY <2>2, <2>3, <2>4 DEF Goes
    <2>6. u.nesting = s.nesting - 1
      BY <1>1, <2>3
    <2>7. u.nesting \in Nat
      BY <2>2, CoreParts
    <2>8. u.nesting > 0 => u.current = s.current
      BY <2>3
    <2>9. AlreadyYielded(s) => u.nesting = 0 /\ Awake(u, u.current)
      BY <2>2, <2>3
    <2>10. Core(u)
      BY <2>2
    <2> QED
      BY <2>5, <2>6, <2>8, <2>9, <2>10
  <1> QED
    BY <1>4, <1>5

LEMMA AllSuspended ==
    ASSUME NEW s, Core(s)
    PROVE  LET u == SuspendAll(s)
           IN  /\ Core(u) /\ Calm(s, u) /\ u.nesting = s.nesting + 1 /\ Settled(u) /\ u.tick = s.tick
               /\ u.events = s.events /\ u.flags = s.flags
  <1> DEFINE u == SuspendAll(s)
  <1>1. /\ Lists(s, {}) /\ Times(s) /\ DOMAIN s = Fields /\ s.nesting \in Nat /\ s.pended \in Nat /\ s.overflows \in Nat
    BY CoreParts
  <1>2. Same(s, u, {"nesting"}) /\ u.nesting = s.nesting + 1
    BY <1>1 DEF SuspendAll, Same, Fields
  <1> HIDE DEF u
  <1>3. /\ u.pended \in Nat /\ u.overflows \in Nat /\ u.nesting \in Nat /\ u.nesting # 0 /\ u.tick = s.tick
        /\ u.events = s.events /\ u.flags = s.flags
    BY <1>1, <1>2 DEF Same, Fields
  <1>4. Same(s, u, {"yield", "value", "flags", "held", "nesting", "pended", "overflows"})
    BY <1>2 DEF Same
  <1>5. Lists(u, {}) /\ Times(u) /\ Calm(s, u)
    BY <1>1, <1>3, <1>4, Unconcerned
  <1> QED
    BY <1>2, <1>3, <1>5 DEF Core, Settled, u

(***************************************************************************)
(* Waiting for an event.                                                   *)
(***************************************************************************)
LEMMA AwakeIsFree ==
    ASSUME NEW s, Core(s), NEW t \in Task, Awake(s, t)
    PROVE  /\ t \notin Blocked(s) /\ t \notin s.terminating
           /\ \A l \in EventList : t \notin Range(s.events[l])
  <1>1. StateLists(s) /\ EventLists(s, {}) /\ s.prio[t] \in Priority
    BY CoreParts
  <1>2. t \notin Blocked(s) /\ t \notin s.terminating
    BY <1>1 DEF StateLists, Awake
  <1> QED
    BY <1>1, <1>2 DEF EventLists

\* v is s once the current task has taken its place in the event list l.
Enters(s, v, l, list) ==
    /\ Same(s, v, {"events", "flags", "item"})
    /\ v.events = [s.events EXCEPT ![l] = list]
    /\ v.item \in [Task -> 0 .. configMAX_PRIORITIES]
    /\ \A x \in Task \ {s.current} : v.item[x] = s.item[x]
    /\ l \in Semaphore => v.item[s.current] > 0

\* The current task is in an event list and not asleep yet.
HasEntered(s, v) ==
    /\ Lists(v, {v.current}) /\ Times(v) /\ v.current = s.current /\ v.tick = s.tick
    /\ v.nesting = s.nesting /\ v.pending = s.pending /\ v.pended = s.pended
    /\ \A x \in Task \ {s.current} : BeginsNoWait(s, v, x)

LEMMA Entered ==
    ASSUME NEW s, Core(s), Awake(s, s.current), s.notify[s.current] # "WAITING",
           NEW l \in EventList, NEW list \in Seq(Task), NEW v, Enters(s, v, l, list),
           Range(list) = Range(s.events[l]) \cup {s.current},
           IsInjective(s.events[l]) /\ s.current \notin Range(s.events[l]) => IsInjective(list)
    PROVE  HasEntered(s, v)
  <1> DEFINE t == s.current
  <1>0. /\ Same(s, v, {"events", "flags", "item"})
        /\ v.events = [s.events EXCEPT ![l] = list]
        /\ v.item \in [Task -> 0 .. configMAX_PRIORITIES]
        /\ \A x \in Task \ {s.current} : v.item[x] = s.item[x]
        /\ l \in Semaphore => v.item[s.current] > 0
    BY DEF Enters
  <1>1. /\ Types(s) /\ StateLists(s) /\ EventLists(s, {}) /\ IdleWaits(s) /\ Times(s) /\ t \in Task
        /\ \A m \in EventList : s.events[m] \in Seq(Task)
        /\ s.pending \in Seq(Task)
    BY CoreParts
  <1>2. /\ DOMAIN v = Fields /\ v.pending = s.pending
        /\ v.ready = s.ready /\ v.delayed = s.delayed /\ v.overflow = s.overflow
        /\ v.suspended = s.suspended /\ v.terminating = s.terminating /\ v.wake = s.wake
        /\ v.prio = s.prio /\ v.base = s.base /\ v.notify = s.notify /\ v.top = s.top
        /\ v.tick = s.tick /\ v.next = s.next /\ v.current = t
        /\ v.nesting = s.nesting /\ v.pended = s.pended /\ v.overflows = s.overflows
    BY <1>0 DEF Same, Fields
  <1> HIDE DEF t
  <1>3. \A m \in EventList : t \notin Range(s.events[m])
    BY <1>1, AwakeIsFree DEF t
  <1>4. t \notin Range(s.pending) /\ s.notify[t] # "WAITING"
    BY <1>1 DEF EventLists, t
  <1>5. s.events \in [EventList -> Seq(Task)]
    BY <1>1 DEF Types
  <1>6. v.events \in [EventList -> Seq(Task)] /\ \A m \in EventList : v.events[m] = IF m = l THEN list ELSE s.events[m]
    BY <1>0, <1>5
  <1>7. /\ \A m \in EventList : \A x : x \in Range(v.events[m]) <=> x \in Range(s.events[m]) \/ (m = l /\ x = t)
        /\ \A m \in EventList : IsInjective(v.events[m])
    <2>1. \A m \in EventList : IsInjective(s.events[m])
      BY <1>1 DEF EventLists
    <2>2. IsInjective(list)
      BY <1>3, <2>1 DEF t
    <2> QED
      BY <1>6, <2>1, <2>2 DEF t
  <1>8. Types(v)
    BY <1>0, <1>1, <1>2, <1>6 DEF Types
  <1>9. StateLists(v) /\ IdleWaits(v) /\ Times(v)
    BY <1>1, <1>2 DEF StateLists, Blocked, IdleWaits, Awake, Times
  <1>10. EventLists(v, {t})
    <2>1. Blocked(v) = Blocked(s) /\ (Awake(v, v.current) <=> Awake(s, t))
      BY <1>2 DEF Blocked, Awake
    <2>2. ASSUME NEW m \in EventList, NEW n \in EventList, m # n PROVE Range(v.events[m]) \cap Range(v.events[n]) = {}
      <3>1. Range(s.events[m]) \cap Range(s.events[n]) = {}
        BY <1>1, <2>2 DEF EventLists
      <3>2. ASSUME NEW x \in Range(v.events[m]), x \in Range(v.events[n]) PROVE FALSE
        <4>1. x \in Range(s.events[m]) \/ (m = l /\ x = t)
          BY <1>7, <3>2
        <4>2. x \in Range(s.events[n]) \/ (n = l /\ x = t)
          BY <1>7, <3>2
        <4> QED
          BY <4>1, <4>2, <3>1, <2>2, <1>3
      <3> QED
        BY <3>2
    <2>3. ASSUME NEW m \in EventList, NEW x \in Range(v.events[m])
          PROVE  x \in Blocked(v) \cup {t} /\ x \notin Range(v.pending) /\ v.notify[x] # "WAITING"
      <3>1. CASE x = t
        BY <3>1, <1>2, <1>4
      <3>2. CASE x # t
        <4>1. x \in Range(s.events[m])
          BY <1>7, <2>3, <3>2
        <4> QED
          BY <4>1, <1>1, <1>2, <2>1 DEF EventLists
      <3> QED
        BY <3>1, <3>2
    <2>4. ASSUME NEW q \in Semaphore, NEW x \in Range(v.events[q]) PROVE v.item[x] > 0
      <3>1. CASE x = t
        <4>1. q \in EventList /\ q = l
          BY <1>3, <1>7, <2>4, <3>1, Constants
        <4> QED
          BY <1>0, <3>1, <4>1 DEF t
      <3>2. CASE x # t
        <4>1. q \in EventList /\ x \in Range(s.events[q])
          BY <1>7, <2>4, <3>2, Constants
        <4>2. x \in Task
          BY <4>1, <1>1, InList
        <4>3. v.item[x] = s.item[x]
          BY <1>0, <3>2, <4>2 DEF t
        <4> QED
          BY <4>1, <4>3, <1>1 DEF EventLists
      <3> QED
        BY <3>1, <3>2
    <2>5. /\ IsInjective(v.pending)
          /\ \A x \in Range(v.pending) : v.notify[x] # "WAITING"
          /\ Awake(v, v.current) => v.current \notin Range(v.pending)
      BY <1>1, <1>2, <1>4 DEF EventLists
    <2>6. \A m, n \in EventList : m # n => Range(v.events[m]) \cap Range(v.events[n]) = {}
      BY <2>2
    <2>7. \A m \in EventList : \A x \in Range(v.events[m]) :
            x \in Blocked(v) \cup {t} /\ x \notin Range(v.pending) /\ v.notify[x] # "WAITING"
      BY <2>3
    <2>8. \A q \in Semaphore : \A x \in Range(v.events[q]) : v.item[x] > 0
      BY <2>4
    <2>9. \A m \in EventList : IsInjective(v.events[m])
      BY <1>7
    <2> QED
      BY <2>5, <2>6, <2>7, <2>8, <2>9 DEF EventLists
  <1>11. \A x \in Task \ {t} : BeginsNoWait(s, v, x)
    BY <1>0, <1>2 DEF BeginsNoWait, t
  <1> QED
    BY <1>2, <1>8, <1>9, <1>10, <1>11 DEF HasEntered, Lists, t

\* What the current task leaves behind when it begins to wait.
FallsAsleep(s, u, ticks) ==
    /\ Core(u) /\ u.current = s.current /\ u.nesting = s.nesting /\ u.tick = s.tick
    /\ (Settled(s) => Settled(u))
    /\ \A t \in Task \ {s.current} : BeginsNoWait(s, u, t)
    /\ s.current \in u.delayed \cup u.overflow => u.wake[s.current] = Wrap(s.tick + ticks)

LEMMA Slept ==
    ASSUME NEW s, Core(s), s.current # Idle, NEW ticks \in 1 .. portMAX_DELAY, NEW indefinitely
    PROVE  LET u == DelayCurrent(s, ticks, indefinitely)
           IN  /\ FallsAsleep(s, u, ticks) /\ u.notify = s.notify /\ u.item = s.item
  <1> DEFINE u == DelayCurrent(s, ticks, indefinitely)
  <1>1. Lists(s, {s.current})
    <2>1. /\ Types(s) /\ StateLists(s) /\ EventLists(s, {}) /\ IdleWaits(s)
      BY CoreParts
    <2>2. EventLists(s, {s.current})
      BY <2>1 DEF EventLists
    <2> QED
      BY <2>1, <2>2 DEF Lists
  <1>2. /\ Core(u)
        /\ Same(s, u, {"ready", "delayed", "overflow", "suspended", "terminating", "wake", "next"})
        /\ \A t \in Task \ {s.current} : BeginsNoWait(s, u, t)
        /\ s.current \in u.delayed \cup u.overflow => u.wake[s.current] = Wrap(s.tick + ticks)
    BY <1>1, CoreParts, Delayed
  <1> HIDE DEF u
  <1>3. /\ u.current = s.current /\ u.nesting = s.nesting /\ u.tick = s.tick /\ u.pended = s.pended
        /\ u.pending = s.pending /\ u.notify = s.notify /\ u.item = s.item
    BY <1>2 DEF Same, Fields
  <1> QED
    BY <1>2, <1>3 DEF FallsAsleep, Settled, u

LEMMA EnteredAndSlept ==
    ASSUME NEW s, NEW v, HasEntered(s, v), s.current # Idle,
           NEW ticks \in 1 .. portMAX_DELAY, NEW indefinitely
    PROVE  LET u == DelayCurrent(v, ticks, indefinitely)
           IN  FallsAsleep(s, u, ticks) /\ u.notify = v.notify /\ u.item = v.item
  <1> DEFINE u == DelayCurrent(v, ticks, indefinitely)
  <1>0. /\ Lists(v, {v.current}) /\ Times(v) /\ v.current = s.current /\ v.tick = s.tick
        /\ v.nesting = s.nesting /\ v.pending = s.pending /\ v.pended = s.pended
        /\ \A x \in Task \ {s.current} : BeginsNoWait(s, v, x)
    BY DEF HasEntered
  <1>1. /\ Core(u)
        /\ Same(v, u, {"ready", "delayed", "overflow", "suspended", "terminating", "wake", "next"})
        /\ \A t \in Task \ {s.current} : BeginsNoWait(v, u, t)
        /\ s.current \in u.delayed \cup u.overflow => u.wake[s.current] = Wrap(s.tick + ticks)
    BY <1>0, Delayed
  <1> HIDE DEF u
  <1>2. /\ u.current = s.current /\ u.nesting = s.nesting /\ u.tick = s.tick /\ u.pended = s.pended
        /\ u.pending = s.pending /\ u.notify = v.notify /\ u.item = v.item
    BY <1>0, <1>1 DEF Same, Fields
  <1>3. \A t \in Task \ {s.current} : BeginsNoWait(s, u, t)
    BY <1>0, <1>1 DEF BeginsNoWait
  <1> QED
    BY <1>0, <1>1, <1>2, <1>3 DEF FallsAsleep, Settled, u

LEMMA Placed ==
    ASSUME NEW s, Core(s), Awake(s, s.current), s.notify[s.current] # "WAITING", s.current # Idle,
           NEW l \in EventList, l \in Semaphore => s.item[s.current] > 0,
           NEW ticks \in 1 .. portMAX_DELAY
    PROVE  LET u == PlaceOnEventList(s, l, ticks)
           IN  FallsAsleep(s, u, ticks) /\ u.notify = s.notify /\ u.item = s.item
  <1> DEFINE list == InsertByItem(s, s.events[l], s.current)
             v == [s EXCEPT !.events[l] = list]
             u == PlaceOnEventList(s, l, ticks)
  <1>1. /\ s.events[l] \in Seq(Task) /\ s.current \in Task /\ DOMAIN s = Fields
        /\ s.item \in [Task -> 0 .. configMAX_PRIORITIES]
    BY CoreParts DEF Types
  <1>2. u = DelayCurrent(v, ticks, TRUE)
    BY DEF PlaceOnEventList
  <1>3. /\ list \in Seq(Task) /\ Range(list) = Range(s.events[l]) \cup {s.current}
        /\ IsInjective(s.events[l]) /\ s.current \notin Range(s.events[l]) => IsInjective(list)
    <2>1. \A r \in Seq(Task) : \A x \in Task :
            /\ InsertByItem(s, r, x) \in Seq(Task) /\ Range(InsertByItem(s, r, x)) = Range(r) \cup {x}
            /\ IsInjective(r) /\ x \notin Range(r) => IsInjective(InsertByItem(s, r, x))
      BY InsertedByItem
    <2> QED
      BY <1>1, <2>1
  <1> HIDE DEF list, u
  <1>4. Same(s, v, {"events"}) /\ v.events = [s.events EXCEPT ![l] = list]
    BY <1>1 DEF Same, Fields
  <1> HIDE DEF v
  <1>5. /\ v.item = s.item /\ v.nesting = s.nesting /\ v.pending = s.pending /\ v.pended = s.pended
        /\ v.notify = s.notify
    BY <1>4 DEF Same, Fields
  <1>6. Same(s, v, {"events", "flags", "item"})
    BY <1>4 DEF Same
  <1>7. HasEntered(s, v)
    <2>1. Enters(s, v, l, list)
      BY <1>1, <1>4, <1>5, <1>6 DEF Enters
    <2> QED
      BY <1>1, <1>3, <2>1, Entered
  <1>8. FallsAsleep(s, u, ticks) /\ u.notify = v.notify /\ u.item = v.item
    BY <1>2, <1>7, EnteredAndSlept
  <1> QED
    BY <1>5, <1>8 DEF u

LEMMA PlacedUnordered ==
    ASSUME NEW s, Core(s), Awake(s, s.current), s.notify[s.current] # "WAITING", s.current # Idle,
           NEW flags, NEW ticks \in 1 .. portMAX_DELAY
    PROVE  LET u == PlaceOnUnorderedEventList(s, TasksWaitingForBits, flags, ticks)
           IN  FallsAsleep(s, u, ticks) /\ u.notify = s.notify
  <1> DEFINE l == TasksWaitingForBits
             list == Append(s.events[l], s.current)
             v == [s EXCEPT !.events[l] = list, !.flags[s.current] = flags, !.item[s.current] = 0]
             u == PlaceOnUnorderedEventList(s, l, flags, ticks)
  <1>1. /\ s.events[l] \in Seq(Task) /\ s.current \in Task /\ DOMAIN s = Fields /\ l \in EventList /\ l \notin Semaphore
        /\ s.item \in [Task -> 0 .. configMAX_PRIORITIES] /\ configMAX_PRIORITIES \in Nat
    BY CoreParts, Constants DEF Types
  <1>2. u = DelayCurrent(v, ticks, TRUE)
    BY DEF PlaceOnUnorderedEventList
  <1>3. /\ list \in Seq(Task) /\ Range(list) = Range(s.events[l]) \cup {s.current}
        /\ IsInjective(s.events[l]) /\ s.current \notin Range(s.events[l]) => IsInjective(list)
    BY <1>1, Appended
  <1> HIDE DEF list, u, l
  <1>4. /\ Same(s, v, {"events", "flags", "item"}) /\ v.events = [s.events EXCEPT ![l] = list]
        /\ v.item = [s.item EXCEPT ![s.current] = 0]
    BY <1>1 DEF Same, Fields
  <1> HIDE DEF v
  <1>5. v.nesting = s.nesting /\ v.pending = s.pending /\ v.pended = s.pended /\ v.notify = s.notify
    BY <1>4 DEF Same, Fields
  <1>6. v.item \in [Task -> 0 .. configMAX_PRIORITIES] /\ \A x \in Task \ {s.current} : v.item[x] = s.item[x]
    BY <1>1, <1>4
  <1>7. HasEntered(s, v)
    <2>1. Enters(s, v, l, list)
      BY <1>1, <1>4, <1>6 DEF Enters
    <2> QED
      BY <1>1, <1>3, <2>1, Entered
  <1>8. FallsAsleep(s, u, ticks) /\ u.notify = v.notify
    BY <1>2, <1>7, EnteredAndSlept
  <1> QED
    BY <1>5, <1>8 DEF u, l

LEMMA PlacedRestricted ==
    ASSUME NEW s, Core(s), Awake(s, s.current), s.notify[s.current] # "WAITING", s.current # Idle,
           NEW l \in EventList, l \in Semaphore => s.item[s.current] > 0,
           NEW ticks, NEW indefinitely, indefinitely \/ ticks \in 1 .. portMAX_DELAY
    PROVE  LET u == PlaceOnEventListRestricted(s, l, ticks, indefinitely)
           IN  \E n : FallsAsleep(s, u, n) /\ u.notify = s.notify /\ u.item = s.item
  <1> DEFINE list == Append(s.events[l], s.current)
             v == [s EXCEPT !.events[l] = list]
             n == IF indefinitely THEN portMAX_DELAY ELSE ticks
             u == PlaceOnEventListRestricted(s, l, ticks, indefinitely)
  <1>1. /\ s.events[l] \in Seq(Task) /\ s.current \in Task /\ DOMAIN s = Fields
        /\ s.item \in [Task -> 0 .. configMAX_PRIORITIES]
    BY CoreParts DEF Types
  <1>2. u = DelayCurrent(v, n, indefinitely) /\ n \in 1 .. portMAX_DELAY
    BY Constants DEF PlaceOnEventListRestricted
  <1>3. /\ list \in Seq(Task) /\ Range(list) = Range(s.events[l]) \cup {s.current}
        /\ IsInjective(s.events[l]) /\ s.current \notin Range(s.events[l]) => IsInjective(list)
    BY <1>1, Appended
  <1> HIDE DEF list, u, n
  <1>4. Same(s, v, {"events"}) /\ v.events = [s.events EXCEPT ![l] = list]
    BY <1>1 DEF Same, Fields
  <1> HIDE DEF v
  <1>5. /\ v.item = s.item /\ v.nesting = s.nesting /\ v.pending = s.pending /\ v.pended = s.pended
        /\ v.notify = s.notify
    BY <1>4 DEF Same, Fields
  <1>6. Same(s, v, {"events", "flags", "item"})
    BY <1>4 DEF Same
  <1>7. HasEntered(s, v)
    <2>1. Enters(s, v, l, list)
      BY <1>1, <1>4, <1>5, <1>6 DEF Enters
    <2> QED
      BY <1>1, <1>3, <2>1, Entered
  <1>8. FallsAsleep(s, u, n) /\ u.notify = v.notify /\ u.item = v.item
    BY <1>2, <1>7, EnteredAndSlept
  <1> QED
    BY <1>5, <1>8 DEF u

-----------------------------------------------------------------------------
(***************************************************************************)
(* The end of a wait.                                                      *)
(***************************************************************************)
LEMMA PendingAppended ==
    ASSUME NEW s, Core(s), s.nesting > 0, NEW t \in Task, t \notin Range(s.pending), s.notify[t] # "WAITING",
           \A l \in EventList : t \notin Range(s.events[l]),
           t = s.current => ~ Awake(s, t)
    PROVE  LET u == [s EXCEPT !.pending = Append(@, t)]
           IN  Core(u) /\ Benign(s, u) /\ Same(s, u, {"pending"})
  <1> DEFINE u == [s EXCEPT !.pending = Append(@, t)]
  <1>1. /\ Types(s) /\ StateLists(s) /\ EventLists(s, {}) /\ IdleWaits(s) /\ Times(s)
        /\ DOMAIN s = Fields /\ s.pending \in Seq(Task)
    BY CoreParts
  <1>2. Same(s, u, {"pending"}) /\ u.pending = Append(s.pending, t)
    BY <1>1 DEF Same, Fields
  <1> HIDE DEF u
  <1>3. /\ u.ready = s.ready /\ u.delayed = s.delayed /\ u.overflow = s.overflow /\ u.suspended = s.suspended
        /\ u.terminating = s.terminating /\ u.wake = s.wake /\ u.events = s.events
        /\ u.item = s.item /\ u.prio = s.prio /\ u.base = s.base /\ u.notify = s.notify
        /\ u.current = s.current /\ u.top = s.top /\ u.tick = s.tick /\ u.next = s.next
        /\ u.nesting = s.nesting /\ u.pended = s.pended /\ u.overflows = s.overflows /\ DOMAIN u = Fields
    BY <1>2 DEF Same, Fields
  <1>4. /\ u.pending \in Seq(Task) /\ Range(u.pending) = Range(s.pending) \cup {t}
        /\ IsInjective(s.pending) => IsInjective(u.pending)
    BY <1>1, <1>2, Appended
  <1>5. Types(u)
    BY <1>1, <1>3, <1>4 DEF Types
  <1>6. StateLists(u) /\ IdleWaits(u) /\ Times(u)
    BY <1>1, <1>3 DEF StateLists, Blocked, IdleWaits, Awake, Times
  <1>7. Blocked(u) = Blocked(s) /\ \A x : Awake(u, x) <=> Awake(s, x)
    BY <1>3 DEF Blocked, Awake
  <1>8. EventLists(u, {})
    <2>1. \A l \in EventList : \A x \in Range(u.events[l]) :
            x \in Blocked(u) /\ x \notin Range(u.pending) /\ u.notify[x] # "WAITING"
      BY <1>1, <1>3, <1>4, <1>7 DEF EventLists
    <2>2. IsInjective(u.pending) /\ \A x \in Range(u.pending) : u.notify[x] # "WAITING"
      BY <1>1, <1>3, <1>4 DEF EventLists
    <2>3. Awake(u, u.current) => u.current \notin Range(u.pending)
      BY <1>1, <1>3, <1>4, <1>7 DEF EventLists
    <2> QED
      BY <1>1, <1>3, <2>1, <2>2, <2>3 DEF EventLists
  <1>9. Benign(s, u)
    BY <1>3, <1>7 DEF Benign, Calm, NobodyWaits, BeginsNoWait, Settled
  <1> QED
    BY <1>2, <1>5, <1>6, <1>8, <1>9 DEF Core, Lists, u

LEMMA Unblocked ==
    ASSUME NEW s, Core(s), NEW t \in Task, t \in Blocked(s), t \notin Range(s.pending), s.notify[t] # "WAITING",
           \A l \in EventList : t \notin Range(s.events[l])
    PROVE  LET u == Unblock(s, t)
           IN  Core(u) /\ Benign(s, u) /\ Same(s, u, StateItems \cup {"pending", "yield"})
  <1> DEFINE u == Unblock(s, t)
             v == IF s.nesting = 0 THEN ResetNext(MakeReady(s, {t})) ELSE [s EXCEPT !.pending = Append(@, t)]
  <1>1. Types(s) /\ StateLists(s) /\ Lists(s, {}) /\ Times(s) /\ s.nesting \in Nat /\ s.prio[t] \in Priority
    BY CoreParts
  <1>2. ~ Awake(s, t)
    BY <1>1 DEF StateLists, Awake
  <1>3. u = v \/ u = [v EXCEPT !.yield = TRUE]
    BY DEF Unblock
  <1>4. Core(v) /\ Benign(s, v) /\ Same(s, v, StateItems \cup {"pending"})
    <2>1. CASE s.nesting = 0
      <3> DEFINE m == MakeReady(s, {t})
      <3>1. {t} \in SUBSET Task /\ \A l \in EventList : {t} \cap Range(s.events[l]) = {}
        OBVIOUS
      <3>2. /\ Lists(m, {}) /\ Times(m) /\ Benign(s, m)
            /\ Same(s, m, {"ready", "delayed", "overflow", "suspended", "terminating", "wake", "top"})
        BY <1>1, <3>1, MadeReady
      <3> HIDE DEF m
      <3>3. /\ Lists(ResetNext(m), {}) /\ Same(m, ResetNext(m), {"next"}) /\ Benign(m, ResetNext(m))
            /\ Times(ResetNext(m))
        BY <3>2, NextReset DEF Times
      <3>4. v = ResetNext(m)
        BY <2>1 DEF m
      <3> HIDE DEF v
      <3>5. Benign(s, v)
        BY <3>2, <3>3, <3>4, BenignTwice
      <3>6. Same(s, v, StateItems \cup {"pending"})
        BY <3>2, <3>3, <3>4 DEF Same, StateItems
      <3> QED
        BY <3>3, <3>4, <3>5, <3>6 DEF Core
    <2>2. CASE s.nesting # 0
      <3>1. s.nesting > 0
        BY <1>1, <2>2
      <3> DEFINE a == [s EXCEPT !.pending = Append(@, t)]
      <3>2. Core(a) /\ Benign(s, a) /\ Same(s, a, {"pending"})
        BY <1>2, <3>1, PendingAppended
      <3>3. v = a
        BY <2>2
      <3> HIDE DEF a, v
      <3>4. Same(s, a, StateItems \cup {"pending"})
        BY <3>2 DEF Same
      <3> QED
        BY <3>2, <3>3, <3>4
    <2> QED
      BY <2>1, <2>2
  <1> HIDE DEF v
  <1>5. CASE u = v
    <2>1. Same(s, u, StateItems \cup {"pending", "yield"})
      BY <1>4, <1>5 DEF Same
    <2> QED
      BY <1>4, <1>5, <2>1
  <1>6. CASE u = [v EXCEPT !.yield = TRUE]
    <2> DEFINE w == [v EXCEPT !.yield = TRUE]
    <2>1. Core(w) /\ Benign(v, w) /\ Same(v, w, {"yield"})
      BY <1>4, Yields
    <2>2. u = w
      BY <1>6
    <2> HIDE DEF w, u
    <2>3. Same(s, w, StateItems \cup {"pending", "yield"})
      BY <1>4, <2>1 DEF Same
    <2> QED
      BY <1>4, <2>1, <2>2, <2>3, BenignTwice DEF u
  <1> QED
    BY <1>3, <1>5, <1>6

LEMMA EventRemoved ==
    ASSUME NEW s, Core(s), NEW l \in EventList, s.events[l] # << >>
    PROVE  LET u == RemoveFromEventList(s, l)
           IN  /\ Core(u) /\ Benign(s, u) /\ Same(s, u, StateItems \cup {"events", "pending", "yield"})
               /\ Len(u.events[l]) = Len(s.events[l]) - 1
  <1> DEFINE t == Head(s.events[l])
             v == [s EXCEPT !.events[l] = Tail(@)]
             u == RemoveFromEventList(s, l)
  <1>1. /\ Types(s) /\ StateLists(s) /\ EventLists(s, {}) /\ IdleWaits(s) /\ Times(s)
        /\ DOMAIN s = Fields /\ \A m \in EventList : s.events[m] \in Seq(Task)
    BY CoreParts
  <1>2. /\ Tail(s.events[l]) \in Seq(Task) /\ t \in Range(s.events[l]) /\ t \in Task
        /\ Len(Tail(s.events[l])) = Len(s.events[l]) - 1
        /\ IsInjective(Tail(s.events[l])) /\ Range(Tail(s.events[l])) = Range(s.events[l]) \ {t}
    <2> DEFINE old == s.events[l]
    <2>1. old \in Seq(Task) /\ old # << >> /\ IsInjective(old)
      BY <1>1 DEF EventLists
    <2> HIDE DEF old
    <2>2. /\ Tail(old) \in Seq(Task) /\ Head(old) \in Range(old) /\ Head(old) \in Task
          /\ Len(Tail(old)) = Len(old) - 1
          /\ IsInjective(Tail(old)) /\ Range(Tail(old)) = Range(old) \ {Head(old)}
      BY <2>1, Tailed
    <2> QED
      BY <2>2 DEF old
  <1>3. u = Unblock(v, t)
    BY DEF RemoveFromEventList
  <1>4. Same(s, v, {"events"}) /\ v.events = [s.events EXCEPT ![l] = Tail(s.events[l])]
    BY <1>1 DEF Same, Fields
  <1> HIDE DEF t, u, v
  <1>5. /\ v.ready = s.ready /\ v.delayed = s.delayed /\ v.overflow = s.overflow /\ v.suspended = s.suspended
        /\ v.terminating = s.terminating /\ v.wake = s.wake /\ v.pending = s.pending
        /\ v.item = s.item /\ v.prio = s.prio /\ v.base = s.base /\ v.notify = s.notify
        /\ v.current = s.current /\ v.top = s.top /\ v.tick = s.tick /\ v.next = s.next
        /\ v.nesting = s.nesting /\ v.pended = s.pended /\ v.overflows = s.overflows /\ DOMAIN v = Fields
    BY <1>4 DEF Same, Fields
  <1>6. s.events \in [EventList -> Seq(Task)]
    BY <1>1 DEF Types
  <1>7. v.events \in [EventList -> Seq(Task)]
        /\ \A m \in EventList : v.events[m] = IF m = l THEN Tail(s.events[l]) ELSE s.events[m]
    BY <1>2, <1>4, <1>6
  <1>8. /\ \A m \in EventList : Range(v.events[m]) \subseteq Range(s.events[m])
        /\ \A m \in EventList : IsInjective(v.events[m])
    <2>1. \A m \in EventList : IsInjective(s.events[m])
      BY <1>1 DEF EventLists
    <2> QED
      BY <1>2, <1>7, <2>1
  <1>9. \A m \in EventList : t \notin Range(v.events[m])
    <2> TAKE m \in EventList
    <2>1. CASE m = l
      BY <1>2, <1>7, <2>1
    <2>2. CASE m # l
      <3>1. Range(s.events[l]) \cap Range(s.events[m]) = {}
        BY <1>1, <2>2 DEF EventLists
      <3> QED
        BY <1>2, <1>7, <2>2, <3>1
    <2> QED
      BY <2>1, <2>2
  <1>10. t \in Blocked(s) /\ t \notin Range(s.pending) /\ s.notify[t] # "WAITING"
    BY <1>1, <1>2 DEF EventLists
  <1>11. Types(v) /\ StateLists(v) /\ IdleWaits(v) /\ Times(v)
    <2>1. Types(v)
      BY <1>1, <1>5, <1>7 DEF Types
    <2> QED
      BY <1>1, <1>5, <2>1 DEF StateLists, Blocked, IdleWaits, Awake, Times
  <1>12. EventLists(v, {})
    <2>1. Blocked(v) = Blocked(s) /\ (Awake(v, v.current) <=> Awake(s, s.current))
      BY <1>5 DEF Blocked, Awake
    <2>2. \A m, n \in EventList : m # n => Range(v.events[m]) \cap Range(v.events[n]) = {}
      BY <1>1, <1>8 DEF EventLists
    <2>3. \A m \in EventList : \A x \in Range(v.events[m]) :
            x \in Blocked(v) /\ x \notin Range(v.pending) /\ v.notify[x] # "WAITING"
      BY <1>1, <1>5, <1>8, <2>1 DEF EventLists
    <2>4. \A q \in Semaphore : \A x \in Range(v.events[q]) : v.item[x] > 0
      BY <1>1, <1>5, <1>8, Constants DEF EventLists
    <2>5. /\ IsInjective(v.pending)
          /\ \A x \in Range(v.pending) : v.notify[x] # "WAITING"
          /\ Awake(v, v.current) => v.current \notin Range(v.pending)
      BY <1>1, <1>5, <2>1 DEF EventLists
    <2> QED
      BY <1>8, <2>2, <2>3, <2>4, <2>5 DEF EventLists
  <1>13. Core(v)
    BY <1>11, <1>12 DEF Core, Lists
  <1>14. Benign(s, v)
    BY <1>5 DEF Benign, Calm, NobodyWaits, BeginsNoWait, Settled, Awake
  <1>15. t \in Blocked(v) /\ t \notin Range(v.pending) /\ v.notify[t] # "WAITING"
    BY <1>5, <1>10 DEF Blocked
  <1>16. Core(u) /\ Benign(v, u) /\ Same(v, u, StateItems \cup {"pending", "yield"})
    BY <1>2, <1>3, <1>9, <1>13, <1>15, Unblocked
  <1>17. Same(s, u, StateItems \cup {"events", "pending", "yield"}) /\ u.events = v.events
    BY <1>4, <1>16 DEF Same, StateItems, Fields
  <1>18. Len(u.events[l]) = Len(s.events[l]) - 1
    BY <1>2, <1>7, <1>17
  <1> QED
    BY <1>14, <1>16, <1>17, <1>18, BenignTwice DEF u

(***************************************************************************)
(* prvUnlockQueue wakes as many as the lock owes; Unlocked is defined by   *)
(* recursion.                                                              *)
(***************************************************************************)
Pays(s, q, paid, n) == paid = [i \in 0 .. n |-> IF i = 0 THEN s ELSE RemoveFromEventList(paid[i - 1], q)]

LEMMA PaysExists ==
    ASSUME NEW s, NEW q, NEW n \in Nat
    PROVE  \E paid : Pays(s, q, paid, n)
  <1> DEFINE P == {m \in 0 .. n : \E paid : Pays(s, q, paid, m)}
  <1>1. 0 \in P
    <2> DEFINE g == [i \in 0 .. 0 |-> s]
    <2>1. g = [i \in 0 .. 0 |-> IF i = 0 THEN s ELSE RemoveFromEventList(g[i - 1], q)]
      OBVIOUS
    <2> HIDE DEF g
    <2> QED
      BY <2>1 DEF Pays
  <1>2. ASSUME NEW m \in 1 .. n, m - 1 \in P PROVE m \in P
    <2>1. PICK g : Pays(s, q, g, m - 1)
      BY <1>2
    <2>2. g = [i \in 0 .. m - 1 |-> IF i = 0 THEN s ELSE RemoveFromEventList(g[i - 1], q)]
      BY <2>1 DEF Pays
    <2> DEFINE last == RemoveFromEventList(g[m - 1], q)
               h == [i \in 0 .. m |-> IF i = m THEN last ELSE g[i]]
    <2> HIDE DEF last
    <2>3. \A i \in 0 .. m : h[i] = IF i = 0 THEN s ELSE RemoveFromEventList(h[i - 1], q)
      <3> TAKE i \in 0 .. m
      <3>1. CASE i = m
        <4>1. h[i] = last /\ h[i - 1] = g[m - 1]
          BY <3>1
        <4> QED
          BY <4>1, <3>1 DEF last
      <3>2. CASE i < m
        <4>1. h[i] = g[i] /\ i \in 0 .. m - 1
          BY <3>2
        <4>2. i # 0 => h[i - 1] = g[i - 1]
          BY <3>2
        <4> QED
          BY <4>1, <4>2, <2>2
      <3> QED
        BY <3>1, <3>2
    <2>4. h = [i \in 0 .. m |-> h[i]]
      OBVIOUS
    <2> HIDE DEF h
    <2>5. h = [i \in 0 .. m |-> IF i = 0 THEN s ELSE RemoveFromEventList(h[i - 1], q)]
      BY <2>3, <2>4
    <2>6. Pays(s, q, h, m)
      BY <2>5 DEF Pays
    <2>7. m \in 0 .. n
      OBVIOUS
    <2> QED
      BY <2>6, <2>7
  <1> HIDE DEF P
  <1>3. P = 0 .. n
    BY <1>1, <1>2, UpTo DEF P
  <1> QED
    BY <1>3 DEF P

\* The lesser of two, and the greater.
LEMMA OfTwo ==
    ASSUME NEW a \in Int, NEW b \in Int
    PROVE  /\ Min({a, b}) = IF a <= b THEN a ELSE b
           /\ Max({a, b}) = IF a >= b THEN a ELSE b
  <1> DEFINE T == {a, b}
             least == IF a <= b THEN a ELSE b
             most == IF a >= b THEN a ELSE b
  <1>1. \A x \in T : (\A y \in T : x <= y) => x = least
    OBVIOUS
  <1>2. least \in T /\ \A y \in T : least <= y
    OBVIOUS
  <1>3. \A x \in T : (\A y \in T : x >= y) => x = most
    OBVIOUS
  <1>4. most \in T /\ \A y \in T : most >= y
    OBVIOUS
  <1> HIDE DEF T, least, most
  <1>5. Min(T) = least
    BY <1>1, <1>2 DEF Min
  <1>6. Max(T) = most
    BY <1>3, <1>4 DEF Max
  <1> QED
    BY <1>5, <1>6 DEF T, least, most

LEMMA UnlockedList ==
    ASSUME NEW s, Core(s), NEW q \in EventList, NEW lock \in Int
    PROVE  LET u == Unlocked(s, q, lock)
           IN  Core(u) /\ Benign(s, u) /\ Same(s, u, StateItems \cup {"events", "pending", "yield"})
  <1> DEFINE k == Len(s.events[q])
             n == Max({0, Min({lock, k})})
             paid == CHOOSE f : Pays(s, q, f, n)
             u == Unlocked(s, q, lock)
  <1>1. k \in Nat /\ DOMAIN s = Fields
    BY CoreParts, InList
  <1>2. n \in 0 .. k
    <2> DEFINE m == Min({lock, k})
    <2> HIDE DEF k
    <2>1. m = IF lock <= k THEN lock ELSE k
      BY <1>1, OfTwo
    <2> HIDE DEF m
    <2>2. m \in Int /\ m <= k
      BY <1>1, <2>1
    <2>3. Max({0, m}) = IF 0 >= m THEN 0 ELSE m
      BY <2>2, OfTwo
    <2>4. n = Max({0, m})
      BY DEF m, k
    <2> HIDE DEF n
    <2> QED
      BY <1>1, <2>2, <2>3, <2>4
  <1>3. u = paid[n]
    BY DEF Unlocked, Pays
  <1> HIDE DEF n, k
  <1>0. n \in Nat
    BY <1>1, <1>2
  <1>4. Pays(s, q, paid, n)
    BY <1>0, PaysExists
  <1> HIDE DEF paid, u
  <1>5. paid[0] = s /\ \A i \in 1 .. n : paid[i] = RemoveFromEventList(paid[i - 1], q)
    <2>1. \A i \in 0 .. n : paid[i] = IF i = 0 THEN s ELSE RemoveFromEventList(paid[i - 1], q)
      BY <1>4 DEF Pays
    <2>2. 0 \in 0 .. n /\ \A i \in 1 .. n : i \in 0 .. n /\ i # 0
      BY <1>1, <1>2
    <2> QED
      BY <2>1, <2>2
  <1> DEFINE Good(r, i) == /\ Core(r) /\ Benign(s, r) /\ Same(s, r, StateItems \cup {"events", "pending", "yield"})
                           /\ Len(r.events[q]) = k - i
             P == {i \in 0 .. n : Good(paid[i], i)}
  <1>6. 0 \in P
    <2>1. Same(s, s, StateItems \cup {"events", "pending", "yield"})
      BY <1>1 DEF Same
    <2>2. Good(s, 0)
      BY <1>1, <2>1, BenignOnce DEF k
    <2> QED
      BY <2>2, <1>1, <1>2, <1>5
  <1>7. ASSUME NEW i \in 1 .. n, i - 1 \in P PROVE i \in P
    <2> DEFINE r == paid[i - 1]
               v == RemoveFromEventList(r, q)
    <2>1. /\ Core(r) /\ Benign(s, r) /\ Same(s, r, StateItems \cup {"events", "pending", "yield"})
          /\ Len(r.events[q]) = k - (i - 1)
      BY <1>7
    <2> HIDE DEF r
    <2>2. r.events[q] # << >>
      <3>1. r.events[q] \in Seq(Task)
        BY <2>1, CoreParts
      <3>2. k - (i - 1) # 0
        BY <1>1, <1>2
      <3> QED
        BY <2>1, <3>1, <3>2, InList
    <2>3. /\ Core(v) /\ Benign(r, v) /\ Same(r, v, StateItems \cup {"events", "pending", "yield"})
          /\ Len(v.events[q]) = Len(r.events[q]) - 1
      BY <2>1, <2>2, EventRemoved
    <2>4. paid[i] = v /\ i \in 0 .. n
      BY <1>5 DEF r
    <2> HIDE DEF v
    <2>5. Benign(s, v)
      BY <2>1, <2>3, BenignTwice
    <2>6. Same(s, v, StateItems \cup {"events", "pending", "yield"})
      BY <2>1, <2>3 DEF Same
    <2>7. Len(v.events[q]) = k - i
      BY <2>1, <2>3, <1>1, <1>2
    <2>8. Good(v, i)
      BY <2>3, <2>5, <2>6, <2>7
    <2> QED
      BY <2>4, <2>8
  <1> HIDE DEF P
  <1>8. P = 0 .. n
    BY <1>0, <1>6, <1>7, UpTo DEF P
  <1>9. Good(paid[n], n)
    <2>1. n \in P
      BY <1>1, <1>2, <1>8
    <2> HIDE DEF Good
    <2> QED
      BY <2>1 DEF P
  <1> QED
    BY <1>3, <1>9 DEF u

(***************************************************************************)
(* The waiters of the event group are looked at one after the other, too.  *)
(***************************************************************************)
LEMMA RemovedUnordered ==
    ASSUME NEW s, Core(s), NEW t \in Task, NEW flags
    PROVE  LET u == RemoveFromUnorderedEventList(s, t, flags)
           IN  Core(u) /\ Benign(s, u)
  <1> DEFINE a == [s EXCEPT !.flags[t] = flags]
             b == Detach(a, {t})
             m == MakeReady(b, {t})
             u == RemoveFromUnorderedEventList(s, t, flags)
  <1>1. /\ Lists(s, {}) /\ Times(s) /\ DOMAIN s = Fields /\ s.nesting \in Nat /\ s.pended \in Nat
        /\ s.overflows \in Nat
    BY CoreParts
  <1>2. u = m \/ u = [m EXCEPT !.yield = TRUE]
    BY DEF RemoveFromUnorderedEventList
  <1>3. Same(s, a, {"flags"})
    BY <1>1 DEF Same, Fields
  <1> HIDE DEF a
  <1>4. /\ a.nesting = s.nesting /\ a.pended = s.pended /\ a.pending = s.pending /\ a.overflows = s.overflows
        /\ a.tick = s.tick
    BY <1>3 DEF Same, Fields
  <1>5. Same(s, a, {"yield", "value", "flags", "held", "nesting", "pended", "overflows"})
    BY <1>3 DEF Same
  <1>6. Lists(a, {}) /\ Times(a) /\ Calm(s, a)
    BY <1>1, <1>4, <1>5, Unconcerned
  <1>7. Benign(s, a)
    BY <1>4, <1>6 DEF Benign, Settled
  <1>8. {} \subseteq {} \cup {t} /\ {t} \in SUBSET Task
    OBVIOUS
  <1>9. /\ Lists(b, {}) /\ Times(b) /\ Benign(a, b)
        /\ \A l \in EventList : Range(b.events[l]) = Range(a.events[l]) \ {t}
        /\ Range(b.pending) = Range(a.pending) \ {t}
    <2> DEFINE ts == {t}
    <2>1. {} \subseteq {} \cup ts
      OBVIOUS
    <2>2. b = Detach(a, ts)
      OBVIOUS
    <2> HIDE DEF ts, b
    <2>3. /\ Lists(b, {}) /\ Times(b) /\ Benign(a, b)
          /\ \A l \in EventList : Range(b.events[l]) = Range(a.events[l]) \ ts
          /\ Range(b.pending) = Range(a.pending) \ ts
      BY <1>6, <2>1, <2>2, Detached
    <2> QED
      BY <2>3 DEF ts
  <1> HIDE DEF b
  <1>10. \A l \in EventList : {t} \cap Range(b.events[l]) = {}
    BY <1>9
  <1>11. b.current \in {t} => b.current \notin Range(b.pending)
    BY <1>9
  <1>12. Lists(m, {}) /\ Times(m) /\ Benign(b, m)
    BY <1>8, <1>9, <1>10, <1>11, MadeReady
  <1> HIDE DEF m
  <1>13. Benign(s, m) /\ Core(m)
    BY <1>7, <1>9, <1>12, BenignTwice DEF Core
  <1> DEFINE y == [m EXCEPT !.yield = TRUE]
  <1>14. Core(y) /\ Benign(m, y)
    BY <1>13, Yields
  <1>15. u = m \/ u = y
    BY <1>2
  <1> HIDE DEF y, u
  <1> QED
    BY <1>13, <1>14, <1>15, BenignTwice DEF u

Wakes(s, list, ts, flags, woken, n) ==
    woken = [i \in 0 .. n |-> IF i = 0 THEN s
                              ELSE IF list[i] \in ts THEN RemoveFromUnorderedEventList(woken[i - 1], list[i], flags)
                              ELSE woken[i - 1]]

LEMMA WakesExists ==
    ASSUME NEW s, NEW list, NEW ts, NEW flags, NEW n \in Nat
    PROVE  \E woken : Wakes(s, list, ts, flags, woken, n)
  <1> DEFINE P == {m \in 0 .. n : \E woken : Wakes(s, list, ts, flags, woken, m)}
  <1>1. 0 \in P
    <2> DEFINE g == [i \in 0 .. 0 |-> s]
    <2>1. g = [i \in 0 .. 0 |-> IF i = 0 THEN s
                                ELSE IF list[i] \in ts THEN RemoveFromUnorderedEventList(g[i - 1], list[i], flags)
                                ELSE g[i - 1]]
      OBVIOUS
    <2> HIDE DEF g
    <2> QED
      BY <2>1 DEF Wakes
  <1>2. ASSUME NEW m \in 1 .. n, m - 1 \in P PROVE m \in P
    <2>1. PICK g : Wakes(s, list, ts, flags, g, m - 1)
      BY <1>2
    <2>2. g = [i \in 0 .. m - 1 |-> IF i = 0 THEN s
                                    ELSE IF list[i] \in ts THEN RemoveFromUnorderedEventList(g[i - 1], list[i], flags)
                                    ELSE g[i - 1]]
      BY <2>1 DEF Wakes
    <2> DEFINE last == IF list[m] \in ts THEN RemoveFromUnorderedEventList(g[m - 1], list[m], flags) ELSE g[m - 1]
               h == [i \in 0 .. m |-> IF i = m THEN last ELSE g[i]]
    <2> HIDE DEF last
    <2>3. \A i \in 0 .. m : h[i] = IF i = 0 THEN s
                                   ELSE IF list[i] \in ts THEN RemoveFromUnorderedEventList(h[i - 1], list[i], flags)
                                   ELSE h[i - 1]
      <3> TAKE i \in 0 .. m
      <3>1. CASE i = m
        <4>1. h[i] = last /\ h[i - 1] = g[m - 1]
          BY <3>1
        <4> QED
          BY <4>1, <3>1 DEF last
      <3>2. CASE i < m
        <4>1. h[i] = g[i] /\ i \in 0 .. m - 1
          BY <3>2
        <4>2. i # 0 => h[i - 1] = g[i - 1]
          BY <3>2
        <4> QED
          BY <4>1, <4>2, <2>2
      <3> QED
        BY <3>1, <3>2
    <2>4. h = [i \in 0 .. m |-> h[i]]
      OBVIOUS
    <2> HIDE DEF h
    <2>5. h = [i \in 0 .. m |-> IF i = 0 THEN s
                                ELSE IF list[i] \in ts THEN RemoveFromUnorderedEventList(h[i - 1], list[i], flags)
                                ELSE h[i - 1]]
      BY <2>3, <2>4
    <2>6. Wakes(s, list, ts, flags, h, m)
      BY <2>5 DEF Wakes
    <2>7. m \in 0 .. n
      OBVIOUS
    <2> QED
      BY <2>6, <2>7
  <1> HIDE DEF P
  <1>3. P = 0 .. n
    BY <1>1, <1>2, UpTo DEF P
  <1> QED
    BY <1>3 DEF P

LEMMA WaitersWoken ==
    ASSUME NEW s, Core(s), NEW ts, NEW flags
    PROVE  LET u == WakeWaiters(s, ts, flags)
           IN  Core(u) /\ Benign(s, u)
  <1> DEFINE list == s.events[TasksWaitingForBits]
             n == Len(list)
             woken == CHOOSE f : Wakes(s, list, ts, flags, f, n)
             u == WakeWaiters(s, ts, flags)
  <1>1. list \in Seq(Task)
    BY CoreParts, Constants
  <1>2. u = woken[n]
    BY DEF WakeWaiters, Wakes
  <1> HIDE DEF list, u
  <1>3. n \in Nat /\ \A i \in 1 .. n : list[i] \in Task
    BY <1>1, LenProperties, ElementOfSeq
  <1> HIDE DEF n
  <1>4. Wakes(s, list, ts, flags, woken, n)
    BY <1>3, WakesExists
  <1> HIDE DEF woken
  <1>5. woken[0] = s /\ \A i \in 1 .. n :
          woken[i] = IF list[i] \in ts THEN RemoveFromUnorderedEventList(woken[i - 1], list[i], flags)
                     ELSE woken[i - 1]
    <2>1. \A i \in 0 .. n : woken[i] = IF i = 0 THEN s
                              ELSE IF list[i] \in ts THEN RemoveFromUnorderedEventList(woken[i - 1], list[i], flags)
                              ELSE woken[i - 1]
      BY <1>4 DEF Wakes
    <2>2. 0 \in 0 .. n /\ \A i \in 1 .. n : i \in 0 .. n /\ i # 0
      BY <1>3
    <2> QED
      BY <2>1, <2>2
  <1> DEFINE Good(r) == Core(r) /\ Benign(s, r)
             P == {i \in 0 .. n : Good(woken[i])}
  <1>6. 0 \in P
    BY <1>3, <1>5, BenignOnce
  <1>7. ASSUME NEW i \in 1 .. n, i - 1 \in P PROVE i \in P
    <2> DEFINE r == woken[i - 1]
               v == RemoveFromUnorderedEventList(r, list[i], flags)
    <2>1. Core(r) /\ Benign(s, r)
      BY <1>7
    <2> HIDE DEF r
    <2>2. Core(v) /\ Benign(r, v)
      BY <1>3, <2>1, RemovedUnordered
    <2>3. (woken[i] = v \/ woken[i] = r) /\ i \in 0 .. n
      BY <1>5 DEF r
    <2> HIDE DEF v
    <2>4. Good(v) /\ Good(r)
      BY <2>1, <2>2, BenignTwice
    <2> QED
      BY <2>3, <2>4
  <1> HIDE DEF P
  <1>8. P = 0 .. n
    BY <1>3, <1>6, <1>7, UpTo DEF P
  <1>9. n \in P
    BY <1>3, <1>8
  <1>10. Good(woken[n])
    <2> HIDE DEF Good
    <2> QED
      BY <1>9 DEF P
  <1> QED
    BY <1>2, <1>10 DEF u

(***************************************************************************)
(* What a task's fields say may change; the priority only of one that is   *)
(* not in a ready list.                                                    *)
(***************************************************************************)
Marks == {"notify", "item", "value", "flags", "held", "yield", "prio", "base"}

Notices == {"NOT_WAITING", "WAITING", "RECEIVED"}

LEMMA Remarked ==
    ASSUME NEW s, Core(s), NEW v, Same(s, v, Marks),
           v.notify \in [Task -> Notices], v.item \in [Task -> 0 .. configMAX_PRIORITIES],
           v.prio \in [Task -> Priority], v.base \in [Task -> Priority],
           \A x \in Task : Awake(s, x) => v.prio[x] = s.prio[x],
           \A x \in Task : \/ v.notify[x] # "WAITING" \/ s.notify[x] = "WAITING"
                           \/ x \notin Range(s.pending) /\ \A l \in EventList : x \notin Range(s.events[l]),
           \A x \in Task : v.item[x] = 0 => s.item[x] = 0
    PROVE  /\ Core(v) /\ v.current = s.current /\ v.nesting = s.nesting /\ v.tick = s.tick
           /\ Settled(s) => Settled(v)
           /\ \A x \in Task : Awake(v, x) <=> Awake(s, x)
           /\ v.events = s.events /\ v.pending = s.pending
           /\ v.delayed = s.delayed /\ v.overflow = s.overflow /\ v.suspended = s.suspended
           /\ v.terminating = s.terminating /\ v.ready = s.ready /\ v.wake = s.wake
           /\ (\A x \in Task : v.notify[x] = "WAITING" => s.notify[x] = "WAITING") => Benign(s, v)
  <1>1. /\ Types(s) /\ StateLists(s) /\ EventLists(s, {}) /\ IdleWaits(s) /\ Times(s)
        /\ s.pending \in Seq(Task) /\ \A l \in EventList : s.events[l] \in Seq(Task)
        /\ \A p \in Priority : s.ready[p] \subseteq Task
        /\ s.current \in Task /\ \A x \in Task : s.prio[x] \in Priority
    BY CoreParts
  <1>2. /\ v.ready = s.ready /\ v.delayed = s.delayed /\ v.overflow = s.overflow /\ v.suspended = s.suspended
        /\ v.terminating = s.terminating /\ v.pending = s.pending /\ v.events = s.events /\ v.wake = s.wake
        /\ v.current = s.current /\ v.top = s.top /\ v.tick = s.tick /\ v.next = s.next
        /\ v.nesting = s.nesting /\ v.pended = s.pended /\ v.overflows = s.overflows /\ DOMAIN v = Fields
    BY DEF Same, Fields, Marks
  <1>3. \A p \in Priority : \A x \in s.ready[p] : x \in Task /\ s.prio[x] = p /\ v.prio[x] = p
    <2> TAKE p \in Priority
    <2> TAKE x \in s.ready[p]
    <2>1. x \in Task /\ s.prio[x] = p
      BY <1>1 DEF StateLists
    <2>2. Awake(s, x)
      BY <2>1 DEF Awake
    <2> QED
      BY <2>1, <2>2
  <1>4. \A x \in Task : Awake(v, x) <=> Awake(s, x)
    <2> TAKE x \in Task
    <2>1. v.prio[x] \in Priority
      OBVIOUS
    <2>2. x \in s.ready[v.prio[x]] => s.prio[x] = v.prio[x]
      BY <1>3, <2>1
    <2>3. x \in s.ready[s.prio[x]] => v.prio[x] = s.prio[x]
      BY <1>1, <1>3
    <2> QED
      BY <1>2, <2>2, <2>3 DEF Awake
  <1>5. Types(v)
    BY <1>1, <1>2 DEF Types, Notices
  <1>6. StateLists(v)
    BY <1>1, <1>2, <1>3 DEF StateLists, Blocked
  <1>7. IdleWaits(v) /\ Times(v)
    <2>1. Awake(s, Idle) /\ s.prio[Idle] <= s.top /\ v.prio[Idle] = s.prio[Idle] /\ Awake(v, Idle)
      BY <1>1, <1>4, Constants DEF IdleWaits
    <2> QED
      BY <1>1, <1>2, <2>1 DEF IdleWaits, Times
  <1>8. EventLists(v, {})
    <2>1. Blocked(v) = Blocked(s) /\ (Awake(v, v.current) <=> Awake(s, s.current))
      BY <1>1, <1>2, <1>4 DEF Blocked
    <2>2. \A l \in EventList : \A x \in Range(s.events[l]) : x \in Task
      BY <1>1, InList
    <2>3. \A x \in Range(s.pending) : x \in Task
      BY <1>1, InList
    <2>4. \A l \in EventList : \A x \in Range(s.events[l]) : v.notify[x] # "WAITING"
      BY <1>1, <2>2 DEF EventLists
    <2>5. \A x \in Range(s.pending) : v.notify[x] # "WAITING"
      BY <1>1, <2>3 DEF EventLists
    <2>6. ASSUME NEW q \in Semaphore, NEW x \in Range(s.events[q]) PROVE v.item[x] > 0
      <3>1. q \in EventList /\ x \in Task
        BY <2>2, <2>6, Constants
      <3>2. s.item[x] > 0
        BY <1>1, <2>6 DEF EventLists
      <3>3. s.item[x] # 0
        BY <3>2
      <3>4. v.item[x] # 0 /\ v.item[x] \in 0 .. configMAX_PRIORITIES /\ configMAX_PRIORITIES \in Nat
        BY <3>1, <3>3, Constants
      <3> QED
        BY <3>4
    <2> QED
      BY <1>1, <1>2, <2>1, <2>4, <2>5, <2>6 DEF EventLists
  <1>9. Settled(s) => Settled(v)
    BY <1>2 DEF Settled
  <1>10. (\A x \in Task : v.notify[x] = "WAITING" => s.notify[x] = "WAITING") => Benign(s, v)
    <2>1. SUFFICES ASSUME \A x \in Task : v.notify[x] = "WAITING" => s.notify[x] = "WAITING" PROVE Benign(s, v)
      OBVIOUS
    <2>2. NobodyWaits(s, v)
      BY <1>2, <2>1 DEF NobodyWaits, BeginsNoWait
    <2>3. Awake(s, s.current) => Awake(v, v.current)
      BY <1>1, <1>2, <1>4
    <2> QED
      BY <1>2, <1>9, <2>2, <2>3 DEF Benign, Calm
  <1> QED
    BY <1>2, <1>4, <1>5, <1>6, <1>7, <1>8, <1>9, <1>10 DEF Core, Lists

LEMMA ReadiedFields ==
    ASSUME NEW s, DOMAIN s = Fields
    PROVE  \A ts : ReadyFields(s, ts, MakeReady(s, ts))
  BY MakeReadyFields

Reranks(s, v, t, p) ==
    /\ Same(s, v, {"prio", "base", "item", "held"}) /\ v.prio = [s.prio EXCEPT ![t] = p]
    /\ v.base \in [Task -> Priority] /\ v.item \in [Task -> 0 .. configMAX_PRIORITIES]
    /\ \A x \in Task : v.item[x] = 0 => s.item[x] = 0

RankKept(s, u) == Core(u) /\ Benign(s, u) /\ u.events = s.events

\* A task that is ready changes its list with its priority.
LEMMA Promoted ==
    ASSUME NEW s, Core(s), NEW t \in Task, Awake(s, t), NEW p \in Priority, NEW v, Reranks(s, v, t, p)
    PROVE  RankKept(s, MakeReady(v, {t}))
  <1> DEFINE u == MakeReady(v, {t})
  <1>0. /\ Same(s, v, {"prio", "base", "item", "held"}) /\ v.prio = [s.prio EXCEPT ![t] = p]
        /\ v.base \in [Task -> Priority] /\ v.item \in [Task -> 0 .. configMAX_PRIORITIES]
        /\ \A x \in Task : v.item[x] = 0 => s.item[x] = 0
    BY DEF Reranks
  <1>1. /\ Types(s) /\ StateLists(s) /\ EventLists(s, {}) /\ IdleWaits(s) /\ Times(s) /\ DOMAIN s = Fields
        /\ s.pending \in Seq(Task) /\ \A l \in EventList : s.events[l] \in Seq(Task)
        /\ \A r \in Priority : s.ready[r] \subseteq Task
        /\ s.current \in Task /\ \A x \in Task : s.prio[x] \in Priority
    BY CoreParts
  <1>2. t \notin Blocked(s) /\ t \notin s.terminating
    BY AwakeIsFree
  <1>3. /\ v.ready = s.ready /\ v.delayed = s.delayed /\ v.overflow = s.overflow /\ v.suspended = s.suspended
        /\ v.terminating = s.terminating /\ v.pending = s.pending /\ v.events = s.events /\ v.wake = s.wake
        /\ v.current = s.current /\ v.top = s.top /\ v.tick = s.tick /\ v.next = s.next /\ v.notify = s.notify
        /\ v.nesting = s.nesting /\ v.pended = s.pended /\ v.overflows = s.overflows /\ DOMAIN v = Fields
    BY <1>0 DEF Same, Fields
  <1>4. /\ Same(v, u, {"ready", "delayed", "overflow", "suspended", "terminating", "wake", "top"})
        /\ u.ready = [r \in Priority |-> (v.ready[r] \ {t}) \cup {x \in {t} : v.prio[x] = r}]
        /\ u.delayed = v.delayed \ {t} /\ u.overflow = v.overflow \ {t}
        /\ u.suspended = v.suspended \ {t} /\ u.terminating = v.terminating \ {t}
        /\ u.wake = [x \in Task |-> IF x \in {t} THEN 0 ELSE v.wake[x]]
        /\ u.top = Max({v.top} \cup {v.prio[x] : x \in {t}})
    <2>1. ReadyFields(v, {t}, u)
      BY <1>3, ReadiedFields
    <2> HIDE DEF u
    <2> QED
      BY <2>1 DEF ReadyFields
  <1> HIDE DEF u
  <1>5. /\ u.delayed = s.delayed /\ u.overflow = s.overflow /\ u.suspended = s.suspended
        /\ u.terminating = s.terminating
    BY <1>2, <1>3, <1>4 DEF Blocked
  <1>6. /\ u.pending = s.pending /\ u.events = s.events /\ u.current = s.current /\ u.tick = s.tick
        /\ u.next = s.next /\ u.notify = s.notify /\ u.nesting = s.nesting /\ u.pended = s.pended
        /\ u.overflows = s.overflows /\ DOMAIN u = Fields /\ u.prio = v.prio /\ u.base = v.base /\ u.item = v.item
    BY <1>3, <1>4 DEF Same, Fields
  <1>7. \A x \in Task : v.prio[x] = IF x = t THEN p ELSE s.prio[x]
    BY <1>0, <1>1 DEF Types
  <1>8. v.prio \in [Task -> Priority]
    BY <1>0, <1>1 DEF Types
  <1>9. \A r \in Priority : \A x : x \in u.ready[r] <=> (x \in s.ready[r] /\ x # t) \/ (x = t /\ r = p)
    BY <1>3, <1>4, <1>7
  <1>10. u.top \in Priority /\ s.top <= u.top /\ p <= u.top
    <2> DEFINE T == {v.top} \cup {v.prio[x] : x \in {t}}
    <2>1. T = {s.top, p} /\ s.top \in Priority
      BY <1>1, <1>3, <1>7 DEF Types
    <2>2. u.top = Max(T)
      BY <1>4
    <2> HIDE DEF T
    <2>3. s.top \in Int /\ p \in Int
      BY <2>1, Constants
    <2>4. Max({s.top, p}) = IF s.top >= p THEN s.top ELSE p
      BY <2>3, OfTwo
    <2>5. u.top = IF s.top >= p THEN s.top ELSE p
      BY <2>1, <2>2, <2>4
    <2> QED
      BY <2>1, <2>3, <2>5
  <1>11. Types(u)
    <2>1. u.ready \in [Priority -> SUBSET Task]
      BY <1>1, <1>3, <1>4
    <2>2. u.wake \in [Task -> Time]
      <3>1. s.wake \in [Task -> Time]
        BY <1>1 DEF Types
      <3>2. 0 \in Time
        BY TimeIsInt
      <3> QED
        BY <3>1, <3>2, <1>3, <1>4
    <2> QED
      BY <1>0, <1>1, <1>5, <1>6, <1>8, <1>10, <2>1, <2>2 DEF Types
  <1>12. Blocked(u) = Blocked(s)
    BY <1>5 DEF Blocked
  <1>13. StateLists(u)
    <2>1. ASSUME NEW r \in Priority, NEW x \in u.ready[r]
          PROVE  u.prio[x] = r /\ x \notin Blocked(u) /\ x \notin u.terminating
      <3>1. CASE x = t
        BY <3>1, <2>1, <1>2, <1>5, <1>6, <1>7, <1>9, <1>12
      <3>2. CASE x # t
        <4>1. x \in s.ready[r] /\ x \in Task
          BY <1>1, <1>9, <2>1, <3>2
        <4> QED
          BY <4>1, <3>2, <1>1, <1>5, <1>6, <1>7, <1>12 DEF StateLists
      <3> QED
        BY <3>1, <3>2
    <2> QED
      BY <2>1, <1>1, <1>5, <1>12 DEF StateLists
  <1>14. \A x \in Task : Awake(u, x) <=> Awake(s, x)
    <2> TAKE x \in Task
    <2>1. CASE x = t
      BY <2>1, <1>6, <1>7, <1>9 DEF Awake
    <2>2. CASE x # t
      <3>1. u.prio[x] = s.prio[x] /\ s.prio[x] \in Priority
        BY <2>2, <1>1, <1>6, <1>7
      <3> QED
        BY <2>2, <3>1, <1>9 DEF Awake
    <2> QED
      BY <2>1, <2>2
  <1>15. IdleWaits(u)
    <2>1. Awake(u, Idle) /\ s.prio[Idle] <= s.top /\ u.prio[Idle] = IF Idle = t THEN p ELSE s.prio[Idle]
      BY <1>1, <1>6, <1>7, <1>14, Constants DEF IdleWaits
    <2>2. s.prio[Idle] \in Priority /\ s.top \in Priority /\ p \in Priority
      BY <1>1, Constants DEF Types
    <2>3. s.prio[Idle] \in Int /\ s.top \in Int /\ u.top \in Int
      BY <2>2, <1>10, Constants
    <2>4. s.prio[Idle] <= u.top
      BY <2>1, <2>3, <1>10
    <2> QED
      BY <2>1, <2>4, <1>10 DEF IdleWaits
  <1>16. Times(u)
    <2>1. \A x \in s.delayed \cup s.overflow : u.wake[x] = s.wake[x]
      <3>1. \A x \in s.delayed \cup s.overflow : x \in Task /\ x # t
        BY <1>1, <1>2 DEF Types, Blocked
      <3> QED
        BY <3>1, <1>3, <1>4
    <2> QED
      BY <1>1, <1>5, <1>6, <2>1 DEF Times
  <1>17. EventLists(u, {})
    <2>1. \A q \in Semaphore : \A x \in Range(s.events[q]) : u.item[x] > 0
      <3>1. SUFFICES ASSUME NEW q \in Semaphore, NEW x \in Range(s.events[q]) PROVE u.item[x] > 0
        OBVIOUS
      <3>2. q \in EventList /\ x \in Task
        BY <1>1, <3>1, InList, Constants
      <3>3. s.item[x] > 0
        BY <1>1, <3>1 DEF EventLists
      <3>4. s.item[x] # 0
        BY <3>3
      <3>5. v.item[x] # 0 /\ v.item[x] \in 0 .. configMAX_PRIORITIES /\ configMAX_PRIORITIES \in Nat
        BY <1>0, <3>2, <3>4, Constants
      <3> QED
        BY <3>5, <1>6
    <2>2. Awake(u, u.current) <=> Awake(s, s.current)
      BY <1>1, <1>6, <1>14
    <2> QED
      BY <1>1, <1>6, <1>12, <2>1, <2>2 DEF EventLists
  <1>18. Benign(s, u)
    <2>1. NobodyWaits(s, u)
      <3>1. ASSUME NEW x \in Task PROVE BeginsNoWait(s, u, x)
        <4>1. x \in u.delayed \cup u.overflow => x # t
          BY <1>2, <1>5 DEF Blocked
        <4>2. x # t => u.wake[x] = s.wake[x]
          BY <1>3, <1>4
        <4> QED
          BY <1>0, <1>5, <1>6, <4>1, <4>2 DEF BeginsNoWait
      <3> QED
        BY <3>1 DEF NobodyWaits
    <2>2. Awake(s, s.current) => Awake(u, u.current)
      BY <1>1, <1>6, <1>14
    <2>3. Settled(s) => Settled(u)
      BY <1>6 DEF Settled
    <2> QED
      BY <1>6, <2>1, <2>2, <2>3 DEF Benign, Calm
  <1> QED
    BY <1>6, <1>11, <1>13, <1>15, <1>16, <1>17, <1>18 DEF Core, Lists, RankKept, u

LEMMA ItemTyped ==
    ASSUME NEW p \in Priority
    PROVE  configMAX_PRIORITIES - p \in 1 .. configMAX_PRIORITIES
  BY Constants

LEMMA ItemSet ==
    ASSUME NEW s, DOMAIN s = Fields, s.item \in [Task -> 0 .. configMAX_PRIORITIES],
           NEW t \in Task, NEW p \in Priority
    PROVE  LET v == SetItem(s, t, p)
           IN  /\ Same(s, v, {"item"}) /\ v.item \in [Task -> 0 .. configMAX_PRIORITIES]
               /\ \A x \in Task : v.item[x] = 0 => s.item[x] = 0
  <1> DEFINE v == SetItem(s, t, p)
             n == configMAX_PRIORITIES - p
  <1>2. n \in 1 .. configMAX_PRIORITIES /\ n \in 0 .. configMAX_PRIORITIES /\ n # 0
    <2>1. n \in 1 .. configMAX_PRIORITIES
      BY ItemTyped
    <2> HIDE DEF n
    <2> QED
      BY <2>1, Constants
  <1>3. v = s \/ v = [s EXCEPT !.item[t] = n]
    BY DEF SetItem
  <1> HIDE DEF n, v
  <1>4. CASE v = s
    BY <1>4 DEF Same, v
  <1>5. CASE v = [s EXCEPT !.item[t] = n]
    <2>1. Same(s, v, {"item"}) /\ v.item = [s.item EXCEPT ![t] = n]
      BY <1>5 DEF Same, Fields
    <2>2. v.item \in [Task -> 0 .. configMAX_PRIORITIES] /\ \A x \in Task : v.item[x] = 0 => s.item[x] = 0
      BY <1>2, <2>1
    <2> QED
      BY <2>1, <2>2 DEF v
  <1> QED
    BY <1>3, <1>4, <1>5

(***************************************************************************)
(* A task's priority changes, and its ready list with it.                  *)
(***************************************************************************)
LEMMA Reranked ==
    ASSUME NEW s, Core(s), NEW t \in Task, NEW p \in Priority, NEW v, Reranks(s, v, t, p)
    PROVE  RankKept(s, IF Awake(s, t) THEN MakeReady(v, {t}) ELSE v)
  <1>1. CASE Awake(s, t)
    BY <1>1, Promoted
  <1>2. CASE ~ Awake(s, t)
    <2>0. /\ Same(s, v, {"prio", "base", "item", "held"}) /\ v.prio = [s.prio EXCEPT ![t] = p]
          /\ v.base \in [Task -> Priority] /\ v.item \in [Task -> 0 .. configMAX_PRIORITIES]
          /\ \A x \in Task : v.item[x] = 0 => s.item[x] = 0
      BY DEF Reranks
    <2>1. s.prio \in [Task -> Priority] /\ s.notify \in [Task -> Notices] /\ v.notify = s.notify
      BY <2>0, CoreParts DEF Types, Notices, Same, Fields
    <2>2. v.prio \in [Task -> Priority] /\ \A x \in Task : Awake(s, x) => v.prio[x] = s.prio[x]
      BY <1>2, <2>0, <2>1
    <2>3. Same(s, v, Marks)
      BY <2>0 DEF Same, Marks
    <2>4. Core(v) /\ v.events = s.events /\ Benign(s, v)
      BY <2>0, <2>1, <2>2, <2>3, Remarked
    <2> QED
      BY <1>2, <2>4 DEF RankKept
  <1> QED
    BY <1>1, <1>2

LEMMA Lifted ==
    ASSUME NEW s, Core(s), NEW t \in Task, NEW p \in Priority
    PROVE  RankKept(s, Lift(s, t, p))
  <1> DEFINE i == SetItem(s, t, p)
             v == [i EXCEPT !.prio[t] = p]
  <1>1. /\ Same(s, i, {"item"}) /\ i.item \in [Task -> 0 .. configMAX_PRIORITIES]
        /\ \A x \in Task : i.item[x] = 0 => s.item[x] = 0
    <2>1. DOMAIN s = Fields /\ s.item \in [Task -> 0 .. configMAX_PRIORITIES]
      BY CoreParts DEF Types
    <2> QED
      BY <2>1, ItemSet
  <1>2. Lift(s, t, p) = IF Awake(s, t) THEN MakeReady(v, {t}) ELSE v
    BY DEF Lift, Awake
  <1> HIDE DEF i
  <1>3. DOMAIN i = Fields /\ i.prio = s.prio /\ i.base = s.base
    BY <1>1 DEF Same, Fields
  <1>4. Same(i, v, {"prio"}) /\ v.prio = [s.prio EXCEPT ![t] = p]
    BY <1>3 DEF Same, Fields
  <1> HIDE DEF v
  <1>5. v.base = s.base /\ v.item = i.item
    BY <1>3, <1>4 DEF Same, Fields
  <1>6. Same(s, v, {"prio", "base", "item", "held"})
    BY <1>1, <1>4 DEF Same
  <1>7. s.base \in [Task -> Priority]
    BY CoreParts DEF Types
  <1>8. Reranks(s, v, t, p)
    BY <1>1, <1>4, <1>5, <1>6, <1>7 DEF Reranks
  <1> QED
    BY <1>2, <1>8, Reranked

LEMMA Inherited ==
    ASSUME NEW s, Core(s), NEW holder \in Task \cup {Nobody}
    PROVE  RankKept(s, Inherit(s, holder))
  <1> DEFINE p == s.prio[s.current]
             u == Inherit(s, holder)
  <1>1. p \in Priority
    BY CoreParts
  <1>2. u = s \/ (holder # Nobody /\ u = Lift(s, holder, p))
    BY DEF Inherit
  <1> HIDE DEF p, u
  <1>3. CASE u = s
    BY <1>3, BenignOnce DEF u, RankKept
  <1>4. CASE holder # Nobody /\ u = Lift(s, holder, p)
    <2>1. holder \in Task
      BY <1>4
    <2> QED
      BY <1>1, <1>4, <2>1, Lifted DEF u
  <1> QED
    BY <1>2, <1>3, <1>4

LEMMA HighestWaits ==
    ASSUME NEW s, Core(s), NEW q \in Semaphore
    PROVE  DisinheritPriorityAfterTimeout(s, q) \in Priority
  <1> DEFINE h == Head(s.events[q])
  <1>1. CASE s.events[q] = << >>
    BY <1>1, Constants DEF DisinheritPriorityAfterTimeout
  <1>2. CASE s.events[q] # << >>
    <2>1. q \in EventList /\ s.events[q] \in Seq(Task) /\ EventLists(s, {})
          /\ s.item \in [Task -> 0 .. configMAX_PRIORITIES]
      BY CoreParts, Constants DEF Types
    <2>2. h \in Range(s.events[q]) /\ h \in Task
      BY <1>2, <2>1, Tailed
    <2>3. s.item[h] > 0 /\ s.item[h] \in 0 .. configMAX_PRIORITIES
      BY <2>1, <2>2 DEF EventLists
    <2> DEFINE n == s.item[h]
    <2>4. DisinheritPriorityAfterTimeout(s, q) = configMAX_PRIORITIES - n
      BY <1>2 DEF DisinheritPriorityAfterTimeout
    <2> HIDE DEF n
    <2>5. n > 0 /\ n \in 0 .. configMAX_PRIORITIES
      BY <2>3 DEF n
    <2> QED
      BY <2>4, <2>5, Constants
  <1> QED
    BY <1>1, <1>2

LEMMA DisinheritedAfterTimeout ==
    ASSUME NEW s, Core(s), NEW holder \in Task \cup {Nobody}, NEW highest \in Priority
    PROVE  RankKept(s, DisinheritAfterTimeout(s, holder, highest))
  <1> DEFINE b == s.base[holder]
             p == Max({b, highest})
             u == DisinheritAfterTimeout(s, holder, highest)
  <1>1. u = s \/ (holder # Nobody /\ u = Lift(s, holder, p))
    BY DEF DisinheritAfterTimeout
  <1> HIDE DEF u
  <1>2. CASE u = s
    BY <1>2, BenignOnce DEF u, RankKept
  <1>3. CASE holder # Nobody /\ u = Lift(s, holder, p)
    <2>1. holder \in Task
      BY <1>3
    <2>2. b \in Priority
      BY <2>1, CoreParts
    <2>3. p \in Priority
      <3> HIDE DEF b
      <3>1. b \in Int /\ highest \in Int
        BY <2>2, Constants
      <3>2. p = IF b >= highest THEN b ELSE highest
        BY <3>1, OfTwo
      <3> QED
        BY <2>2, <3>2
    <2> HIDE DEF p
    <2> QED
      BY <1>3, <2>1, <2>3, Lifted DEF u
  <1> QED
    BY <1>1, <1>2, <1>3

\* A mutex is given by the task that runs.
LEMMA DisinheritedMutex ==
    ASSUME NEW s, Core(s), Awake(s, s.current)
    PROVE  LET u == Disinherit(s)
           IN  Core(u) /\ Benign(s, u)
  <1> DEFINE t == s.current
             p == s.base[t]
             n == configMAX_PRIORITIES - p
             w == [s EXCEPT !.held[t] = @ - 1]
             v == [w EXCEPT !.prio[t] = p, !.item[t] = n]
             u == Disinherit(s)
  <1>1. /\ DOMAIN s = Fields /\ t \in Task /\ p \in Priority /\ Lists(s, {}) /\ Times(s)
        /\ s.nesting \in Nat /\ s.pended \in Nat /\ s.overflows \in Nat
        /\ s.item \in [Task -> 0 .. configMAX_PRIORITIES] /\ s.base \in [Task -> Priority]
    BY CoreParts DEF Types
  <1>2. u = MakeReady(v, {t}) \/ u = w
    BY DEF Disinherit
  <1> HIDE DEF u
  <1>3. Same(s, w, {"held"})
    BY <1>1 DEF Same, Fields
  <1> HIDE DEF w
  <1>4. CASE u = w
    <2>1. w.nesting = s.nesting /\ w.pended = s.pended /\ w.overflows = s.overflows /\ w.pending = s.pending
          /\ w.tick = s.tick
      BY <1>3 DEF Same, Fields
    <2>2. Same(s, w, {"yield", "value", "flags", "held", "nesting", "pended", "overflows"})
      BY <1>3 DEF Same
    <2>3. Lists(w, {}) /\ Times(w) /\ Calm(s, w)
      BY <1>1, <2>1, <2>2, Unconcerned
    <2>4. Benign(s, w)
      BY <2>1, <2>3 DEF Benign, Settled
    <2> QED
      BY <1>4, <2>3, <2>4 DEF Core, u
  <1>5. CASE u = MakeReady(v, {t})
    <2>1. DOMAIN w = Fields /\ w.prio = s.prio /\ w.item = s.item /\ w.base = s.base
      BY <1>3 DEF Same, Fields
    <2>2. n \in 1 .. configMAX_PRIORITIES
      BY <1>1, ItemTyped
    <2> HIDE DEF n, p, t
    <2>3. /\ Same(w, v, {"prio", "item"}) /\ v.prio = [s.prio EXCEPT ![t] = p]
          /\ v.item = [s.item EXCEPT ![t] = n] /\ v.base = s.base
      BY <2>1 DEF Same, Fields
    <2> HIDE DEF v
    <2>4. Same(s, v, {"prio", "base", "item", "held"})
      BY <1>3, <2>3 DEF Same
    <2>5. n \in 0 .. configMAX_PRIORITIES /\ n # 0
      BY <2>2, Constants
    <2>6. v.item \in [Task -> 0 .. configMAX_PRIORITIES] /\ \A x \in Task : v.item[x] = 0 => s.item[x] = 0
      BY <1>1, <2>3, <2>5
    <2>7. Awake(s, t)
      BY DEF t
    <2>8. Reranks(s, v, t, p)
      BY <1>1, <2>3, <2>4, <2>6 DEF Reranks
    <2>9. RankKept(s, MakeReady(v, {t}))
      BY <1>1, <2>7, <2>8, Promoted
    <2> QED
      BY <1>5, <2>9 DEF u, RankKept
  <1> QED
    BY <1>2, <1>4, <1>5

-----------------------------------------------------------------------------
(***************************************************************************)
(* Notifications.                                                          *)
(***************************************************************************)
\* No task begins to wait for a notification.
LEMMA Quieted ==
    ASSUME NEW s, Core(s), NEW v, Same(s, v, {"notify", "value"}), v.notify \in [Task -> Notices],
           \A x \in Task : v.notify[x] = "WAITING" => s.notify[x] = "WAITING"
    PROVE  /\ Core(v) /\ Benign(s, v) /\ v.events = s.events /\ v.pending = s.pending
           /\ v.nesting = s.nesting /\ v.current = s.current
  <1>1. /\ s.item \in [Task -> 0 .. configMAX_PRIORITIES]
        /\ s.prio \in [Task -> Priority] /\ s.base \in [Task -> Priority]
    BY CoreParts DEF Types
  <1>2. v.item = s.item /\ v.prio = s.prio /\ v.base = s.base
    BY DEF Same, Fields
  <1>3. Same(s, v, Marks)
    BY DEF Same, Marks
  <1>4. \A x \in Task : Awake(s, x) => v.prio[x] = s.prio[x]
    BY <1>2
  <1>5. v.item \in [Task -> 0 .. configMAX_PRIORITIES] /\ v.prio \in [Task -> Priority] /\ v.base \in [Task -> Priority]
        /\ \A x \in Task : v.item[x] = 0 => s.item[x] = 0
    BY <1>1, <1>2
  <1> QED
    BY <1>3, <1>4, <1>5, Remarked

LEMMA NotifiedState ==
    ASSUME NEW s, Core(s), NEW t \in Task, NEW action, NEW value, NEW v, v = Notified(s, t, action, value)
    PROVE  /\ Core(v) /\ Benign(s, v) /\ v.events = s.events /\ v.pending = s.pending
           /\ v.nesting = s.nesting /\ v.current = s.current /\ v.notify[t] = "RECEIVED"
  <1>1. DOMAIN s = Fields /\ s.notify \in [Task -> Notices]
    BY CoreParts DEF Types, Notices
  <1>2. Same(s, v, {"notify", "value"}) /\ v.notify = [s.notify EXCEPT ![t] = "RECEIVED"]
    BY <1>1 DEF Notified, Same, Fields
  <1>3. /\ v.notify \in [Task -> Notices] /\ v.notify[t] = "RECEIVED"
        /\ \A x \in Task : v.notify[x] = "WAITING" => s.notify[x] = "WAITING"
    BY <1>1, <1>2 DEF Notices
  <1> QED
    BY <1>2, <1>3, Quieted

\* Who waits for a notification waits at no object.
LEMMA WaitsApart ==
    ASSUME NEW s, Core(s), NEW t \in Task, s.notify[t] = "WAITING"
    PROVE  t \notin Range(s.pending) /\ \A l \in EventList : t \notin Range(s.events[l])
  BY CoreParts DEF EventLists

LEMMA NotifiedTask ==
    ASSUME NEW s, Core(s), NEW t \in Task, NEW action, NEW value, NEW u, u = Notify(s, t, action, value)
    PROVE  Core(u) /\ Benign(s, u)
  <1> DEFINE v == Notified(s, t, action, value)
             ts == {t}
             m == MakeReady(v, ts)
  <1>1. /\ Core(v) /\ Benign(s, v) /\ v.events = s.events /\ v.pending = s.pending
        /\ v.nesting = s.nesting /\ v.current = s.current
    BY NotifiedState
  <1>2. u = v \/ (s.notify[t] = "WAITING" /\ u = ResetNext(m))
    BY DEF Notify
  <1>3. ts \in SUBSET Task /\ t \in ts /\ \A x \in ts : x = t
    OBVIOUS
  <1> HIDE DEF v, ts
  <1>4. CASE s.notify[t] = "WAITING" /\ u = ResetNext(m)
    <2>1. t \notin Range(s.pending) /\ \A l \in EventList : t \notin Range(s.events[l])
      BY <1>4, WaitsApart
    <2>2. /\ \A l \in EventList : ts \cap Range(v.events[l]) = {}
          /\ v.current \in ts => v.current \notin Range(v.pending)
      BY <1>1, <1>3, <2>1
    <2>3. Lists(m, {}) /\ Times(m) /\ Benign(v, m)
      BY <1>1, <1>3, <2>2, MadeReady DEF Core
    <2> HIDE DEF m
    <2>4. Lists(ResetNext(m), {}) /\ Times(ResetNext(m)) /\ Benign(m, ResetNext(m))
      BY <2>3, NextReset DEF Times
    <2>5. Benign(v, u)
      BY <1>4, <2>3, <2>4, BenignTwice
    <2> QED
      BY <1>1, <1>4, <2>4, <2>5, BenignTwice DEF Core
  <1> QED
    BY <1>1, <1>2, <1>4

LEMMA NotifiedFromISR ==
    ASSUME NEW s, Core(s), NEW t \in Task, NEW action, NEW value, NEW u, u = NotifyFromISR(s, t, action, value),
           s.notify[t] = "WAITING" /\ t = s.current => s.nesting = 0
    PROVE  Core(u) /\ Benign(s, u)
  <1> DEFINE v == Notified(s, t, action, value)
             ts == {t}
             w == IF s.nesting = 0 THEN MakeReady(v, ts) ELSE [v EXCEPT !.pending = Append(@, t)]
             y == w.yield \/ NotifyPreempts(s, t)
  <1>1. /\ Core(v) /\ Benign(s, v) /\ v.events = s.events /\ v.pending = s.pending
        /\ v.nesting = s.nesting /\ v.current = s.current /\ v.notify[t] = "RECEIVED"
    BY NotifiedState
  <1>2. u = v \/ (s.notify[t] = "WAITING" /\ u = [w EXCEPT !.yield = y])
    BY DEF NotifyFromISR
  <1>3. ts \in SUBSET Task /\ t \in ts /\ \A x \in ts : x = t
    OBVIOUS
  <1> HIDE DEF v, ts, y
  <1>4. CASE s.notify[t] = "WAITING" /\ u = [w EXCEPT !.yield = y]
    <2>1. t \notin Range(s.pending) /\ \A l \in EventList : t \notin Range(s.events[l])
      BY <1>4, WaitsApart
    <2>2. Core(w) /\ Benign(v, w)
      <3>1. CASE s.nesting = 0
        <4>1. /\ \A l \in EventList : ts \cap Range(v.events[l]) = {}
              /\ v.current \in ts => v.current \notin Range(v.pending)
          BY <1>1, <1>3, <2>1
        <4>2. Lists(MakeReady(v, ts), {}) /\ Times(MakeReady(v, ts)) /\ Benign(v, MakeReady(v, ts))
          BY <1>1, <1>3, <4>1, MadeReady DEF Core
        <4>3. w = MakeReady(v, ts)
          BY <3>1
        <4> HIDE DEF w
        <4> QED
          BY <4>2, <4>3 DEF Core
      <3>2. CASE s.nesting # 0
        <4>1. v.nesting > 0 /\ t # v.current
          BY <1>1, <1>4, <3>2, CoreParts
        <4>2. t \notin Range(v.pending) /\ v.notify[t] # "WAITING" /\ \A l \in EventList : t \notin Range(v.events[l])
          BY <1>1, <2>1
        <4>3. Core([v EXCEPT !.pending = Append(@, t)]) /\ Benign(v, [v EXCEPT !.pending = Append(@, t)])
          BY <1>1, <4>1, <4>2, PendingAppended
        <4>4. w = [v EXCEPT !.pending = Append(@, t)]
          BY <3>2
        <4> HIDE DEF w
        <4> QED
          BY <4>3, <4>4
      <3> QED
        BY <3>1, <3>2
    <2> HIDE DEF w
    <2>3. Core([w EXCEPT !.yield = y]) /\ Benign(w, [w EXCEPT !.yield = y])
      BY <2>2, Yields
    <2> QED
      BY <1>1, <1>4, <2>2, <2>3, BenignTwice
  <1> QED
    BY <1>1, <1>2, <1>4

(***************************************************************************)
(* What a task does to itself; others begin no wait.                       *)
(***************************************************************************)
Acts(s, u) ==
    /\ Core(u) /\ Settled(u)
    /\ \A x \in Task \ {s.current} : BeginsNoWait(s, u, x)
    /\ u.current = s.current \/ (u.nesting = 0 /\ Awake(u, u.current))

LEMMA BenignActs ==
    ASSUME NEW s, Settled(s), NEW u, Core(u), Benign(s, u)
    PROVE  Acts(s, u)
  BY DEF Benign, Calm, NobodyWaits, Acts

LEMMA StartsToWait ==
    ASSUME NEW s, Core(s), Settled(s), s.nesting = 0, Awake(s, s.current), s.current # Idle,
           NEW ticks \in Time, NEW u \in Waiting(s, ticks)
    PROVE  /\ Acts(s, u) /\ u.item = s.item
           /\ u.current = s.current => u.nesting = 0 /\ Awake(u, u.current)
  <1> DEFINE t == s.current
             v == [s EXCEPT !.notify[t] = "WAITING"]
             w == DelayCurrent(v, ticks, TRUE)
  <1>1. /\ DOMAIN s = Fields /\ s.notify \in [Task -> Notices] /\ t \in Task
        /\ s.item \in [Task -> 0 .. configMAX_PRIORITIES]
        /\ s.prio \in [Task -> Priority] /\ s.base \in [Task -> Priority]
    BY CoreParts DEF Types, Notices
  <1>2. u = v \/ (ticks > 0 /\ u \in Switch(w))
    BY DEF Waiting
  <1>3. Same(s, v, {"notify"}) /\ v.notify = [s.notify EXCEPT ![t] = "WAITING"]
    BY <1>1 DEF Same, Fields
  <1> HIDE DEF v
  <1>4. v.item = s.item /\ v.prio = s.prio /\ v.base = s.base
    BY <1>3 DEF Same, Fields
  <1>5. t \notin Range(s.pending) /\ \A l \in EventList : t \notin Range(s.events[l])
    <2>1. \A l \in EventList : t \notin Range(s.events[l])
      BY <1>1, AwakeIsFree
    <2>2. t \notin Range(s.pending)
      BY CoreParts DEF EventLists
    <2> QED
      BY <2>1, <2>2
  <1>6. /\ v.notify \in [Task -> Notices]
        /\ \A x \in Task : \/ v.notify[x] # "WAITING" \/ s.notify[x] = "WAITING"
                           \/ x \notin Range(s.pending) /\ \A l \in EventList : x \notin Range(s.events[l])
    <2>1. \A x \in Task : v.notify[x] = IF x = t THEN "WAITING" ELSE s.notify[x]
      BY <1>1, <1>3
    <2> QED
      BY <1>1, <1>3, <1>5, <2>1 DEF Notices
  <1>7. Same(s, v, Marks)
    BY <1>3 DEF Same, Marks
  <1>8. /\ v.item \in [Task -> 0 .. configMAX_PRIORITIES] /\ v.prio \in [Task -> Priority]
        /\ v.base \in [Task -> Priority] /\ \A x \in Task : v.item[x] = 0 => s.item[x] = 0
        /\ \A x \in Task : Awake(s, x) => v.prio[x] = s.prio[x]
    BY <1>1, <1>4
  <1>9. /\ Core(v) /\ v.current = s.current /\ v.nesting = s.nesting /\ v.tick = s.tick
        /\ Settled(v) /\ \A x \in Task : Awake(v, x) <=> Awake(s, x)
        /\ v.delayed = s.delayed /\ v.overflow = s.overflow /\ v.wake = s.wake
    BY <1>6, <1>7, <1>8, Remarked
  <1>10. \A x \in Task \ {t} : BeginsNoWait(s, v, x)
    <2>1. \A x \in Task \ {t} : v.notify[x] = s.notify[x]
      BY <1>1, <1>3
    <2> QED
      BY <1>4, <1>9, <2>1 DEF BeginsNoWait
  <1>11. CASE u = v
    BY <1>1, <1>4, <1>9, <1>10, <1>11 DEF Acts
  <1>12. CASE ticks > 0 /\ u \in Switch(w)
    <2>1. ticks \in 1 .. portMAX_DELAY
      BY <1>12, TimeIsInt, Constants
    <2>2. FallsAsleep(v, w, ticks) /\ w.item = v.item
      BY <1>9, <2>1, Slept
    <2> HIDE DEF w
    <2>3. Core(w) /\ Settled(w) /\ w.nesting = 0 /\ w.current = t /\ \A x \in Task \ {t} : BeginsNoWait(v, w, x)
      BY <1>9, <2>2 DEF FallsAsleep
    <2>4. /\ Core(u) /\ Settled(u) /\ Same(w, u, {"yield", "top", "current"}) /\ NobodyWaits(w, u)
          /\ Awake(u, u.current)
      BY <1>12, <2>3, Switched
    <2>5. u.nesting = w.nesting /\ u.item = w.item
      BY <2>4 DEF Same, Fields
    <2>6. \A x \in Task \ {t} : BeginsNoWait(s, u, x)
      BY <1>10, <2>3, <2>4 DEF NobodyWaits, BeginsNoWait
    <2> QED
      BY <1>4, <2>2, <2>3, <2>4, <2>5, <2>6 DEF Acts
  <1> QED
    BY <1>2, <1>11, <1>12

LEMMA WaitsForNotification ==
    ASSUME NEW s, Core(s), Settled(s), s.nesting = 0, Awake(s, s.current), s.current # Idle,
           NEW ticks \in Time, NEW clear, NEW u \in WaitForNotification(s, ticks, clear)
    PROVE  /\ Acts(s, u) /\ u.item = s.item
           /\ u.current = s.current => u.nesting = 0 /\ Awake(u, u.current)
  <1> DEFINE t == s.current
             n == IF clear THEN 0 ELSE s.value[t]
             v == [s EXCEPT !.value[t] = n]
  <1>1. DOMAIN s = Fields /\ s.notify \in [Task -> Notices] /\ t \in Task
    BY CoreParts DEF Types, Notices
  <1>2. u = s \/ u \in Waiting(v, ticks)
    <2>1. [s EXCEPT !.value[s.current] = IF clear THEN 0 ELSE @] = v
      OBVIOUS
    <2> HIDE DEF v
    <2> QED
      BY <2>1 DEF WaitForNotification
  <1>3. Same(s, v, {"value"})
    BY <1>1 DEF Same, Fields
  <1> HIDE DEF v
  <1>4. v.notify = s.notify /\ v.item = s.item
    BY <1>3 DEF Same, Fields
  <1>5. Same(s, v, {"notify", "value"})
    BY <1>3 DEF Same
  <1>6. Core(v) /\ Benign(s, v) /\ v.nesting = s.nesting /\ v.current = s.current
    BY <1>1, <1>4, <1>5, Quieted
  <1>7. CASE u = s
    BY <1>7, BenignOnce, BenignActs
  <1>8. CASE u \in Waiting(v, ticks)
    <2>1. Settled(v) /\ Awake(v, v.current)
      BY <1>6 DEF Benign, Calm
    <2>2. /\ Acts(v, u) /\ u.item = v.item
          /\ u.current = v.current => u.nesting = 0 /\ Awake(u, u.current)
      BY <1>6, <1>8, <2>1, StartsToWait
    <2>3. \A x \in Task \ {t} : BeginsNoWait(s, u, x)
      BY <1>6, <2>2 DEF Acts, Benign, Calm, NobodyWaits, BeginsNoWait
    <2> QED
      BY <1>4, <1>6, <2>2, <2>3 DEF Acts
  <1> QED
    BY <1>2, <1>7, <1>8

-----------------------------------------------------------------------------
(***************************************************************************)
(* Suspension, deletion, creation.                                         *)
(***************************************************************************)
UnlistedFields(s, ts, u) ==
    /\ Same(s, u, {"ready", "delayed", "overflow", "suspended", "terminating", "wake"})
    /\ u.ready = [p \in Priority |-> s.ready[p] \ ts]
    /\ u.delayed = s.delayed \ ts /\ u.overflow = s.overflow \ ts
    /\ u.suspended = s.suspended \ ts /\ u.terminating = s.terminating \ ts
    /\ u.wake = [t \in Task |-> IF t \in ts THEN 0 ELSE s.wake[t]]

Departs(s, x, u) ==
    /\ Core(u) /\ NobodyWaits(s, u) /\ (Settled(s) => Settled(u))
    /\ u.nesting = s.nesting /\ u.current = s.current /\ u.notify = s.notify /\ u.item = s.item
    /\ x \notin Blocked(u) /\ x \notin u.terminating /\ \A p \in Priority : x \notin u.ready[p]
    /\ \A y \in Task : y # x /\ Awake(s, y) => Awake(u, y)

\* A task leaves the lists of both its items.
LEMMA Removed ==
    ASSUME NEW s, Core(s), NEW x \in Task, x # Idle, NEW u, u = Detach(Unlist(s, {x}), {x})
    PROVE  Departs(s, x, u)
  <1> DEFINE ts == {x}
             v == Unlist(s, ts)
  <1>1. x \in ts /\ Idle \notin ts /\ ts \subseteq {} \cup ts /\ \A y : y \in ts <=> y = x
    OBVIOUS
  <1>2. u = Detach(v, ts)
    OBVIOUS
  <1> HIDE DEF ts
  <1>3. Lists(s, {}) /\ Times(s) /\ DOMAIN s = Fields /\ s.wake \in [Task -> Time]
    BY CoreParts DEF Types
  <1>4. /\ Lists(v, {} \cup ts) /\ Times(v)
        /\ \A t \in Task : t \notin ts /\ Awake(s, t) => Awake(v, t)
    BY <1>1, <1>3, Unlisted
  <1>5. /\ Same(s, v, {"ready", "delayed", "overflow", "suspended", "terminating", "wake"})
        /\ v.ready = [p \in Priority |-> s.ready[p] \ ts]
        /\ v.delayed = s.delayed \ ts /\ v.overflow = s.overflow \ ts
        /\ v.suspended = s.suspended \ ts /\ v.terminating = s.terminating \ ts
        /\ v.wake = [t \in Task |-> IF t \in ts THEN 0 ELSE s.wake[t]]
    BY <1>3, UnlistFields
  <1> HIDE DEF v
  <1>6. Lists(u, {}) /\ Times(u) /\ Same(v, u, {"events", "pending"}) /\ Benign(v, u)
        /\ (v.pending = << >> => u.pending = << >>)
    <2>1. {} \cup ts \subseteq {} \cup ts
      OBVIOUS
    <2> QED
      BY <1>2, <1>4, <2>1, Detached
  <1>7. /\ v.notify = s.notify /\ v.item = s.item /\ v.nesting = s.nesting /\ v.current = s.current
        /\ v.pending = s.pending /\ v.pended = s.pended
    BY <1>5 DEF Same, Fields
  <1>8. /\ u.notify = v.notify /\ u.item = v.item /\ u.nesting = v.nesting /\ u.current = v.current
        /\ u.pended = v.pended /\ u.ready = v.ready /\ u.delayed = v.delayed /\ u.overflow = v.overflow
        /\ u.suspended = v.suspended /\ u.terminating = v.terminating /\ u.wake = v.wake /\ u.prio = v.prio
    BY <1>6 DEF Same, Fields
  <1>9. NobodyWaits(s, u)
    <2>1. ASSUME NEW t \in Task PROVE BeginsNoWait(s, u, t)
      <3>1. t \in u.delayed \cup u.overflow => t \in s.delayed \cup s.overflow /\ t \notin ts
        BY <1>5, <1>8
      <3>2. t \notin ts => u.wake[t] = s.wake[t]
        <4>1. t \notin ts => v.wake[t] = s.wake[t]
          BY <1>5
        <4> QED
          BY <4>1, <1>8
      <3> QED
        BY <1>7, <1>8, <3>1, <3>2 DEF BeginsNoWait
    <2> QED
      BY <2>1 DEF NobodyWaits
  <1>10. x \notin Blocked(u) /\ x \notin u.terminating /\ \A p \in Priority : x \notin u.ready[p]
    <2>1. x \notin v.delayed /\ x \notin v.overflow /\ x \notin v.suspended /\ x \notin v.terminating
      BY <1>1, <1>5
    <2>2. \A p \in Priority : x \notin v.ready[p]
      BY <1>1, <1>5
    <2> QED
      BY <1>8, <2>1, <2>2 DEF Blocked
  <1>11. \A y \in Task : y # x /\ Awake(s, y) => Awake(u, y)
    BY <1>1, <1>4, <1>8 DEF Awake
  <1>12. Settled(s) => Settled(u)
    BY <1>6, <1>7, <1>8 DEF Settled
  <1> QED
    BY <1>6, <1>7, <1>8, <1>9, <1>10, <1>11, <1>12 DEF Core, Departs

\* It enters a list in which it waits for no time.
LEMMA Parked ==
    ASSUME NEW s, Core(s), NEW x \in Task, x \notin Blocked(s), x \notin s.terminating,
           \A p \in Priority : x \notin s.ready[p], NEW u,
           \/ Same(s, u, {"suspended"}) /\ u.suspended = s.suspended \cup {x}
           \/ Same(s, u, {"terminating"}) /\ u.terminating = s.terminating \cup {x}
    PROVE  /\ Core(u) /\ NobodyWaits(s, u) /\ (Settled(s) => Settled(u))
           /\ u.nesting = s.nesting /\ u.current = s.current /\ u.notify = s.notify /\ u.item = s.item
           /\ \A y \in Task : Awake(s, y) <=> Awake(u, y)
  <1>1. /\ Types(s) /\ StateLists(s) /\ EventLists(s, {}) /\ IdleWaits(s) /\ Times(s)
    BY CoreParts
  <1>2. /\ u.ready = s.ready /\ u.delayed = s.delayed /\ u.overflow = s.overflow
        /\ u.pending = s.pending /\ u.events = s.events /\ u.wake = s.wake
        /\ u.item = s.item /\ u.prio = s.prio /\ u.base = s.base /\ u.notify = s.notify
        /\ u.current = s.current /\ u.top = s.top /\ u.tick = s.tick /\ u.next = s.next
        /\ u.nesting = s.nesting /\ u.pended = s.pended /\ u.overflows = s.overflows /\ DOMAIN u = Fields
    BY DEF Same, Fields
  <1>3. \/ u.suspended = s.suspended \cup {x} /\ u.terminating = s.terminating
        \/ u.terminating = s.terminating \cup {x} /\ u.suspended = s.suspended
    BY DEF Same, Fields
  <1>4. Types(u)
    BY <1>1, <1>2, <1>3 DEF Types
  <1>5. StateLists(u)
    BY <1>1, <1>2, <1>3 DEF StateLists, Blocked
  <1>6. EventLists(u, {})
    <2>1. Blocked(s) \subseteq Blocked(u) /\ (Awake(u, u.current) <=> Awake(s, s.current))
      BY <1>2, <1>3 DEF Blocked, Awake
    <2> QED
      BY <1>1, <1>2, <2>1 DEF EventLists
  <1>7. IdleWaits(u) /\ Times(u)
    BY <1>1, <1>2 DEF IdleWaits, Awake, Times
  <1>8. /\ NobodyWaits(s, u) /\ (Settled(s) => Settled(u))
        /\ \A y \in Task : Awake(s, y) <=> Awake(u, y)
    BY <1>2 DEF NobodyWaits, BeginsNoWait, Settled, Awake
  <1> QED
    BY <1>2, <1>4, <1>5, <1>6, <1>7, <1>8 DEF Core, Lists

\* The idle task frees a task that was deleted.
LEMMA Freed ==
    ASSUME NEW s, Core(s), NEW x \in s.terminating, NEW u, u = Unlist(s, {x})
    PROVE  Core(u) /\ Benign(s, u)
  <1> DEFINE ts == {x}
  <1>1. x \in Task /\ \A y : y \in ts <=> y = x
    BY CoreParts
  <1>2. u = Unlist(s, ts)
    OBVIOUS
  <1> HIDE DEF ts
  <1>3. /\ Lists(s, {}) /\ Times(s) /\ DOMAIN s = Fields /\ s.wake \in [Task -> Time] /\ EventLists(s, {})
        /\ StateLists(s) /\ IdleWaits(s) /\ s.current \in Task
        /\ s.prio \in [Task -> Priority]
    BY CoreParts DEF Types
  <1>4. x \notin Blocked(s) /\ \A t \in Task : Awake(s, t) => t # x
    BY <1>3 DEF StateLists, Awake
  <1>5. Idle \notin ts
    BY <1>1, <1>3, <1>4, Constants DEF IdleWaits
  <1>6. Lists(u, {} \cup ts) /\ Times(u) /\ \A t \in Task : t \notin ts /\ Awake(s, t) => Awake(u, t)
    BY <1>2, <1>3, <1>5, Unlisted, ZenonT(40)
  <1>7. /\ Same(s, u, {"ready", "delayed", "overflow", "suspended", "terminating", "wake"})
        /\ u.delayed = s.delayed \ ts /\ u.overflow = s.overflow \ ts /\ u.suspended = s.suspended \ ts
        /\ u.wake = [t \in Task |-> IF t \in ts THEN 0 ELSE s.wake[t]]
    <2>1. UnlistedFields(s, ts, Unlist(s, ts))
      BY <1>3, UnlistFields DEF UnlistedFields
    <2> QED
      BY <1>2, <2>1 DEF UnlistedFields
  <1>8. /\ u.events = s.events /\ u.pending = s.pending /\ u.notify = s.notify /\ u.item = s.item
        /\ u.nesting = s.nesting /\ u.current = s.current /\ u.pended = s.pended /\ u.tick = s.tick
    BY <1>7 DEF Same, Fields
  <1>9. \A l \in EventList : x \notin Range(s.events[l])
    BY <1>3, <1>4 DEF EventLists
  <1>10. Types(u) /\ StateLists(u) /\ IdleWaits(u) /\ EventLists(u, ts)
    <2>1. {} \cup ts = ts
      OBVIOUS
    <2> QED
      BY <1>6, <2>1 DEF Lists
  <1>11. EventLists(u, {})
    <2>1. \A l \in EventList : \A t \in Range(u.events[l]) : t \in Blocked(u) \cup {}
      BY <1>1, <1>8, <1>9, <1>10 DEF EventLists
    <2> QED
      BY <1>10, <2>1 DEF EventLists
  <1>12. Benign(s, u)
    <2>1. NobodyWaits(s, u)
      <3>1. \A t \in Task : t \in u.delayed \cup u.overflow => t \in s.delayed \cup s.overflow /\ u.wake[t] = s.wake[t]
        BY <1>7
      <3> QED
        BY <1>8, <3>1 DEF NobodyWaits, BeginsNoWait
    <2>2. Awake(s, s.current) => Awake(u, u.current)
      BY <1>1, <1>3, <1>4, <1>6, <1>8
    <2> QED
      BY <1>8, <2>1, <2>2 DEF Benign, Calm, Settled
  <1> QED
    BY <1>6, <1>10, <1>11, <1>12 DEF Core, Lists

Creates(s, new, x, p) ==
    /\ Same(s, new, Marks)
    /\ new.prio = [s.prio EXCEPT ![x] = p] /\ new.base = [s.base EXCEPT ![x] = p]
    /\ new.item = [s.item EXCEPT ![x] = configMAX_PRIORITIES - p]
    /\ new.notify = [s.notify EXCEPT ![x] = "NOT_WAITING"]

CreatedWell(s, x, u) ==
    /\ Core(u) /\ Benign(s, u) /\ u.notify[x] # "WAITING" /\ u.item[x] # 0
    /\ x \notin u.delayed \cup u.overflow

\* A task that is not there becomes ready.
LEMMA Created ==
    ASSUME NEW s, Core(s), NEW x \in Task, x # s.current, ~ Awake(s, x), x \notin Blocked(s), NEW p \in Priority,
           NEW new, Creates(s, new, x, p)
    PROVE  CreatedWell(s, x, MakeReady(new, {x}))
  <1> DEFINE ts == {x}
             n == configMAX_PRIORITIES - p
             u == MakeReady(new, ts)
  <1>0. /\ Same(s, new, Marks)
        /\ new.prio = [s.prio EXCEPT ![x] = p] /\ new.base = [s.base EXCEPT ![x] = p]
        /\ new.item = [s.item EXCEPT ![x] = configMAX_PRIORITIES - p]
        /\ new.notify = [s.notify EXCEPT ![x] = "NOT_WAITING"]
    BY DEF Creates
  <1>1. /\ s.notify \in [Task -> Notices] /\ s.item \in [Task -> 0 .. configMAX_PRIORITIES]
        /\ s.prio \in [Task -> Priority] /\ s.base \in [Task -> Priority] /\ EventLists(s, {})
    BY CoreParts DEF Types, Notices
  <1>2. n \in 0 .. configMAX_PRIORITIES /\ n # 0 /\ new.item = [s.item EXCEPT ![x] = n]
    <2>1. n \in 1 .. configMAX_PRIORITIES
      BY ItemTyped
    <2>2. new.item = [s.item EXCEPT ![x] = n]
      BY <1>0
    <2> HIDE DEF n
    <2> QED
      BY <2>1, <2>2, Constants
  <1> HIDE DEF n
  <1>3. /\ new.notify \in [Task -> Notices] /\ new.item \in [Task -> 0 .. configMAX_PRIORITIES]
        /\ new.prio \in [Task -> Priority] /\ new.base \in [Task -> Priority]
        /\ \A y \in Task : new.item[y] = 0 => s.item[y] = 0
        /\ \A y \in Task : new.notify[y] = "WAITING" => s.notify[y] = "WAITING"
        /\ \A y \in Task : Awake(s, y) => new.prio[y] = s.prio[y]
        /\ new.notify[x] # "WAITING" /\ new.item[x] # 0
    <2>1. new.notify \in [Task -> Notices] /\ \A y \in Task : new.notify[y] = "WAITING" => s.notify[y] = "WAITING"
      BY <1>0, <1>1 DEF Notices
    <2>2. new.item \in [Task -> 0 .. configMAX_PRIORITIES] /\ \A y \in Task : new.item[y] = 0 => s.item[y] = 0
      BY <1>1, <1>2
    <2>3. new.notify[x] # "WAITING" /\ new.item[x] # 0
      BY <1>0, <1>1, <1>2
    <2>4. new.prio \in [Task -> Priority] /\ new.base \in [Task -> Priority]
          /\ \A y \in Task : Awake(s, y) => new.prio[y] = s.prio[y]
      BY <1>0, <1>1
    <2> QED
      BY <2>1, <2>2, <2>3, <2>4
  <1>4. /\ Core(new) /\ new.current = s.current /\ Benign(s, new)
        /\ new.events = s.events /\ new.delayed = s.delayed /\ new.overflow = s.overflow
    BY <1>0, <1>3, Remarked
  <1>5. \A l \in EventList : x \notin Range(s.events[l])
    BY <1>1 DEF EventLists
  <1>6. ts \in SUBSET Task /\ \A y : y \in ts <=> y = x
    OBVIOUS
  <1> HIDE DEF ts
  <1>7. /\ \A l \in EventList : ts \cap Range(new.events[l]) = {}
        /\ new.current \in ts => new.current \notin Range(new.pending)
    BY <1>4, <1>5, <1>6
  <1>8. /\ Lists(u, {}) /\ Times(u)
        /\ Same(new, u, {"ready", "delayed", "overflow", "suspended", "terminating", "wake", "top"})
        /\ u.delayed = new.delayed \ ts /\ u.overflow = new.overflow \ ts
        /\ Benign(new, u)
    BY <1>4, <1>6, <1>7, MadeReady DEF Core
  <1>9. u.notify = new.notify /\ u.item = new.item
    BY <1>8 DEF Same, Fields
  <1>10. Benign(s, u)
    BY <1>4, <1>8, BenignTwice
  <1>11. Core(u) /\ Benign(s, u) /\ u.notify[x] # "WAITING" /\ u.item[x] # 0 /\ x \notin u.delayed \cup u.overflow
    BY <1>3, <1>6, <1>8, <1>9, <1>10 DEF Core
  <1> QED
    BY <1>11 DEF u, ts, CreatedWell
=============================================================================
