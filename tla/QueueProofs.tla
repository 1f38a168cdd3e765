---------------------------- MODULE QueueProofs ----------------------------
(***************************************************************************)
(* What holds of Queue for every number of tasks and priorities, every     *)
(* length of the queue, and all calls that tasks and interrupts make.      *)
(***************************************************************************)
EXTENDS Queue, FiniteSetTheorems, SequenceTheorems, TLAPS

(***************************************************************************)
(* An event list: tasks, none of them twice, in order of their priority.   *)
(***************************************************************************)
IsEventList(list) == list \in Seq(Task) /\ IsInjective(list) /\ InOrder(list)

Inside == {"lock", "timeout", "test", "place", "unlockTx", "unlockRx", "resume"}
Pcs == Inside \cup {"try", "suspend", "failIfEmpty"}

Busy == [op : {"send", "receive", "peek", "reset"},
         pos : {"back", "front", "overwrite", "none"},
         item : Item \cup {"nothing"},
         ticks : {"none", "finite", "forever"},
         pc : Pcs, expired : BOOLEAN, entered : BOOLEAN,
         then : {"try", "fail", "failIfEmpty"}]

DataType ==
    /\ storage \in [0 .. uxLength - 1 -> Item \cup {"nothing"}]
    /\ pcWriteTo \in 0 .. uxLength - 1 /\ pcReadFrom \in 0 .. uxLength - 1
    /\ uxMessagesWaiting \in 0 .. uxLength
    /\ got \in [Caller -> Item \cup {"nothing"}]

QueueType ==
    /\ DataType
    /\ cRxLock \in queueUNLOCKED .. LockMax /\ cTxLock \in queueUNLOCKED .. LockMax
    /\ IsEventList(xTasksWaitingToSend) /\ IsEventList(xTasksWaitingToReceive)
    /\ suspended \in Task \cup {Nobody}
    /\ blocked \subseteq Task /\ xPendingReadyList \subseteq Task
    /\ call \in [Task -> Busy \cup {Idle}]

(***************************************************************************)
(* What is known of a call where it is.  A task is past vTaskSuspendAll    *)
(* exactly if it is the one that has suspended the scheduler.              *)
(***************************************************************************)
InCall(t) ==
    /\ call[t].op = "send" => call[t].item \in Item /\ call[t].pos # "none"
    /\ call[t].pos = "overwrite" => call[t].op = "send" /\ uxLength = 1
    /\ call[t].pc # "try" => call[t].op # "reset"
    /\ call[t].pc \in {"test", "place"} => call[t].then = "try"
    /\ call[t].pc = "failIfEmpty" \/ call[t].then = "failIfEmpty" => ~IsSend(t)

Control ==
    \A t \in Task : /\ call[t] \in Busy => InCall(t)
                    /\ suspended = t <=> call[t].pc \in Inside

(***************************************************************************)
(* The queue is locked between prvLockQueue and prvUnlockQueue.            *)
(***************************************************************************)
Locking ==
    /\ suspended = Nobody => cRxLock = queueUNLOCKED /\ cTxLock = queueUNLOCKED
    /\ suspended # Nobody =>
         /\ cTxLock = queueUNLOCKED <=> call[suspended].pc \in {"lock", "unlockRx", "resume"}
         /\ cRxLock = queueUNLOCKED <=> call[suspended].pc \in {"lock", "resume"}

(***************************************************************************)
(* A blocked task has placed itself on a list in the last round of its     *)
(* loop, and looks at the queue again when it goes on.                     *)
(***************************************************************************)
Waiters ==
    \A t \in blocked : /\ call[t].pc \in {"try", "unlockTx", "unlockRx", "resume"}
                       /\ call[t].then = "try"
                       /\ call[t].op # "reset"

Blocks ==
    /\ blocked = Listed \cup xPendingReadyList
    /\ Listed \cap xPendingReadyList = {}
    /\ xPendingReadyList # {} => suspended # Nobody
    /\ \A t \in Range(xTasksWaitingToSend) : IsSend(t)
    /\ \A t \in Range(xTasksWaitingToReceive) : ~IsSend(t)

QInv == QueueType /\ Control /\ Locking /\ Waiters /\ Blocks

(***************************************************************************)
(* No wakeup is lost, and none will be: the same holds already of a task   *)
(* that has seen that the queue cannot serve it and is about to place      *)
(* itself on the list.                                                     *)
(***************************************************************************)
Placing(ops) == \E t \in Task : call[t].pc = "place" /\ call[t].op \in ops

Receivers == {"receive", "peek"}
Senders == {"send"}

WakeReceiver ==
    xTasksWaitingToReceive # << >> \/ Placing(Receivers) =>
      uxMessagesWaiting <= Cardinality(About(Receivers)) + OwedBy(cTxLock)

WakeSender ==
    xTasksWaitingToSend # << >> \/ Placing(Senders) =>
      uxLength - uxMessagesWaiting <= Cardinality(About(Senders)) + OwedBy(cRxLock)

-----------------------------------------------------------------------------
(***************************************************************************)
(* Event lists.  Two tasks that stay on a list stay in their order.        *)
(***************************************************************************)
Before(list, t, u) == \E i, j \in DOMAIN list : i < j /\ list[i] = t /\ list[j] = u

Keeps(old, new) ==
    \A t, u \in Range(old) \cap Range(new) : Before(old, t, u) => Before(new, t, u)

LEMMA LeastExists ==
    ASSUME NEW T \in SUBSET Nat, T # {}
    PROVE  Min(T) \in T /\ \A y \in T : Min(T) <= y
  <1> DEFINE R == OpToRel(<, Nat)
  <1>1. IsWellFoundedOn(R, Nat)
    BY NatLessThanWellFounded
  <1>2. \A x, y \in Nat : x < y => <<x, y>> \in R
    BY DEF OpToRel
  <1> HIDE DEF R
  <1>3. PICK x \in T : \A y \in T : ~ (<<y, x>> \in R)
    BY <1>1, WFMin
  <1>4. ASSUME NEW y \in T PROVE x <= y
    <2>1. x \in Nat /\ y \in Nat /\ ~ (y < x)
      BY <1>2, <1>3
    <2> QED
      BY <2>1
  <1>5. \E z \in T : \A y \in T : z <= y
    BY <1>4
  <1> QED
    BY <1>5 DEF Min

LEMMA InList ==
    ASSUME NEW l \in Seq(Task)
    PROVE  /\ Len(l) \in Nat /\ DOMAIN l = 1 .. Len(l)
           /\ Range(l) \subseteq Task
           /\ \A t : t \in Range(l) <=> \E i \in 1 .. Len(l) : l[i] = t
           /\ l = << >> <=> Len(l) = 0
           /\ l = << >> <=> Range(l) = {}
  <1>1. Len(l) \in Nat /\ DOMAIN l = 1 .. Len(l)
    BY LenProperties
  <1>2. \A i \in 1 .. Len(l) : l[i] \in Task
    BY ElementOfSeq
  <1>3. l = << >> <=> Len(l) = 0
    BY EmptySeq, <1>1
  <1>4. \A t : t \in Range(l) <=> \E i \in 1 .. Len(l) : l[i] = t
    BY <1>1 DEF Range
  <1>5. Len(l) # 0 => l[1] \in Range(l)
    BY <1>1, <1>4
  <1>6. Len(l) = 0 => Range(l) = {}
    BY <1>1, <1>4
  <1> QED
    BY <1>1, <1>2, <1>3, <1>4, <1>5, <1>6

(***************************************************************************)
(* What is left of an event list, in the same order, is one.               *)
(***************************************************************************)
LEMMA SelectionOfList ==
    ASSUME NEW l, IsEventList(l), NEW m \in Seq(Task),
           NEW f \in [1 .. Len(m) -> 1 .. Len(l)],
           \A i \in 1 .. Len(m) : m[i] = l[f[i]],
           \A i, j \in 1 .. Len(m) : i < j => f[i] < f[j]
    PROVE  IsEventList(m) /\ Keeps(l, m) /\ Range(m) \subseteq Range(l)
  <1>1. l \in Seq(Task) /\ IsInjective(l) /\ InOrder(l)
    BY DEF IsEventList
  <1>2. Len(l) \in Nat /\ DOMAIN l = 1 .. Len(l)
    BY <1>1, InList
  <1>3. Len(m) \in Nat /\ DOMAIN m = 1 .. Len(m)
    BY InList
  <1>4. \A i \in 1 .. Len(m) : f[i] \in 1 .. Len(l)
    OBVIOUS
  <1>5. IsInjective(m)
    <2> SUFFICES ASSUME NEW a \in DOMAIN m, NEW b \in DOMAIN m, m[a] = m[b] PROVE a = b
      BY DEF IsInjective
    <2>1. l[f[a]] = l[f[b]]
      BY <1>3
    <2>2. f[a] = f[b]
      BY <2>1, <1>1, <1>2, <1>3, <1>4 DEF IsInjective
    <2>3. ~ (a < b) /\ ~ (b < a)
      BY <2>2, <1>2, <1>3, <1>4
    <2> QED
      BY <2>3, <1>3
  <1>6. InOrder(m)
    <2> SUFFICES ASSUME NEW i \in DOMAIN m, NEW j \in DOMAIN m, i < j
                 PROVE  Priority[m[i]] >= Priority[m[j]]
      BY DEF InOrder
    <2>1. f[i] < f[j] /\ f[i] \in DOMAIN l /\ f[j] \in DOMAIN l
      BY <1>2, <1>3, <1>4
    <2>2. Priority[l[f[i]]] >= Priority[l[f[j]]]
      BY <2>1, <1>1 DEF InOrder
    <2> QED
      BY <2>2, <1>3
  <1>7. Range(m) \subseteq Range(l)
    BY <1>1, <1>3, <1>4, InList
  <1>8. Keeps(l, m)
    <2> SUFFICES ASSUME NEW t \in Range(l) \cap Range(m), NEW u \in Range(l) \cap Range(m),
                        Before(l, t, u)
                 PROVE  Before(m, t, u)
      BY DEF Keeps
    <2>1. PICK i, j \in 1 .. Len(l) : i < j /\ l[i] = t /\ l[j] = u
      BY <1>2 DEF Before
    <2>2. PICK a \in 1 .. Len(m) : m[a] = t
      BY InList
    <2>3. PICK b \in 1 .. Len(m) : m[b] = u
      BY InList
    <2>4. f[a] = i /\ f[b] = j
      BY <2>1, <2>2, <2>3, <1>1, <1>2, <1>4 DEF IsInjective
    <2>5. a # b /\ ~ (b < a)
      BY <2>1, <2>4, <1>2, <1>3
    <2>6. a < b
      BY <2>5, <1>3
    <2> QED
      BY <2>2, <2>3, <2>6, <1>3 DEF Before
  <1> QED
    BY <1>5, <1>6, <1>7, <1>8 DEF IsEventList

(***************************************************************************)
(* The first n leave: unlocking the queue, and waking the head.            *)
(***************************************************************************)
LEMMA FirstLeave ==
    ASSUME NEW l, IsEventList(l), NEW n \in 0 .. Len(l)
    PROVE  LET w == Range(SubSeq(l, 1, n))
               m == SubSeq(l, n + 1, Len(l))
           IN  /\ IsEventList(m) /\ Keeps(l, m)
               /\ w \subseteq Range(l) /\ Range(m) = Range(l) \ w
               /\ IsFiniteSet(w) /\ Cardinality(w) = n
               /\ m # << >> => n < Len(l)
  <1> DEFINE p == SubSeq(l, 1, n)
             w == Range(p)
             m == SubSeq(l, n + 1, Len(l))
  <1>1. l \in Seq(Task) /\ IsInjective(l)
    BY DEF IsEventList
  <1>2. Len(l) \in Nat /\ DOMAIN l = 1 .. Len(l) /\ \A i \in 1 .. Len(l) : l[i] \in Task
    BY <1>1, InList, ElementOfSeq
  <1>3. /\ p \in Seq(Task) /\ Len(p) = n
        /\ \A i \in 1 .. n : p[i] = l[i]
    <2>1. \A i \in 1 .. n : l[i] \in Task
      BY <1>2
    <2>2. /\ p \in Seq(Task)
          /\ Len(p) = IF 1 <= n THEN n - 1 + 1 ELSE 0
          /\ \A i \in 1 .. n - 1 + 1 : p[i] = l[1 + i - 1]
      BY <2>1, SubSeqProperties, <1>2
    <2> QED
      BY <2>2, <1>2
  <1>4. /\ m \in Seq(Task) /\ Len(m) = Len(l) - n
        /\ \A i \in 1 .. Len(l) - n : m[i] = l[i + n]
    <2>1. \A i \in n + 1 .. Len(l) : l[i] \in Task
      BY <1>2
    <2>2. /\ m \in Seq(Task)
          /\ Len(m) = IF n + 1 <= Len(l) THEN Len(l) - (n + 1) + 1 ELSE 0
          /\ \A i \in 1 .. Len(l) - (n + 1) + 1 : m[i] = l[(n + 1) + i - 1]
      BY <2>1, SubSeqProperties, <1>2
    <2>3. \A i \in 1 .. Len(l) - n : m[i] = l[i + n]
      <3> TAKE i \in 1 .. Len(l) - n
      <3>1. i \in 1 .. Len(l) - (n + 1) + 1 /\ (n + 1) + i - 1 = i + n
        BY <1>2
      <3> QED
        BY <3>1, <2>2
    <2> HIDE DEF m
    <2>4. Len(m) = Len(l) - n
      <3>1. Len(m) = IF n + 1 <= Len(l) THEN Len(l) - (n + 1) + 1 ELSE 0
        BY <2>2
      <3>2. n \in Nat /\ n <= Len(l) /\ Len(l) \in Nat
        BY <1>2
      <3> QED
        BY <3>1, <3>2
    <2> QED
      BY <2>2, <2>3, <2>4
  <1> HIDE DEF p, m
  <1>5. IsEventList(m) /\ Keeps(l, m) /\ Range(m) \subseteq Range(l)
    <2> DEFINE f == [i \in 1 .. Len(m) |-> i + n]
    <2>1. f \in [1 .. Len(m) -> 1 .. Len(l)]
      BY <1>4, <1>2
    <2>2. \A i \in 1 .. Len(m) : m[i] = l[f[i]]
      BY <1>4
    <2>3. \A i, j \in 1 .. Len(m) : i < j => f[i] < f[j]
      BY <1>4, <1>2
    <2> HIDE DEF f
    <2> QED
      BY <2>1, <2>2, <2>3, <1>4, SelectionOfList
  <1>6. w \subseteq Range(l)
    BY <1>1, <1>2, <1>3, InList
  <1>7. Range(m) \cap w = {}
    <2> SUFFICES ASSUME NEW t \in Range(m), t \in w PROVE FALSE
      OBVIOUS
    <2>1. PICK a \in 1 .. Len(l) - n : m[a] = t
      BY <1>4, InList
    <2>2. PICK b \in 1 .. n : p[b] = t
      BY <1>3, InList
    <2>3. l[a + n] = l[b] /\ a + n \in DOMAIN l /\ b \in DOMAIN l
      BY <2>1, <2>2, <1>2, <1>3, <1>4
    <2>4. a + n = b
      BY <2>3, <1>1 DEF IsInjective
    <2> QED
      BY <2>4, <1>2
  <1>8. Range(l) \subseteq Range(m) \cup w
    <2> SUFFICES ASSUME NEW t \in Range(l) PROVE t \in Range(m) \cup w
      OBVIOUS
    <2>1. PICK a \in 1 .. Len(l) : l[a] = t
      BY <1>1, InList
    <2>2. CASE a <= n
      <3>1. a \in 1 .. Len(p) /\ p[a] = t
        BY <2>1, <2>2, <1>2, <1>3
      <3> QED
        BY <3>1, <1>3, InList
    <2>3. CASE a > n
      <3>1. a - n \in 1 .. Len(m) /\ m[a - n] = l[(a - n) + n] /\ (a - n) + n = a
        BY <2>1, <2>3, <1>2, <1>4
      <3> QED
        BY <3>1, <2>1, <1>4, InList
    <2> QED
      BY <2>2, <2>3, <1>2
  <1>9. IsFiniteSet(w) /\ Cardinality(w) = n
    <2>1. p \in [1 .. n -> w]
      BY <1>3, InList DEF Range
    <2>2. IsInjective(p)
      BY <1>1, <1>2, <1>3, InList DEF IsInjective
    <2>3. p \in Injection(1 .. n, w)
      BY <2>1, <2>2 DEF Injection
    <2>4. p \in Surjection(1 .. n, w)
      BY <2>1, <1>3, InList DEF Surjection
    <2>5. IsFiniteSet(1 .. n) /\ Cardinality(1 .. n) = n
      <3>1. /\ IsFiniteSet(1 .. n)
            /\ Cardinality(1 .. n) = IF 1 > n THEN 0 ELSE n - 1 + 1
        BY FS_Interval, <1>2
      <3> QED
        BY <3>1, <1>2
    <2> QED
      BY <2>3, <2>4, <2>5, FS_Surjection
  <1>10. m # << >> => n < Len(l)
    BY <1>2, <1>4, InList
  <1> QED
    BY <1>5, <1>6, <1>7, <1>8, <1>9, <1>10 DEF p, m

LEMMA HeadLeaves ==
    ASSUME NEW l, IsEventList(l)
    PROVE  /\ IsEventList(Rest(l)) /\ Keeps(l, Rest(l))
           /\ Woken(l) \subseteq Range(l) /\ Range(Rest(l)) = Range(l) \ Woken(l)
           /\ Rest(l) # << >> => l # << >> /\ \E h \in Range(l) : Woken(l) = {h}
  <1>1. l \in Seq(Task) /\ Len(l) \in Nat
    BY InList DEF IsEventList
  <1>2. CASE l = << >>
    <2>1. Rest(l) = l /\ Woken(l) = {}
      BY <1>2 DEF Rest, Woken
    <2>2. Keeps(l, l)
      BY DEF Keeps
    <2> QED
      BY <2>1, <2>2, <1>2
  <1>3. CASE l # << >>
    <2>1. Len(l) >= 1
      BY <1>1, <1>3, InList
    <2>2. Rest(l) = SubSeq(l, 2, Len(l))
      BY <1>1, <1>3, TailIsSubSeq DEF Rest
    <2>3. Woken(l) = {l[1]}
      BY <1>1, <1>3 DEF Woken
    <2>4. Range(SubSeq(l, 1, 1)) = {l[1]}
      <3>1. l[1] \in Task
        BY <1>1, <2>1, ElementOfSeq
      <3>2. /\ SubSeq(l, 1, 1) \in Seq(Task)
            /\ Len(SubSeq(l, 1, 1)) = 1
            /\ SubSeq(l, 1, 1)[1] = l[1]
        <4>1. \A i \in 1 .. 1 : l[i] \in Task
          BY <3>1
        <4>2. /\ SubSeq(l, 1, 1) \in Seq(Task)
              /\ Len(SubSeq(l, 1, 1)) = IF 1 <= 1 THEN 1 - 1 + 1 ELSE 0
              /\ \A i \in 1 .. 1 - 1 + 1 : SubSeq(l, 1, 1)[i] = l[1 + i - 1]
          BY <4>1, SubSeqProperties
        <4> QED
          BY <4>2
      <3> HIDE DEF Range
      <3>3. \A t : t \in Range(SubSeq(l, 1, 1)) <=> t = l[1]
        <4>1. \A t : t \in Range(SubSeq(l, 1, 1)) <=> \E i \in 1 .. Len(SubSeq(l, 1, 1)) : SubSeq(l, 1, 1)[i] = t
          BY <3>2, InList
        <4>2. 1 .. 1 = {1}
          OBVIOUS
        <4> QED
          BY <4>1, <4>2, <3>2
      <3> QED
        BY <3>3
    <2>5. 1 \in 0 .. Len(l) /\ 1 + 1 = 2
      BY <2>1, <1>1
    <2>6. /\ IsEventList(SubSeq(l, 2, Len(l))) /\ Keeps(l, SubSeq(l, 2, Len(l)))
          /\ {l[1]} \subseteq Range(l) /\ Range(SubSeq(l, 2, Len(l))) = Range(l) \ {l[1]}
      BY <2>4, <2>5, FirstLeave
    <2> QED
      BY <2>2, <2>3, <2>6, <1>3
  <1> QED
    BY <1>2, <1>3

(***************************************************************************)
(* One task leaves, wherever it is.                                        *)
(***************************************************************************)
LEMMA OneLeaves ==
    ASSUME NEW l, IsEventList(l), NEW t
    PROVE  IsEventList(Off(l, t)) /\ Keeps(l, Off(l, t)) /\ Range(Off(l, t)) = Range(l) \ {t}
  <1>1. l \in Seq(Task) /\ IsInjective(l)
    BY DEF IsEventList
  <1>2. Len(l) \in Nat /\ DOMAIN l = 1 .. Len(l) /\ \A i \in 1 .. Len(l) : l[i] \in Task
    BY <1>1, InList, ElementOfSeq
  <1>3. CASE t \notin Range(l)
    <2>1. Off(l, t) = l
      BY <1>3 DEF Off
    <2>2. Keeps(l, l)
      BY DEF Keeps
    <2> QED
      BY <2>1, <2>2, <1>3
  <1>4. CASE t \in Range(l)
    <2> DEFINE k == CHOOSE i \in DOMAIN l : l[i] = t
               a == SubSeq(l, 1, k - 1)
               b == SubSeq(l, k + 1, Len(l))
               m == a \o b
    <2>1. k \in 1 .. Len(l) /\ l[k] = t
      <3>1. \E i \in DOMAIN l : l[i] = t
        BY <1>4, <1>1, <1>2, InList
      <3> QED
        BY <3>1, <1>2
    <2>2. Off(l, t) = m
      BY <1>4 DEF Off, RemoveAt
    <2> HIDE DEF k
    <2>3. /\ a \in Seq(Task) /\ Len(a) = k - 1
          /\ \A i \in 1 .. k - 1 : a[i] = l[i]
      <3>1. \A i \in 1 .. k - 1 : l[i] \in Task
        BY <1>2, <2>1
      <3>2. /\ a \in Seq(Task)
            /\ Len(a) = IF 1 <= k - 1 THEN (k - 1) - 1 + 1 ELSE 0
            /\ \A i \in 1 .. (k - 1) - 1 + 1 : a[i] = l[1 + i - 1]
        BY <3>1, <2>1, <1>2, SubSeqProperties
      <3> HIDE DEF a
      <3>3. Len(a) = k - 1
        BY <3>2, <2>1, <1>2
      <3>4. \A i \in 1 .. k - 1 : a[i] = l[i]
        BY <3>2, <2>1, <1>2
      <3> QED
        BY <3>2, <3>3, <3>4
    <2>4. /\ b \in Seq(Task) /\ Len(b) = Len(l) - k
          /\ \A i \in 1 .. Len(l) - k : b[i] = l[i + k]
      <3>1. \A i \in k + 1 .. Len(l) : l[i] \in Task
        BY <1>2, <2>1
      <3>2. /\ b \in Seq(Task)
            /\ Len(b) = IF k + 1 <= Len(l) THEN Len(l) - (k + 1) + 1 ELSE 0
            /\ \A i \in 1 .. Len(l) - (k + 1) + 1 : b[i] = l[(k + 1) + i - 1]
        BY <3>1, <2>1, <1>2, SubSeqProperties
      <3> HIDE DEF b
      <3>3. Len(b) = Len(l) - k
        <4>1. Len(b) = IF k + 1 <= Len(l) THEN Len(l) - (k + 1) + 1 ELSE 0
          BY <3>2
        <4>2. k \in Nat /\ k <= Len(l) /\ Len(l) \in Nat
          BY <2>1, <1>2
        <4> QED
          BY <4>1, <4>2
      <3>4. \A i \in 1 .. Len(l) - k : b[i] = l[i + k]
        <4> TAKE i \in 1 .. Len(l) - k
        <4>1. i \in 1 .. Len(l) - (k + 1) + 1 /\ (k + 1) + i - 1 = i + k
          BY <2>1, <1>2
        <4> QED
          BY <4>1, <3>2
      <3> QED
        BY <3>2, <3>3, <3>4
    <2> HIDE DEF a, b
    <2>5. /\ m \in Seq(Task) /\ Len(m) = Len(a) + Len(b)
          /\ \A i \in 1 .. Len(a) + Len(b) : m[i] = IF i <= Len(a) THEN a[i] ELSE b[i - Len(a)]
      BY <2>3, <2>4, ConcatProperties
    <2> HIDE DEF m
    <2>6. Len(m) = Len(l) - 1
      BY <2>3, <2>4, <2>5, <2>1, <1>2
    <2>7. \A i \in 1 .. Len(m) : m[i] = IF i < k THEN l[i] ELSE l[i + 1]
      <3> TAKE i \in 1 .. Len(m)
      <3>1. i \in 1 .. Len(a) + Len(b) /\ i \in Nat
        BY <2>5, <2>6, <1>2
      <3>2. CASE i < k
        <4>1. i <= Len(a) /\ i \in 1 .. k - 1
          BY <3>1, <3>2, <2>1, <2>3, <1>2
        <4> QED
          BY <4>1, <3>1, <3>2, <2>3, <2>5
      <3>3. CASE i >= k
        <4>1. ~ (i <= Len(a)) /\ i - Len(a) \in 1 .. Len(l) - k /\ (i - Len(a)) + k = i + 1 /\ ~ (i < k)
          BY <3>1, <3>3, <2>1, <2>3, <2>4, <1>2
        <4>2. m[i] = b[i - Len(a)]
          BY <4>1, <3>1, <2>5
        <4>3. b[i - Len(a)] = l[i + 1]
          BY <4>1, <2>4
        <4> QED
          BY <4>1, <4>2, <4>3
      <3> QED
        BY <3>1, <3>2, <3>3, <2>1, <1>2
    <2>8. IsEventList(m) /\ Keeps(l, m) /\ Range(m) \subseteq Range(l)
      <3> DEFINE f == [i \in 1 .. Len(m) |-> IF i < k THEN i ELSE i + 1]
      <3>1. f \in [1 .. Len(m) -> 1 .. Len(l)]
        BY <2>6, <2>1, <1>2
      <3>2. \A i \in 1 .. Len(m) : m[i] = l[f[i]]
        BY <2>7
      <3>3. \A i, j \in 1 .. Len(m) : i < j => f[i] < f[j]
        BY <2>6, <2>1, <1>2
      <3> HIDE DEF f
      <3> QED
        BY <3>1, <3>2, <3>3, <2>5, SelectionOfList
    <2>9. t \notin Range(m)
      <3> SUFFICES ASSUME t \in Range(m) PROVE FALSE
        OBVIOUS
      <3>1. PICK i \in 1 .. Len(m) : m[i] = t
        BY <2>5, InList
      <3>2. PICK j \in 1 .. Len(l) : l[j] = t /\ j # k
        BY <3>1, <2>7, <2>6, <2>1, <1>2
      <3> QED
        BY <3>2, <2>1, <1>1, <1>2 DEF IsInjective
    <2>10. Range(l) \subseteq Range(m) \cup {t}
      <3> SUFFICES ASSUME NEW u \in Range(l), u # t PROVE u \in Range(m)
        OBVIOUS
      <3>1. PICK j \in 1 .. Len(l) : l[j] = u
        BY <1>1, InList
      <3>2. j # k
        BY <3>1, <2>1
      <3>3. CASE j < k
        <4>1. j \in 1 .. Len(m) /\ m[j] = u
          BY <3>1, <3>3, <2>1, <2>6, <2>7, <1>2
        <4> QED
          BY <4>1, <2>5, InList
      <3>4. CASE j > k
        <4>1. j - 1 \in 1 .. Len(m) /\ ~ (j - 1 < k) /\ (j - 1) + 1 = j
          BY <3>4, <2>1, <2>6, <1>2
        <4>2. m[j - 1] = l[(j - 1) + 1]
          BY <4>1, <2>7
        <4> QED
          BY <4>1, <4>2, <3>1, <2>5, InList
      <3> QED
        BY <3>2, <3>3, <3>4, <2>1, <1>2
    <2> QED
      BY <2>2, <2>8, <2>9, <2>10
  <1> QED
    BY <1>3, <1>4

(***************************************************************************)
(* One task is put into its place.                                         *)
(***************************************************************************)
LEMMA OneIsPut ==
    ASSUME NEW l, IsEventList(l), NEW t \in Task, t \notin Range(l)
    PROVE  /\ IsEventList(PutInOrder(l, t)) /\ Keeps(l, PutInOrder(l, t))
           /\ Range(PutInOrder(l, t)) = Range(l) \cup {t}
           /\ PutInOrder(l, t) # << >>
  <1> DEFINE lower == {i \in DOMAIN l : Priority[l[i]] < Priority[t]}
             k == Min(lower \cup {Len(l) + 1})
             a == SubSeq(l, 1, k - 1)
             b == SubSeq(l, k, Len(l))
             at == a \o <<t>>
             m == at \o b
  <1>1. l \in Seq(Task) /\ IsInjective(l) /\ InOrder(l)
    BY DEF IsEventList
  <1>2. Len(l) \in Nat /\ DOMAIN l = 1 .. Len(l) /\ \A i \in 1 .. Len(l) : l[i] \in Task
    BY <1>1, InList, ElementOfSeq
  <1>3. PutInOrder(l, t) = m
    BY DEF PutInOrder, InsertAt
  <1>4. /\ k \in 1 .. Len(l) + 1
        /\ \A i \in lower : k <= i
        /\ k \in lower \/ k = Len(l) + 1
    <2>1. lower \cup {Len(l) + 1} \in SUBSET Nat /\ lower \cup {Len(l) + 1} # {}
      BY <1>2
    <2>2. k \in lower \cup {Len(l) + 1} /\ \A i \in lower \cup {Len(l) + 1} : k <= i
      BY <2>1, LeastExists
    <2> HIDE DEF k
    <2> QED
      BY <2>2, <1>2
  <1>5. \A i \in 1 .. Len(l) : i < k => Priority[l[i]] >= Priority[t]
    <2> HIDE DEF k
    <2> TAKE i \in 1 .. Len(l)
    <2> HAVE i < k
    <2>1. i \notin lower
      BY <1>4, <1>2
    <2>2. Priority[l[i]] \in Nat /\ Priority[t] \in Nat
      BY <1>2, QueueAssumption
    <2> QED
      BY <2>1, <2>2, <1>2
  <1>6. \A i \in 1 .. Len(l) : i >= k => Priority[t] >= Priority[l[i]]
    <2> HIDE DEF k
    <2> TAKE i \in 1 .. Len(l)
    <2> HAVE i >= k
    <2>1. k \in lower
      BY <1>4, <1>2
    <2>2. Priority[l[k]] >= Priority[l[i]]
      <3>1. CASE k = i
        BY <3>1, <2>1, <1>2, QueueAssumption
      <3>2. CASE k < i
        BY <3>2, <2>1, <1>1, <1>2 DEF InOrder
      <3> QED
        BY <3>1, <3>2, <1>2, <1>4
    <2>3. Priority[l[k]] \in Nat /\ Priority[l[i]] \in Nat /\ Priority[t] \in Nat
      BY <2>1, <1>2, QueueAssumption
    <2> QED
      BY <2>1, <2>2, <2>3
  <1> HIDE DEF k, lower
  <1>7. /\ a \in Seq(Task) /\ Len(a) = k - 1
        /\ \A i \in 1 .. k - 1 : a[i] = l[i]
    <2>1. \A i \in 1 .. k - 1 : l[i] \in Task
      BY <1>2, <1>4
    <2>2. /\ a \in Seq(Task)
          /\ Len(a) = IF 1 <= k - 1 THEN (k - 1) - 1 + 1 ELSE 0
          /\ \A i \in 1 .. (k - 1) - 1 + 1 : a[i] = l[1 + i - 1]
      BY <2>1, <1>2, <1>4, SubSeqProperties
    <2> HIDE DEF a
    <2>3. Len(a) = k - 1
      BY <2>2, <1>2, <1>4
    <2>4. \A i \in 1 .. k - 1 : a[i] = l[i]
      BY <2>2, <1>2, <1>4
    <2> QED
      BY <2>2, <2>3, <2>4
  <1>8. /\ b \in Seq(Task) /\ Len(b) = Len(l) + 1 - k
        /\ \A i \in 1 .. Len(l) + 1 - k : b[i] = l[i + k - 1]
    <2>1. \A i \in k .. Len(l) : l[i] \in Task
      BY <1>2, <1>4
    <2>2. /\ b \in Seq(Task)
          /\ Len(b) = IF k <= Len(l) THEN Len(l) - k + 1 ELSE 0
          /\ \A i \in 1 .. Len(l) - k + 1 : b[i] = l[k + i - 1]
      BY <2>1, <1>2, <1>4, SubSeqProperties
    <2> HIDE DEF b
    <2>3. Len(b) = Len(l) + 1 - k
      BY <2>2, <1>2, <1>4
    <2>4. \A i \in 1 .. Len(l) + 1 - k : b[i] = l[i + k - 1]
      <3> TAKE i \in 1 .. Len(l) + 1 - k
      <3>1. i \in 1 .. Len(l) - k + 1 /\ k + i - 1 = i + k - 1
        BY <1>2, <1>4
      <3> QED
        BY <3>1, <2>2
    <2> QED
      BY <2>2, <2>3, <2>4
  <1> HIDE DEF a, b
  <1>9. /\ at \in Seq(Task) /\ Len(at) = k
        /\ \A i \in 1 .. k : at[i] = IF i < k THEN l[i] ELSE t
    <2>1. <<t>> \in Seq(Task) /\ Len(<<t>>) = 1 /\ <<t>>[1] = t
      OBVIOUS
    <2>2. /\ at \in Seq(Task) /\ Len(at) = Len(a) + Len(<<t>>)
          /\ \A i \in 1 .. Len(a) + Len(<<t>>) : at[i] = IF i <= Len(a) THEN a[i] ELSE <<t>>[i - Len(a)]
      BY <2>1, <1>7, ConcatProperties
    <2> HIDE DEF at
    <2>3. Len(at) = k
      BY <2>1, <2>2, <1>7, <1>4, <1>2
    <2>4. \A i \in 1 .. k : at[i] = IF i < k THEN l[i] ELSE t
      <3> TAKE i \in 1 .. k
      <3>1. i \in 1 .. Len(a) + Len(<<t>>) /\ i \in Nat
        BY <2>1, <1>7, <1>4, <1>2
      <3>2. CASE i < k
        <4>1. i <= Len(a) /\ i \in 1 .. k - 1
          BY <3>1, <3>2, <1>7, <1>4, <1>2
        <4> QED
          BY <4>1, <3>1, <3>2, <2>2, <1>7
      <3>3. CASE i = k
        <4>1. ~ (i <= Len(a)) /\ i - Len(a) = 1
          BY <3>3, <1>7, <1>4, <1>2
        <4> QED
          BY <4>1, <3>1, <3>3, <2>1, <2>2, <1>4, <1>2
      <3> QED
        BY <3>2, <3>3, <1>4, <1>2
    <2> QED
      BY <2>2, <2>3, <2>4
  <1> HIDE DEF at
  <1>10. /\ m \in Seq(Task) /\ Len(m) = Len(l) + 1
         /\ \A i \in 1 .. Len(l) + 1 : m[i] = IF i < k THEN l[i] ELSE IF i = k THEN t ELSE l[i - 1]
    <2>1. /\ m \in Seq(Task) /\ Len(m) = Len(at) + Len(b)
          /\ \A i \in 1 .. Len(at) + Len(b) : m[i] = IF i <= Len(at) THEN at[i] ELSE b[i - Len(at)]
      BY <1>8, <1>9, ConcatProperties
    <2> HIDE DEF m
    <2>2. Len(m) = Len(l) + 1
      BY <2>1, <1>8, <1>9, <1>4, <1>2
    <2>3. \A i \in 1 .. Len(l) + 1 : m[i] = IF i < k THEN l[i] ELSE IF i = k THEN t ELSE l[i - 1]
      <3> TAKE i \in 1 .. Len(l) + 1
      <3>1. i \in 1 .. Len(at) + Len(b) /\ i \in Nat
        BY <1>8, <1>9, <1>4, <1>2
      <3>2. CASE i <= k
        <4>1. i \in 1 .. k /\ i <= Len(at)
          BY <3>1, <3>2, <1>9, <1>4, <1>2
        <4>2. m[i] = IF i < k THEN l[i] ELSE t
          BY <4>1, <3>1, <2>1, <1>9
        <4> QED
          BY <4>2, <3>1, <3>2, <1>4, <1>2
      <3>3. CASE i > k
        <4>1. ~ (i <= Len(at)) /\ i - Len(at) \in 1 .. Len(l) + 1 - k /\ (i - Len(at)) + k - 1 = i - 1
          BY <3>1, <3>3, <1>9, <1>4, <1>2
        <4>2. m[i] = b[i - Len(at)]
          BY <4>1, <3>1, <2>1
        <4>3. b[i - Len(at)] = l[i - 1]
          BY <4>1, <1>8
        <4>4. ~ (i < k) /\ i # k
          BY <3>1, <3>3, <1>4, <1>2
        <4> QED
          BY <4>2, <4>3, <4>4
      <3> QED
        BY <3>1, <3>2, <3>3, <1>4, <1>2
    <2> QED
      BY <2>1, <2>2, <2>3
  <1> HIDE DEF m
  <1>11. Len(m) \in Nat /\ DOMAIN m = 1 .. Len(l) + 1
    BY <1>10, InList
  <1>12. \A i \in 1 .. Len(l) : /\ i < k => i \in 1 .. Len(l) + 1 /\ m[i] = l[i]
                                /\ i >= k => i + 1 \in 1 .. Len(l) + 1 /\ m[i + 1] = l[i]
    <2> TAKE i \in 1 .. Len(l)
    <2>1. ASSUME i < k PROVE i \in 1 .. Len(l) + 1 /\ m[i] = l[i]
      BY <2>1, <1>10, <1>2
    <2>2. ASSUME i >= k PROVE i + 1 \in 1 .. Len(l) + 1 /\ m[i + 1] = l[i]
      <3>1. i + 1 \in 1 .. Len(l) + 1 /\ ~ (i + 1 < k) /\ i + 1 # k /\ (i + 1) - 1 = i
        BY <2>2, <1>2, <1>4
      <3> QED
        BY <3>1, <1>10
    <2> QED
      BY <2>1, <2>2
  <1>13. Range(m) = Range(l) \cup {t}
    <2>1. ASSUME NEW u \in Range(l) PROVE u \in Range(m)
      <3>1. PICK i \in 1 .. Len(l) : l[i] = u
        BY <1>1, InList
      <3>2. i < k \/ i >= k
        BY <1>2, <1>4
      <3> QED
        BY <3>1, <3>2, <1>12, <1>10, InList
    <2>2. t \in Range(m)
      <3>1. k \in 1 .. Len(m) /\ m[k] = t
        BY <1>10, <1>4, <1>2
      <3> QED
        BY <3>1, <1>10, InList
    <2>3. ASSUME NEW u \in Range(m), u # t PROVE u \in Range(l)
      <3>1. PICK i \in 1 .. Len(l) + 1 : m[i] = u
        BY <1>10, InList
      <3>2. CASE i < k
        BY <3>1, <3>2, <1>10, <1>1, <1>2, <1>4, InList
      <3>3. CASE i > k
        <4>1. i - 1 \in 1 .. Len(l) /\ m[i] = l[i - 1]
          BY <3>3, <1>10, <1>2, <1>4
        <4> QED
          BY <4>1, <3>1, <1>1, InList
      <3>4. i # k
        BY <3>1, <2>3, <1>10, <1>4, <1>2
      <3> QED
        BY <3>2, <3>3, <3>4, <1>4, <1>2
    <2> QED
      BY <2>1, <2>2, <2>3
  <1>14. IsInjective(m)
    <2> SUFFICES ASSUME NEW i \in 1 .. Len(l) + 1, NEW j \in 1 .. Len(l) + 1, i < j, m[i] = m[j] PROVE FALSE
      <3>1. \A i, j \in 1 .. Len(l) + 1 : m[i] = m[j] => ~ (i < j) /\ ~ (j < i)
        OBVIOUS
      <3>2. \A i, j \in 1 .. Len(l) + 1 : ~ (i < j) /\ ~ (j < i) => i = j
        BY <1>2
      <3> QED
        BY <3>1, <3>2, <1>11 DEF IsInjective
    <2>1. \A x, y \in 1 .. Len(l) : l[x] = l[y] => x = y
      BY <1>1, <1>2 DEF IsInjective
    <2>2. \A x \in 1 .. Len(l) : l[x] # t
      BY <1>1, InList
    <2>3. CASE i < k /\ j < k
      BY <2>3, <2>1, <1>10, <1>2, <1>4
    <2>4. CASE i < k /\ j > k
      <3>1. i \in 1 .. Len(l) /\ j - 1 \in 1 .. Len(l) /\ m[i] = l[i] /\ m[j] = l[j - 1] /\ i # j - 1
        BY <2>4, <1>10, <1>2, <1>4
      <3> QED
        BY <3>1, <2>1
    <2>5. CASE i > k /\ j > k
      <3>1. i - 1 \in 1 .. Len(l) /\ j - 1 \in 1 .. Len(l) /\ m[i] = l[i - 1] /\ m[j] = l[j - 1] /\ i - 1 # j - 1
        BY <2>5, <1>10, <1>2, <1>4
      <3> QED
        BY <3>1, <2>1
    <2>6. CASE i = k
      <3>1. j - 1 \in 1 .. Len(l) /\ m[j] = l[j - 1] /\ m[i] = t
        BY <2>6, <1>10, <1>2, <1>4
      <3> QED
        BY <3>1, <2>2
    <2>7. CASE j = k
      <3>1. i \in 1 .. Len(l) /\ m[i] = l[i] /\ m[j] = t
        BY <2>7, <1>10, <1>2, <1>4
      <3> QED
        BY <3>1, <2>2
    <2> QED
      BY <2>3, <2>4, <2>5, <2>6, <2>7, <1>2, <1>4
  <1>15. InOrder(m)
    <2> SUFFICES ASSUME NEW i \in 1 .. Len(l) + 1, NEW j \in 1 .. Len(l) + 1, i < j
                 PROVE  Priority[m[i]] >= Priority[m[j]]
      BY <1>11 DEF InOrder
    <2>1. \A x, y \in 1 .. Len(l) : x < y => Priority[l[x]] >= Priority[l[y]]
      BY <1>1, <1>2 DEF InOrder
    <2>2. CASE i < k /\ j < k
      <3>1. i \in 1 .. Len(l) /\ j \in 1 .. Len(l) /\ m[i] = l[i] /\ m[j] = l[j]
        BY <2>2, <1>10, <1>2, <1>4
      <3> QED
        BY <3>1, <2>1
    <2>3. CASE i < k /\ j > k
      <3>1. i \in 1 .. Len(l) /\ j - 1 \in 1 .. Len(l) /\ m[i] = l[i] /\ m[j] = l[j - 1] /\ i < j - 1
        BY <2>3, <1>10, <1>2, <1>4
      <3> QED
        BY <3>1, <2>1
    <2>4. CASE i > k /\ j > k
      <3>1. i - 1 \in 1 .. Len(l) /\ j - 1 \in 1 .. Len(l) /\ m[i] = l[i - 1] /\ m[j] = l[j - 1] /\ i - 1 < j - 1
        BY <2>4, <1>10, <1>2, <1>4
      <3> QED
        BY <3>1, <2>1
    <2>5. CASE i = k
      <3>1. j - 1 \in 1 .. Len(l) /\ j - 1 >= k /\ m[j] = l[j - 1] /\ m[i] = t
        BY <2>5, <1>10, <1>2, <1>4
      <3> QED
        BY <3>1, <1>6
    <2>6. CASE j = k
      <3>1. i \in 1 .. Len(l) /\ i < k /\ m[i] = l[i] /\ m[j] = t
        BY <2>6, <1>10, <1>2, <1>4
      <3> QED
        BY <3>1, <1>5
    <2> QED
      BY <2>2, <2>3, <2>4, <2>5, <2>6, <1>2, <1>4
  <1>16. Keeps(l, m)
    <2> SUFFICES ASSUME NEW u, NEW v, Before(l, u, v) PROVE Before(m, u, v)
      BY DEF Keeps
    <2>1. PICK i, j \in 1 .. Len(l) : i < j /\ l[i] = u /\ l[j] = v
      BY <1>2 DEF Before
    <2>2. PICK x \in 1 .. Len(l) + 1 : m[x] = u /\ x = (IF i < k THEN i ELSE i + 1)
      <3>1. CASE i < k
        <4>1. i \in 1 .. Len(l) + 1 /\ m[i] = u
          BY <3>1, <2>1, <1>12
        <4> QED
          BY <4>1, <3>1
      <3>2. CASE i >= k
        <4>1. i + 1 \in 1 .. Len(l) + 1 /\ m[i + 1] = u
          BY <3>2, <2>1, <1>12
        <4>2. ~ (i < k)
          BY <3>2, <1>2, <1>4
        <4> QED
          BY <4>1, <4>2
      <3> QED
        BY <3>1, <3>2, <1>2, <1>4
    <2>3. PICK y \in 1 .. Len(l) + 1 : m[y] = v /\ y = (IF j < k THEN j ELSE j + 1)
      <3>1. CASE j < k
        <4>1. j \in 1 .. Len(l) + 1 /\ m[j] = v
          BY <3>1, <2>1, <1>12
        <4> QED
          BY <4>1, <3>1
      <3>2. CASE j >= k
        <4>1. j + 1 \in 1 .. Len(l) + 1 /\ m[j + 1] = v
          BY <3>2, <2>1, <1>12
        <4>2. ~ (j < k)
          BY <3>2, <1>2, <1>4
        <4> QED
          BY <4>1, <4>2
      <3> QED
        BY <3>1, <3>2, <1>2, <1>4
    <2>4. x < y
      BY <2>1, <2>2, <2>3, <1>2, <1>4
    <2> QED
      BY <2>2, <2>3, <2>4, <1>11 DEF Before
  <1>17. m # << >>
    BY <1>10, <1>2, InList
  <1> QED
    BY <1>3, <1>10, <1>13, <1>14, <1>15, <1>16, <1>17 DEF IsEventList

-----------------------------------------------------------------------------
(***************************************************************************)
(* Calls.                                                                  *)
(***************************************************************************)
LEMMA BusyOrIdle ==
    ASSUME NEW c \in Busy \cup {Idle}
    PROVE  /\ c \in Busy <=> c.pc # "idle"
           /\ c.pc = "idle" => c = Idle
           /\ c \in Busy => /\ c.pc \in Pcs /\ c.op \in {"send", "receive", "peek", "reset"}
                            /\ c.then \in {"try", "fail", "failIfEmpty"}
                            /\ c.pos \in {"back", "front", "overwrite", "none"}
                            /\ c.item \in Item \cup {"nothing"}
                            /\ c.expired \in BOOLEAN
  <1>1. "idle" \notin Pcs
    BY DEF Pcs, Inside
  <1>2. ASSUME c \in Busy
        PROVE  /\ c.pc \in Pcs /\ c.op \in {"send", "receive", "peek", "reset"}
               /\ c.then \in {"try", "fail", "failIfEmpty"}
               /\ c.pos \in {"back", "front", "overwrite", "none"}
               /\ c.item \in Item \cup {"nothing"}
               /\ c.expired \in BOOLEAN
    BY <1>2 DEF Busy
  <1>3. Idle.pc = "idle"
    BY DEF Idle
  <1> QED
    BY <1>1, <1>2, <1>3

\* The call of t becomes c, no other call changes.
Becomes(t, c) ==
    /\ call' \in [Task -> Busy \cup {Idle}]
    /\ call'[t] = c
    /\ \A u \in Task \ {t} : call'[u] = call[u]

LEMMA CallBecomes ==
    ASSUME call \in [Task -> Busy \cup {Idle}], NEW t \in Task,
           NEW c \in Busy \cup {Idle}, call' = [call EXCEPT ![t] = c]
    PROVE  Becomes(t, c)
  BY DEF Becomes

\* Where a call goes on, its other parts stay.
Goes(b, pc, then, c) ==
    /\ c \in Busy /\ c.pc = pc /\ c.then = then /\ c.op = b.op /\ c.pos = b.pos
    /\ c.item = b.item

LEMMA EntersAs ==
    ASSUME NEW b \in Busy, NEW pc \in Pcs
    PROVE  Goes(b, pc, b.then, [b EXCEPT !.pc = pc, !.entered = TRUE])
  BY DEF Busy, Goes

LEMMA TurnsTo ==
    ASSUME NEW b \in Busy, NEW pc \in Pcs, NEW then \in {"try", "fail", "failIfEmpty"}
    PROVE  Goes(b, pc, then, [b EXCEPT !.pc = pc, !.then = then])
  BY DEF Busy, Goes

LEMMA ReturnBecomes ==
    ASSUME call \in [Task -> Busy \cup {Idle}], NEW t \in Task, Return(t)
    PROVE  Becomes(t, Idle)
  BY CallBecomes DEF Return

LEMMA GotoBecomes ==
    ASSUME call \in [Task -> Busy \cup {Idle}], NEW t \in Task, call[t] \in Busy,
           NEW pc \in Pcs, Goto(t, pc)
    PROVE  /\ Becomes(t, [call[t] EXCEPT !.pc = pc])
           /\ [call[t] EXCEPT !.pc = pc] \in Busy
  <1>1. [call[t] EXCEPT !.pc = pc] \in Busy
    BY DEF Busy
  <1>2. call' = [call EXCEPT ![t] = [call[t] EXCEPT !.pc = pc]]
    BY DEF Goto
  <1> QED
    BY <1>1, <1>2, CallBecomes

(***************************************************************************)
(* A step of the control state alone.                                      *)
(***************************************************************************)
LEMMA ControlKept ==
    ASSUME QInv, NEW t \in Task, NEW c \in Busy \cup {Idle}, Becomes(t, c),
           \/ suspended' = suspended /\ (c.pc \in Inside <=> call[t].pc \in Inside)
           \/ suspended' = t /\ suspended = Nobody /\ c.pc \in Inside
           \/ suspended' = Nobody /\ suspended = t /\ c.pc \notin Inside,
           c \in Busy =>
             /\ c.op = "send" => c.item \in Item /\ c.pos # "none"
             /\ c.pos = "overwrite" => c.op = "send" /\ uxLength = 1
             /\ c.pc # "try" => c.op # "reset"
             /\ c.pc \in {"test", "place"} => c.then = "try"
             /\ c.pc = "failIfEmpty" \/ c.then = "failIfEmpty" => c.op # "send"
    PROVE  Control' /\ call' \in [Task -> Busy \cup {Idle}]
  <1>1. call' \in [Task -> Busy \cup {Idle}]
    BY DEF Becomes
  <1>2. Nobody \notin Task
    BY QueueAssumption DEF Nobody
  <1>3. ASSUME NEW u \in Task, u # t
        PROVE  (call'[u] \in Busy => InCall(u)') /\ (suspended' = u <=> call'[u].pc \in Inside)
    <2>1. call'[u] = call[u]
      BY <1>3 DEF Becomes
    <2>2. (call[u] \in Busy => InCall(u)) /\ (suspended = u <=> call[u].pc \in Inside)
      BY DEF QInv, Control
    <2>3. suspended' = u <=> suspended = u
      BY <1>2, <1>3
    <2> QED
      BY <2>1, <2>2, <2>3 DEF InCall, IsSend
  <1>4. (call'[t] \in Busy => InCall(t)') /\ (suspended' = t <=> call'[t].pc \in Inside)
    <2>1. call'[t] = c
      BY DEF Becomes
    <2>2. suspended = t <=> call[t].pc \in Inside
      BY DEF QInv, Control
    <2>3. suspended' = t <=> c.pc \in Inside
      BY <1>2, <2>2
    <2> QED
      BY <2>1, <2>3 DEF InCall, IsSend
  <1> QED
    BY <1>1, <1>3, <1>4 DEF Control

LEMMA WaitersKept ==
    ASSUME QInv, NEW t \in Task, NEW c \in Busy \cup {Idle}, Becomes(t, c),
           blocked' \subseteq blocked \cup {t},
           t \in blocked' => /\ c.pc \in {"try", "unlockTx", "unlockRx", "resume"}
                             /\ c.then = "try" /\ c.op # "reset"
    PROVE  Waiters'
  <1> SUFFICES ASSUME NEW u \in blocked'
               PROVE  /\ call'[u].pc \in {"try", "unlockTx", "unlockRx", "resume"}
                      /\ call'[u].then = "try" /\ call'[u].op # "reset"
    BY DEF Waiters
  <1>1. CASE u = t
    BY <1>1 DEF Becomes
  <1>2. CASE u # t
    <2>1. u \in blocked /\ u \in Task
      BY <1>2 DEF QInv, QueueType
    <2>2. call'[u] = call[u]
      BY <1>2, <2>1 DEF Becomes
    <2> QED
      BY <2>1, <2>2 DEF QInv, Waiters
  <1> QED
    BY <1>1, <1>2

\* A task that is not blocked is on no list.
LEMMA NotBlocked ==
    ASSUME QInv, NEW t \in Task, t \notin blocked
    PROVE  t \notin Listed /\ t \notin xPendingReadyList
  BY DEF QInv, Blocks

LEMMA RunnerNotBlocked ==
    ASSUME QInv, NEW t \in Task, NEW pc, Runs(t, pc), pc \notin {"unlockTx", "unlockRx", "resume"}
    PROVE  t \notin blocked /\ t \notin Listed /\ t \notin xPendingReadyList
  <1>1. call[t].pc = pc /\ (IF suspended = Nobody THEN t \notin blocked ELSE t = suspended)
    BY DEF Runs
  <1>2. CASE suspended = Nobody
    BY <1>1, <1>2, NotBlocked
  <1>3. CASE suspended # Nobody
    <2>1. t = suspended
      BY <1>1, <1>3
    <2>2. pc \in Inside
      BY <2>1, <1>1 DEF QInv, Control
    <2>3. pc # "try"
      BY <2>2 DEF Inside
    <2>4. t \notin blocked
      BY <2>3, <1>1 DEF QInv, Waiters
    <2> QED
      BY <2>4, NotBlocked
  <1> QED
    BY <1>2, <1>3

\* Outside of the part with the scheduler suspended it is not suspended.
LEMMA RunnerOutside ==
    ASSUME QInv, NEW t \in Task, NEW pc, Runs(t, pc), pc \notin Inside
    PROVE  suspended = Nobody /\ xPendingReadyList = {} /\ blocked = Listed
           /\ cRxLock = queueUNLOCKED /\ cTxLock = queueUNLOCKED
  <1>1. suspended = Nobody
    BY DEF Runs, QInv, Control
  <1> QED
    BY <1>1 DEF QInv, Blocks, Locking

LEMMA RunnerInside ==
    ASSUME QInv, NEW t \in Task, NEW pc, Runs(t, pc), pc \in Inside
    PROVE  suspended = t /\ t # Nobody /\ call[t] \in Busy /\ InCall(t)
  <1>1. suspended = t
    BY DEF Runs, QInv, Control
  <1>2. call[t].pc # "idle"
    BY DEF Runs, Inside
  <1>3. call[t] \in Busy
    BY <1>2, BusyOrIdle DEF QInv, QueueType
  <1>4. t # Nobody
    BY QueueAssumption DEF Nobody
  <1> QED
    BY <1>1, <1>3, <1>4 DEF QInv, Control

LEMMA ListsApart ==
    ASSUME QInv
    PROVE  /\ Range(xTasksWaitingToSend) \cap Range(xTasksWaitingToReceive) = {}
           /\ Range(xTasksWaitingToSend) \subseteq Task
           /\ Range(xTasksWaitingToReceive) \subseteq Task
  <1>1. Range(xTasksWaitingToSend) \cap Range(xTasksWaitingToReceive) = {}
    BY DEF QInv, Blocks
  <1>2. xTasksWaitingToSend \in Seq(Task) /\ xTasksWaitingToReceive \in Seq(Task)
    BY DEF QInv, QueueType, IsEventList
  <1> QED
    BY <1>1, <1>2, InList

(***************************************************************************)
(* Wakeups.                                                                *)
(***************************************************************************)
LEMMA WakeKeeps ==
    ASSUME QInv, NEW w, w \subseteq Listed, Wake(w), suspended' = suspended,
           Listed' = Listed \ w
    PROVE  /\ blocked' = Listed' \cup xPendingReadyList'
           /\ Listed' \cap xPendingReadyList' = {}
           /\ xPendingReadyList' # {} => suspended' # Nobody
           /\ blocked' \subseteq blocked /\ blocked' \subseteq Task
           /\ xPendingReadyList' \subseteq Task
  <1>1. /\ blocked = Listed \cup xPendingReadyList
        /\ Listed \cap xPendingReadyList = {}
        /\ xPendingReadyList # {} => suspended # Nobody
        /\ blocked \subseteq Task /\ xPendingReadyList \subseteq Task
    BY DEF QInv, Blocks, QueueType
  <1>2. CASE suspended = Nobody
    <2>1. blocked' = blocked \ w /\ xPendingReadyList' = xPendingReadyList
      BY <1>2 DEF Wake
    <2> QED
      BY <1>1, <1>2, <2>1
  <1>3. CASE suspended # Nobody
    <2>1. blocked' = blocked /\ xPendingReadyList' = xPendingReadyList \cup w
      BY <1>3 DEF Wake
    <2> QED
      BY <1>1, <1>3, <2>1
  <1> QED
    BY <1>2, <1>3

LEMMA WakeReceivers ==
    ASSUME QInv, NEW w, w \subseteq Range(xTasksWaitingToReceive), Wake(w),
           Range(xTasksWaitingToReceive)' = Range(xTasksWaitingToReceive) \ w,
           xTasksWaitingToSend' = xTasksWaitingToSend, suspended' = suspended
    PROVE  /\ Listed' = Listed \ w /\ w \subseteq Listed
           /\ blocked' = Listed' \cup xPendingReadyList'
           /\ Listed' \cap xPendingReadyList' = {}
           /\ xPendingReadyList' # {} => suspended' # Nobody
           /\ blocked' \subseteq blocked /\ blocked' \subseteq Task
           /\ xPendingReadyList' \subseteq Task
  <1>1. Range(xTasksWaitingToSend)' = Range(xTasksWaitingToSend)
    BY DEF Range
  <1>2. Listed' = Listed \ w /\ w \subseteq Listed
    BY <1>1, ListsApart DEF Listed
  <1> QED
    BY <1>2, WakeKeeps

LEMMA WakeSenders ==
    ASSUME QInv, NEW w, w \subseteq Range(xTasksWaitingToSend), Wake(w),
           Range(xTasksWaitingToSend)' = Range(xTasksWaitingToSend) \ w,
           xTasksWaitingToReceive' = xTasksWaitingToReceive, suspended' = suspended
    PROVE  /\ Listed' = Listed \ w /\ w \subseteq Listed
           /\ blocked' = Listed' \cup xPendingReadyList'
           /\ Listed' \cap xPendingReadyList' = {}
           /\ xPendingReadyList' # {} => suspended' # Nobody
           /\ blocked' \subseteq blocked /\ blocked' \subseteq Task
           /\ xPendingReadyList' \subseteq Task
  <1>1. Range(xTasksWaitingToReceive)' = Range(xTasksWaitingToReceive)
    BY DEF Range
  <1>2. Listed' = Listed \ w /\ w \subseteq Listed
    BY <1>1, ListsApart DEF Listed
  <1> QED
    BY <1>2, WakeKeeps

\* Tasks stay on the lists for the calls they make.
LEMMA KindKept ==
    ASSUME QInv, NEW t \in Task, NEW c, Becomes(t, c),
           c.op = call[t].op \/ t \notin Listed,
           Range(xTasksWaitingToSend)' \subseteq Range(xTasksWaitingToSend),
           Range(xTasksWaitingToReceive)' \subseteq Range(xTasksWaitingToReceive)
    PROVE  /\ (\A u \in Range(xTasksWaitingToSend) : IsSend(u))'
           /\ (\A u \in Range(xTasksWaitingToReceive) : ~IsSend(u))'
  <1>1. ASSUME NEW u \in Listed PROVE call'[u].op = call[u].op
    <2>1. CASE u = t
      BY <2>1, <1>1 DEF Becomes
    <2>2. CASE u # t
      BY <2>2, <1>1, ListsApart DEF Becomes, Listed
    <2> QED
      BY <2>1, <2>2
  <1>2. ASSUME NEW u \in Range(xTasksWaitingToSend)' PROVE call'[u].op = "send"
    BY <1>1, <1>2 DEF QInv, Blocks, Listed, IsSend
  <1>3. ASSUME NEW u \in Range(xTasksWaitingToReceive)' PROVE call'[u].op # "send"
    BY <1>1, <1>3 DEF QInv, Blocks, Listed, IsSend
  <1> QED
    BY <1>2, <1>3 DEF IsSend

(***************************************************************************)
(* Copying an item in and out.                                             *)
(***************************************************************************)
LEMMA CopyInType ==
    ASSUME DataType, NEW x \in Item, NEW pos, Roomy(pos), CopyDataToQueue(x, pos), got' = got
    PROVE  DataType'
  <1>1. uxLength \in Nat \ {0}
    BY QueueAssumption
  <1>2. Next1(pcWriteTo) \in 0 .. uxLength - 1 /\ Prev1(pcReadFrom) \in 0 .. uxLength - 1
    BY <1>1 DEF Next1, Prev1, DataType
  <1>3. storage' \in [0 .. uxLength - 1 -> Item \cup {"nothing"}]
    BY DEF CopyDataToQueue, DataType
  <1>4. pcWriteTo' \in 0 .. uxLength - 1 /\ pcReadFrom' \in 0 .. uxLength - 1
    BY <1>2 DEF CopyDataToQueue, DataType
  <1>5. uxMessagesWaiting' \in 0 .. uxLength
    <2>1. CASE pos = "overwrite"
      BY <2>1, <1>1 DEF CopyDataToQueue, DataType
    <2>2. CASE pos # "overwrite"
      <3>1. uxMessagesWaiting < uxLength
        BY <2>2 DEF Roomy
      <3>2. uxMessagesWaiting' = uxMessagesWaiting + 1
        BY <2>2 DEF CopyDataToQueue
      <3> QED
        BY <3>1, <3>2, <1>1 DEF DataType
    <2> QED
      BY <2>1, <2>2
  <1> QED
    BY <1>3, <1>4, <1>5 DEF DataType

LEMMA CopyOutType ==
    ASSUME DataType, NEW c \in Caller, CopyDataFromQueue(c)
    PROVE  Next1(pcReadFrom) \in 0 .. uxLength - 1 /\ got' \in [Caller -> Item \cup {"nothing"}]
  <1>1. Next1(pcReadFrom) \in 0 .. uxLength - 1
    BY QueueAssumption DEF Next1, DataType
  <1>2. storage[Next1(pcReadFrom)] \in Item \cup {"nothing"}
    BY <1>1 DEF DataType
  <1> QED
    BY <1>1, <1>2 DEF CopyDataFromQueue, DataType

LEMMA TakeType ==
    ASSUME DataType, NEW c \in Caller, Take(c), uxMessagesWaiting > 0
    PROVE  DataType'
  <1>1. Next1(pcReadFrom) \in 0 .. uxLength - 1 /\ got' \in [Caller -> Item \cup {"nothing"}]
    BY CopyOutType DEF Take
  <1>2. uxMessagesWaiting' \in 0 .. uxLength
    BY QueueAssumption DEF Take, DataType
  <1> QED
    BY <1>1, <1>2 DEF Take, DataType

(***************************************************************************)
(* A call that is served, having been in its first critical section.       *)
(***************************************************************************)
LEMMA AtTry ==
    ASSUME QInv, NEW t \in Task, Runs(t, "try")
    PROVE  /\ suspended = Nobody /\ xPendingReadyList = {} /\ blocked = Listed
           /\ cRxLock = queueUNLOCKED /\ cTxLock = queueUNLOCKED
           /\ t \notin blocked /\ t \notin Listed
           /\ call[t] \in Busy /\ InCall(t)
           /\ Idle \in Busy \cup {Idle} /\ Idle.pc = "idle" /\ Idle \notin Busy /\ Idle.pc \notin Inside
           /\ call[t].pc \notin Inside
  <1>1. "try" \notin Inside /\ "try" \notin {"unlockTx", "unlockRx", "resume"} /\ "try" # "idle" /\ "idle" \notin Inside
    BY DEF Inside
  <1>2. call[t].pc = "try"
    BY DEF Runs
  <1>3. call[t] \in Busy
    BY <1>1, <1>2, BusyOrIdle DEF QInv, QueueType
  <1>4. InCall(t)
    BY <1>3 DEF QInv, Control
  <1>5. Idle.pc = "idle"
    BY DEF Idle
  <1>6. Idle \notin Busy
    BY <1>5, BusyOrIdle
  <1> QED
    BY <1>1, <1>2, <1>3, <1>4, <1>5, <1>6, RunnerOutside, RunnerNotBlocked

LEMMA ReturnKeeps ==
    ASSUME QInv, NEW t \in Task, Runs(t, "try"), Return(t), suspended' = suspended,
           blocked' \subseteq blocked
    PROVE  Control' /\ Waiters' /\ call' \in [Task -> Busy \cup {Idle}] /\ Becomes(t, Idle)
  <1>1. Becomes(t, Idle)
    BY ReturnBecomes DEF QInv, QueueType
  <1>2. Control' /\ call' \in [Task -> Busy \cup {Idle}]
    BY <1>1, AtTry, ControlKept
  <1>3. Waiters'
    BY <1>1, AtTry, WaitersKept
  <1> QED
    BY <1>1, <1>2, <1>3

LEMMA UnlockedKept ==
    ASSUME QInv, suspended = Nobody, suspended' = Nobody, cTxLock' = cTxLock, cRxLock' = cRxLock
    PROVE  Locking'
  BY DEF QInv, Locking

\* One waiting receiver, or sender, is woken by a task that returns.
LEMMA ServedWakesReceiver ==
    ASSUME QInv, NEW t \in Task, Runs(t, "try"), Return(t), DataType',
           Wake(Woken(xTasksWaitingToReceive)),
           xTasksWaitingToReceive' = Rest(xTasksWaitingToReceive),
           UNCHANGED <<locks, xTasksWaitingToSend, suspended>>
    PROVE  QInv'
  <1> DEFINE w == Woken(xTasksWaitingToReceive)
  <1>1. IsEventList(xTasksWaitingToReceive) /\ IsEventList(xTasksWaitingToSend)
    BY DEF QInv, QueueType
  <1>2. /\ IsEventList(xTasksWaitingToReceive') /\ w \subseteq Range(xTasksWaitingToReceive)
        /\ Range(xTasksWaitingToReceive)' = Range(xTasksWaitingToReceive) \ w
    BY <1>1, HeadLeaves DEF Range
  <1> HIDE DEF w
  <1>3. /\ blocked' = Listed' \cup xPendingReadyList'
        /\ Listed' \cap xPendingReadyList' = {}
        /\ xPendingReadyList' # {} => suspended' # Nobody
        /\ blocked' \subseteq blocked /\ blocked' \subseteq Task
        /\ xPendingReadyList' \subseteq Task
    BY <1>2, WakeReceivers DEF w
  <1>4. Control' /\ Waiters' /\ call' \in [Task -> Busy \cup {Idle}] /\ Becomes(t, Idle)
    BY <1>3, ReturnKeeps
  <1>5. Locking'
    BY AtTry, UnlockedKept DEF locks
  <1>6. /\ (\A u \in Range(xTasksWaitingToSend) : IsSend(u))'
        /\ (\A u \in Range(xTasksWaitingToReceive) : ~IsSend(u))'
    <2>1. Range(xTasksWaitingToSend)' \subseteq Range(xTasksWaitingToSend)
      BY DEF Range
    <2> QED
      BY <1>2, <1>4, <2>1, AtTry, KindKept
  <1>7. Blocks'
    BY <1>3, <1>6 DEF Blocks
  <1>8. QueueType'
    BY <1>1, <1>2, <1>3, <1>4 DEF QInv, QueueType, locks
  <1> QED
    BY <1>4, <1>5, <1>7, <1>8 DEF QInv

LEMMA ServedWakesSender ==
    ASSUME QInv, NEW t \in Task, Runs(t, "try"), Return(t), DataType',
           Wake(Woken(xTasksWaitingToSend)),
           xTasksWaitingToSend' = Rest(xTasksWaitingToSend),
           cTxLock' = cTxLock, cRxLock' = cRxLock,
           UNCHANGED <<xTasksWaitingToReceive, suspended>>
    PROVE  QInv'
  <1> DEFINE w == Woken(xTasksWaitingToSend)
  <1>1. IsEventList(xTasksWaitingToReceive) /\ IsEventList(xTasksWaitingToSend)
    BY DEF QInv, QueueType
  <1>2. /\ IsEventList(xTasksWaitingToSend') /\ w \subseteq Range(xTasksWaitingToSend)
        /\ Range(xTasksWaitingToSend)' = Range(xTasksWaitingToSend) \ w
    BY <1>1, HeadLeaves DEF Range
  <1> HIDE DEF w
  <1>3. /\ blocked' = Listed' \cup xPendingReadyList'
        /\ Listed' \cap xPendingReadyList' = {}
        /\ xPendingReadyList' # {} => suspended' # Nobody
        /\ blocked' \subseteq blocked /\ blocked' \subseteq Task
        /\ xPendingReadyList' \subseteq Task
    BY <1>2, WakeSenders DEF w
  <1>4. Control' /\ Waiters' /\ call' \in [Task -> Busy \cup {Idle}] /\ Becomes(t, Idle)
    BY <1>3, ReturnKeeps
  <1>5. Locking'
    BY AtTry, UnlockedKept
  <1>6. /\ (\A u \in Range(xTasksWaitingToSend) : IsSend(u))'
        /\ (\A u \in Range(xTasksWaitingToReceive) : ~IsSend(u))'
    <2>1. Range(xTasksWaitingToReceive)' \subseteq Range(xTasksWaitingToReceive)
      BY DEF Range
    <2> QED
      BY <1>2, <1>4, <2>1, AtTry, KindKept
  <1>7. Blocks'
    BY <1>3, <1>6 DEF Blocks
  <1>8. QueueType'
    BY <1>1, <1>2, <1>3, <1>4 DEF QInv, QueueType
  <1> QED
    BY <1>4, <1>5, <1>7, <1>8 DEF QInv

LEMMA SendKeeps == ASSUME QInv, NEW t \in Task, Send(t) PROVE QInv'
  <1>1. DataType'
    <2>1. call[t].item \in Item
      BY AtTry DEF Send, IsSend, InCall
    <2>2. DataType
      BY DEF QInv, QueueType
    <2> QED
      BY <2>1, <2>2, CopyInType DEF Send
  <1> QED
    BY <1>1, ServedWakesReceiver DEF Send

LEMMA ReceiveKeeps == ASSUME QInv, NEW t \in Task, Receive(t) PROVE QInv'
  <1>1. DataType'
    BY TakeType DEF Receive, QInv, QueueType, Caller
  <1> QED
    BY <1>1, ServedWakesSender DEF Receive, locks

LEMMA PeekKeeps == ASSUME QInv, NEW t \in Task, Peek(t) PROVE QInv'
  <1>1. DataType'
    <2>1. got' \in [Caller -> Item \cup {"nothing"}]
      BY CopyOutType DEF Peek, QInv, QueueType, Caller
    <2> QED
      BY <2>1 DEF Peek, QInv, QueueType, DataType, data
  <1> QED
    BY <1>1, ServedWakesReceiver DEF Peek

LEMMA ResetKeeps == ASSUME QInv, NEW t \in Task, Reset(t) PROVE QInv'
  <1>1. DataType'
    BY QueueAssumption DEF Reset, QInv, QueueType, DataType
  <1>2. cTxLock' = cTxLock /\ cRxLock' = cRxLock
    BY AtTry DEF Reset
  <1> QED
    BY <1>1, <1>2, ServedWakesSender DEF Reset

(***************************************************************************)
(* Steps that move a call and leave the queue and its waiters alone.       *)
(***************************************************************************)
LEMMA CallMoves ==
    ASSUME QInv, NEW t \in Task, NEW c \in Busy \cup {Idle}, Becomes(t, c), Control',
           UNCHANGED <<data, got, waiting, xPendingReadyList, blocked>>,
           suspended' \in Task \cup {Nobody}, suspended' = Nobody => suspended = Nobody,
           cRxLock' \in queueUNLOCKED .. LockMax, cTxLock' \in queueUNLOCKED .. LockMax,
           Locking',
           t \in blocked => /\ c.pc \in {"try", "unlockTx", "unlockRx", "resume"}
                            /\ c.then = "try" /\ c.op # "reset" /\ c.op = call[t].op
    PROVE  QInv'
  <1>1. Waiters'
    BY WaitersKept
  <1>2. Listed' = Listed
    BY DEF Listed, Range, waiting
  <1>3. /\ (\A u \in Range(xTasksWaitingToSend) : IsSend(u))'
        /\ (\A u \in Range(xTasksWaitingToReceive) : ~IsSend(u))'
    <2>1. c.op = call[t].op \/ t \notin Listed
      BY NotBlocked
    <2>2. /\ Range(xTasksWaitingToSend)' \subseteq Range(xTasksWaitingToSend)
          /\ Range(xTasksWaitingToReceive)' \subseteq Range(xTasksWaitingToReceive)
      BY DEF Range, waiting
    <2> QED
      BY <2>1, <2>2, KindKept
  <1>4. Blocks'
    <2>1. /\ blocked' = Listed' \cup xPendingReadyList'
          /\ Listed' \cap xPendingReadyList' = {}
          /\ xPendingReadyList' # {} => suspended' # Nobody
      BY <1>2 DEF QInv, Blocks
    <2> QED
      BY <1>3, <2>1 DEF Blocks
  <1>5. QueueType'
    BY DEF QInv, QueueType, DataType, data, waiting, Becomes
  <1> QED
    BY <1>1, <1>4, <1>5 DEF QInv

\* The same, when neither the scheduler nor the locks change, either.
LEMMA CallMovesOn ==
    ASSUME QInv, NEW t \in Task, NEW c \in Busy \cup {Idle}, Becomes(t, c),
           UNCHANGED <<data, got, waiting, sched, locks>>,
           c.pc \in Inside <=> call[t].pc \in Inside,
           c.pc \in Inside => /\ c.pc \in {"lock", "unlockRx", "resume"} <=> call[t].pc \in {"lock", "unlockRx", "resume"}
                              /\ c.pc \in {"lock", "resume"} <=> call[t].pc \in {"lock", "resume"},
           c \in Busy =>
             /\ c.op = "send" => c.item \in Item /\ c.pos # "none"
             /\ c.pos = "overwrite" => c.op = "send" /\ uxLength = 1
             /\ c.pc # "try" => c.op # "reset"
             /\ c.pc \in {"test", "place"} => c.then = "try"
             /\ c.pc = "failIfEmpty" \/ c.then = "failIfEmpty" => c.op # "send",
           t \in blocked => /\ c.pc \in {"try", "unlockTx", "unlockRx", "resume"}
                            /\ c.then = "try" /\ c.op # "reset" /\ c.op = call[t].op
    PROVE  QInv'
  <1>1. Control'
    BY ControlKept DEF sched
  <1>2. Locking'
    <2>1. suspended' = suspended /\ cRxLock' = cRxLock /\ cTxLock' = cTxLock
      BY DEF sched, locks
    <2>2. CASE suspended = Nobody
      BY <2>1, <2>2 DEF QInv, Locking
    <2>3. CASE suspended # Nobody
      <3>1. suspended \in Task
        BY <2>3 DEF QInv, QueueType
      <3>2. CASE suspended = t
        <4>1. call'[t] = c
          BY DEF Becomes
        <4>2. c.pc \in Inside
          BY <3>2 DEF QInv, Control
        <4> QED
          BY <4>1, <4>2, <3>2, <2>1, <2>3 DEF QInv, Locking
      <3>3. CASE suspended # t
        <4>1. call'[suspended] = call[suspended]
          BY <3>1, <3>3 DEF Becomes
        <4> QED
          BY <4>1, <2>1, <2>3 DEF QInv, Locking
      <3> QED
        BY <3>2, <3>3
    <2> QED
      BY <2>2, <2>3
  <1>3. /\ suspended' \in Task \cup {Nobody} /\ (suspended' = Nobody => suspended = Nobody)
        /\ cRxLock' \in queueUNLOCKED .. LockMax /\ cTxLock' \in queueUNLOCKED .. LockMax
        /\ UNCHANGED <<data, got, waiting, xPendingReadyList, blocked>>
    BY DEF QInv, QueueType, sched, locks
  <1> QED
    BY <1>1, <1>2, <1>3, CallMoves

LEMMA EnterKeeps == ASSUME QInv, NEW t \in Task, NEW c \in Calls[t], Enter(t, c) PROVE QInv'
  <1> DEFINE r == [op |-> c.op, pos |-> c.pos, item |-> c.item, ticks |-> c.ticks,
                   pc |-> "try", expired |-> FALSE, entered |-> FALSE, then |-> "try"]
  <1>1. /\ c \in [op : {"send", "receive", "peek", "reset"}, pos : {"back", "front", "overwrite", "none"},
                  item : Item \cup {"nothing"}, ticks : {"none", "finite", "forever"}]
        /\ c.op = "send" => c.item \in Item /\ c.pos # "none"
        /\ c.pos = "overwrite" => c.op = "send" /\ uxLength = 1
    BY CallAssumption
  <1>2. r \in Busy /\ r.pc = "try" /\ r.op = c.op /\ r.pos = c.pos /\ r.item = c.item /\ r.then = "try"
    BY <1>1 DEF Busy, Pcs
  <1>3. call' = [call EXCEPT ![t] = r]
    BY DEF Enter
  <1> HIDE DEF r
  <1>4. Becomes(t, r)
    BY <1>2, <1>3, CallBecomes DEF QInv, QueueType
  <1>5. "idle" \notin Inside /\ "try" \notin Inside
    BY DEF Inside
  <1>6. call[t].pc = "idle"
    BY DEF Enter, Runs
  <1>7. Control'
    BY <1>1, <1>2, <1>4, <1>5, <1>6, ControlKept DEF Enter, sched
  <1>8. t \notin blocked /\ suspended = Nobody
    BY <1>5, RunnerNotBlocked, RunnerOutside DEF Enter
  <1>9. Waiters'
    BY <1>2, <1>4, <1>8, WaitersKept DEF Enter, sched
  <1>10. Listed' = Listed
    BY DEF Listed, Range, waiting, Enter
  <1>11. /\ (\A u \in Range(xTasksWaitingToSend) : IsSend(u))'
         /\ (\A u \in Range(xTasksWaitingToReceive) : ~IsSend(u))'
    <2>1. /\ Range(xTasksWaitingToSend)' \subseteq Range(xTasksWaitingToSend)
          /\ Range(xTasksWaitingToReceive)' \subseteq Range(xTasksWaitingToReceive)
      BY DEF Range, waiting, Enter
    <2> QED
      BY <2>1, <1>4, <1>8, NotBlocked, KindKept
  <1>12. Blocks'
    <2>1. /\ blocked' = Listed' \cup xPendingReadyList'
          /\ Listed' \cap xPendingReadyList' = {}
          /\ xPendingReadyList' # {} => suspended' # Nobody
      BY <1>10 DEF QInv, Blocks, Enter, sched
    <2> QED
      BY <1>11, <2>1 DEF Blocks
  <1>13. Locking'
    BY <1>8, UnlockedKept DEF Enter, sched, locks
  <1>14. QueueType'
    <2>1. got' \in [Caller -> Item \cup {"nothing"}]
      BY DEF QInv, QueueType, DataType, Enter
    <2> QED
      BY <2>1, <1>4 DEF QInv, QueueType, DataType, data, waiting, sched, locks, Becomes, Enter
  <1> QED
    BY <1>7, <1>9, <1>12, <1>13, <1>14 DEF QInv

LEMMA UnservedKeeps == ASSUME QInv, NEW t \in Task, Unserved(t) PROVE QInv'
  <1>1. Runs(t, "try") /\ call[t].op # "reset" /\ UNCHANGED <<data, locks, waiting, sched, got>>
    BY DEF Unserved
  <1>2. CASE Return(t)
    <2>1. Becomes(t, Idle)
      BY <1>2, ReturnBecomes DEF QInv, QueueType
    <2> QED
      BY <1>1, <2>1, AtTry, CallMovesOn
  <1>3. CASE call' = [call EXCEPT ![t].pc = "suspend", ![t].entered = TRUE]
    <2> DEFINE c == [call[t] EXCEPT !.pc = "suspend", !.entered = TRUE]
    <2>1. /\ c \in Busy /\ c.pc = "suspend" /\ c.op = call[t].op /\ c.pos = call[t].pos
          /\ c.item = call[t].item /\ c.then = call[t].then
      <3>1. call[t] \in Busy /\ "suspend" \in Pcs
        BY <1>1, AtTry DEF Pcs
      <3>2. Goes(call[t], "suspend", call[t].then, c)
        BY <3>1, EntersAs
      <3> QED
        BY <3>2 DEF Goes
    <2>2. call' = [call EXCEPT ![t] = c]
      BY <1>3
    <2> HIDE DEF c
    <2>3. Becomes(t, c)
      BY <2>1, <2>2, CallBecomes DEF QInv, QueueType
    <2>4. "suspend" \notin Inside
      BY DEF Inside
    <2> QED
      BY <1>1, <2>1, <2>3, <2>4, AtTry, CallMovesOn DEF InCall, IsSend
  <1> QED
    BY <1>2, <1>3 DEF Unserved

\* A step of the middle part moves the call of the task that takes it.
LEMMA GotoIs ==
    ASSUME QInv, NEW t \in Task, NEW from, Runs(t, from), from # "idle",
           NEW pc \in Pcs, Goto(t, pc)
    PROVE  \E c \in Busy : /\ Becomes(t, c) /\ c.pc = pc
                           /\ c.op = call[t].op /\ c.pos = call[t].pos /\ c.item = call[t].item
                           /\ c.then = call[t].then
                           /\ call[t].pc = from /\ call[t] \in Busy /\ InCall(t)
  <1> DEFINE c == [call[t] EXCEPT !.pc = pc]
  <1>1. call[t].pc = from
    BY DEF Runs
  <1>2. call[t] \in Busy
    BY <1>1, BusyOrIdle DEF QInv, QueueType
  <1>3. InCall(t)
    BY <1>2 DEF QInv, Control
  <1>4. Becomes(t, c) /\ c \in Busy
    BY <1>2, GotoBecomes DEF QInv, QueueType
  <1>5. c.pc = pc /\ c.op = call[t].op /\ c.pos = call[t].pos /\ c.item = call[t].item /\ c.then = call[t].then
    BY <1>2 DEF Busy
  <1> QED
    BY <1>1, <1>2, <1>3, <1>4, <1>5

LEMMA SuspendAllKeeps == ASSUME QInv, NEW t \in Task, SuspendAll(t) PROVE QInv'
  <1>1. "lock" \in Pcs /\ "lock" \in Inside /\ "suspend" \notin Inside /\ "suspend" # "idle"
    BY DEF Pcs, Inside
  <1>2. PICK c \in Busy : /\ Becomes(t, c) /\ c.pc = "lock"
                          /\ c.op = call[t].op /\ c.pos = call[t].pos /\ c.item = call[t].item
                          /\ c.then = call[t].then
                          /\ call[t].pc = "suspend" /\ InCall(t)
    BY <1>1, GotoIs DEF SuspendAll
  <1>3. suspended = Nobody /\ cRxLock = queueUNLOCKED /\ cTxLock = queueUNLOCKED /\ t \notin blocked
    BY <1>1, RunnerOutside, RunnerNotBlocked DEF SuspendAll
  <1>4. suspended' = t /\ cRxLock' = cRxLock /\ cTxLock' = cTxLock
    BY DEF SuspendAll, locks
  <1>5. t # Nobody
    BY QueueAssumption DEF Nobody
  <1>6. Control'
    BY <1>1, <1>2, <1>3, <1>4, ControlKept DEF InCall, IsSend
  <1>7. Locking'
    BY <1>2, <1>3, <1>4, <1>5 DEF Locking, Becomes
  <1>8. cRxLock' \in queueUNLOCKED .. LockMax /\ cTxLock' \in queueUNLOCKED .. LockMax
    BY <1>4 DEF QInv, QueueType
  <1>9. UNCHANGED <<data, got, waiting, xPendingReadyList, blocked>>
    BY DEF SuspendAll
  <1> QED
    BY <1>2, <1>3, <1>4, <1>5, <1>6, <1>7, <1>8, <1>9, CallMoves

LEMMA LockQueueKeeps == ASSUME QInv, NEW t \in Task, LockQueue(t) PROVE QInv'
  <1>1. "lock" \in Inside /\ "timeout" \in Pcs /\ "timeout" \in Inside /\ "lock" # "idle"
    BY DEF Pcs, Inside
  <1>2. PICK c \in Busy : /\ Becomes(t, c) /\ c.pc = "timeout"
                          /\ c.op = call[t].op /\ c.pos = call[t].pos /\ c.item = call[t].item
                          /\ c.then = call[t].then
                          /\ call[t].pc = "lock" /\ InCall(t)
    BY <1>1, GotoIs DEF LockQueue
  <1>3. suspended = t /\ t # Nobody
    BY <1>1, RunnerInside DEF LockQueue
  <1>4. cRxLock = queueUNLOCKED /\ cTxLock = queueUNLOCKED
    BY <1>2, <1>3 DEF QInv, Locking
  <1>5. cRxLock' = 0 /\ cTxLock' = 0
    BY <1>4 DEF LockQueue, queueLOCKED_UNMODIFIED
  <1>6. suspended' = suspended /\ UNCHANGED <<data, got, waiting, xPendingReadyList, blocked>>
    BY DEF LockQueue, sched
  <1>7. Control'
    BY <1>1, <1>2, <1>6, ControlKept DEF InCall, IsSend
  <1>8. Locking'
    BY <1>2, <1>3, <1>5, <1>6 DEF Locking, Becomes, queueUNLOCKED
  <1>9. cRxLock' \in queueUNLOCKED .. LockMax /\ cTxLock' \in queueUNLOCKED .. LockMax
    BY <1>5, QueueAssumption DEF queueUNLOCKED
  <1>10. t \notin blocked
    BY <1>2 DEF QInv, Waiters
  <1> QED
    BY <1>2, <1>3, <1>6, <1>7, <1>8, <1>9, <1>10, CallMoves

LEMMA CheckForTimeOutKeeps == ASSUME QInv, NEW t \in Task, CheckForTimeOut(t) PROVE QInv'
  <1> DEFINE pc == IF call[t].expired THEN "unlockTx" ELSE "test"
             then == IF ~call[t].expired THEN "try" ELSE IF IsSend(t) THEN "fail" ELSE "failIfEmpty"
             c == [call[t] EXCEPT !.pc = pc, !.then = then]
  <1>1. "timeout" \in Inside /\ "timeout" # "idle"
    BY DEF Inside
  <1>2. call[t] \in Busy /\ InCall(t) /\ call[t].pc = "timeout"
    BY <1>1, RunnerInside DEF CheckForTimeOut, Runs
  <1>3. pc \in {"unlockTx", "test"} /\ then \in {"try", "fail", "failIfEmpty"}
        /\ (pc = "test" => then = "try") /\ (then = "failIfEmpty" => ~IsSend(t))
    OBVIOUS
  <1>4. pc \in Pcs
    BY <1>3 DEF Pcs, Inside
  <1>5. call' = [call EXCEPT ![t] = c]
    BY DEF CheckForTimeOut
  <1> HIDE DEF pc, then
  <1>6. /\ c \in Busy /\ c.pc = pc /\ c.then = then /\ c.op = call[t].op /\ c.pos = call[t].pos
        /\ c.item = call[t].item
    <2>1. call[t] \in Busy /\ pc \in Pcs /\ then \in {"try", "fail", "failIfEmpty"}
      BY <1>2, <1>3, <1>4, Zenon
    <2>2. Goes(call[t], pc, then, c)
      BY <2>1, TurnsTo
    <2> QED
      BY <2>2 DEF Goes
  <1> HIDE DEF c
  <1>7. Becomes(t, c)
    BY <1>5, <1>6, CallBecomes DEF QInv, QueueType
  <1>8. t \notin blocked
    BY <1>2 DEF QInv, Waiters
  <1>9. c.pc \in Inside
    BY <1>3, <1>6 DEF Inside
  <1>10. c.pc \notin {"lock", "unlockRx", "resume"} /\ call[t].pc \notin {"lock", "unlockRx", "resume"}
         /\ call[t].pc \in Inside
    BY <1>1, <1>2, <1>3, <1>6
  <1>11. UNCHANGED <<data, got, waiting, sched, locks>>
    BY DEF CheckForTimeOut
  <1>12. /\ c.op = "send" => c.item \in Item /\ c.pos # "none"
         /\ c.pos = "overwrite" => c.op = "send" /\ uxLength = 1
         /\ c.op # "reset"
         /\ c.pc \in {"test", "place"} => c.then = "try"
         /\ c.pc = "failIfEmpty" \/ c.then = "failIfEmpty" => c.op # "send"
    BY <1>2, <1>3, <1>6 DEF InCall, IsSend
  <1> QED
    BY <1>6, <1>7, <1>8, <1>9, <1>10, <1>11, <1>12, CallMovesOn

LEMMA TestKeeps == ASSUME QInv, NEW t \in Task, Test(t) PROVE QInv'
  <1> DEFINE pc == IF uxMessagesWaiting = (IF IsSend(t) THEN uxLength ELSE 0) THEN "place" ELSE "unlockTx"
  <1>1. "test" \in Inside /\ "test" # "idle" /\ pc \in Inside /\ pc \in Pcs /\ pc \in {"place", "unlockTx"}
    BY DEF Inside, Pcs
  <1>2. Goto(t, pc) /\ Runs(t, "test") /\ UNCHANGED <<data, got, waiting, sched, locks>>
    BY DEF Test
  <1> HIDE DEF pc
  <1>3. PICK c \in Busy : /\ Becomes(t, c) /\ c.pc = pc
                          /\ c.op = call[t].op /\ c.pos = call[t].pos /\ c.item = call[t].item
                          /\ c.then = call[t].then
                          /\ call[t].pc = "test" /\ InCall(t)
    BY <1>1, <1>2, GotoIs
  <1>4. t \notin blocked
    BY <1>3 DEF QInv, Waiters
  <1>5. c.pc \notin {"lock", "unlockRx", "resume"} /\ call[t].pc \notin {"lock", "unlockRx", "resume"}
        /\ c.pc \in Inside /\ call[t].pc \in Inside
    BY <1>1, <1>3
  <1>6. /\ c.op = "send" => c.item \in Item /\ c.pos # "none"
        /\ c.pos = "overwrite" => c.op = "send" /\ uxLength = 1
        /\ c.op # "reset" /\ c.then = "try"
    BY <1>3 DEF InCall, IsSend
  <1>7. c.pc # "failIfEmpty" /\ c.then # "failIfEmpty"
    BY <1>1, <1>3, <1>6
  <1> QED
    BY <1>2, <1>3, <1>4, <1>5, <1>6, <1>7, CallMovesOn

LEMMA FailIfEmptyKeeps == ASSUME QInv, NEW t \in Task, FailIfEmpty(t) PROVE QInv'
  <1>1. "failIfEmpty" \notin Inside /\ "failIfEmpty" # "idle" /\ "try" \in Pcs /\ "try" \notin Inside
        /\ "idle" \notin Inside
    BY DEF Inside, Pcs
  <1>2. Runs(t, "failIfEmpty") /\ UNCHANGED <<data, got, waiting, sched, locks>>
    BY DEF FailIfEmpty
  <1>3. t \notin blocked
    BY <1>2, RunnerNotBlocked
  <1>4. call[t].pc = "failIfEmpty"
    BY <1>2 DEF Runs
  <1>5. CASE Return(t)
    <2>1. Becomes(t, Idle)
      BY <1>5, ReturnBecomes DEF QInv, QueueType
    <2>2. Idle \in Busy \cup {Idle} /\ Idle.pc = "idle" /\ Idle \notin Busy
      BY BusyOrIdle DEF Idle
    <2> QED
      BY <1>1, <1>2, <1>3, <1>4, <2>1, <2>2, CallMovesOn
  <1>6. CASE Goto(t, "try")
    <2>1. PICK c \in Busy : /\ Becomes(t, c) /\ c.pc = "try"
                            /\ c.op = call[t].op /\ c.pos = call[t].pos /\ c.item = call[t].item
                            /\ c.then = call[t].then /\ InCall(t)
      BY <1>1, <1>2, <1>6, GotoIs
    <2> QED
      BY <1>1, <1>2, <1>3, <1>4, <2>1, CallMovesOn DEF InCall, IsSend
  <1> QED
    BY <1>5, <1>6 DEF FailIfEmpty

(***************************************************************************)
(* Steps that change the lists with the scheduler suspended.               *)
(***************************************************************************)
LEMMA PlaceKeeps == ASSUME QInv, NEW t \in Task, Place(t) PROVE QInv'
  <1>1. "place" \in Inside /\ "place" # "idle" /\ "unlockTx" \in Pcs /\ "unlockTx" \in Inside
    BY DEF Inside, Pcs
  <1>2. Goto(t, "unlockTx") /\ Runs(t, "place") /\ UNCHANGED <<data, locks, suspended, xPendingReadyList, got>>
    BY DEF Place
  <1>3. PICK c \in Busy : /\ Becomes(t, c) /\ c.pc = "unlockTx"
                          /\ c.op = call[t].op /\ c.pos = call[t].pos /\ c.item = call[t].item
                          /\ c.then = call[t].then
                          /\ call[t].pc = "place" /\ InCall(t)
    BY <1>1, <1>2, GotoIs
  <1>4. suspended = t /\ t # Nobody
    BY <1>1, <1>2, RunnerInside
  <1>5. t \notin blocked /\ t \notin Listed /\ t \notin xPendingReadyList
    BY <1>2, RunnerNotBlocked
  <1>6. IsEventList(xTasksWaitingToSend) /\ IsEventList(xTasksWaitingToReceive)
    BY DEF QInv, QueueType
  <1>7. /\ IsEventList(xTasksWaitingToSend') /\ IsEventList(xTasksWaitingToReceive')
        /\ Range(xTasksWaitingToSend)' = IF IsSend(t) THEN Range(xTasksWaitingToSend) \cup {t}
                                          ELSE Range(xTasksWaitingToSend)
        /\ Range(xTasksWaitingToReceive)' = IF IsSend(t) THEN Range(xTasksWaitingToReceive)
                                             ELSE Range(xTasksWaitingToReceive) \cup {t}
    <2>1. t \notin Range(xTasksWaitingToSend) /\ t \notin Range(xTasksWaitingToReceive)
      BY <1>5 DEF Listed
    <2>2. CASE IsSend(t)
      <3>1. xTasksWaitingToSend' = PutInOrder(xTasksWaitingToSend, t)
            /\ xTasksWaitingToReceive' = xTasksWaitingToReceive
        BY <2>2 DEF Place
      <3>2. /\ IsEventList(PutInOrder(xTasksWaitingToSend, t))
            /\ Range(PutInOrder(xTasksWaitingToSend, t)) = Range(xTasksWaitingToSend) \cup {t}
        BY <2>1, <1>6, OneIsPut
      <3>3. /\ Range(xTasksWaitingToSend)' = Range(PutInOrder(xTasksWaitingToSend, t))
            /\ Range(xTasksWaitingToReceive)' = Range(xTasksWaitingToReceive)
        BY <3>1 DEF Range
      <3> QED
        BY <3>1, <3>2, <3>3, <2>2, <1>6
    <2>3. CASE ~IsSend(t)
      <3>1. xTasksWaitingToReceive' = PutInOrder(xTasksWaitingToReceive, t)
            /\ xTasksWaitingToSend' = xTasksWaitingToSend
        BY <2>3 DEF Place
      <3>2. /\ IsEventList(PutInOrder(xTasksWaitingToReceive, t))
            /\ Range(PutInOrder(xTasksWaitingToReceive, t)) = Range(xTasksWaitingToReceive) \cup {t}
        BY <2>1, <1>6, OneIsPut
      <3>3. /\ Range(xTasksWaitingToReceive)' = Range(PutInOrder(xTasksWaitingToReceive, t))
            /\ Range(xTasksWaitingToSend)' = Range(xTasksWaitingToSend)
        BY <3>1 DEF Range
      <3> QED
        BY <3>1, <3>2, <3>3, <2>3, <1>6
    <2> QED
      BY <2>2, <2>3
  <1>8. Listed' = Listed \cup {t} /\ blocked' = blocked \cup {t}
    BY <1>7 DEF Listed, Place
  <1>9. /\ (\A u \in Range(xTasksWaitingToSend) : IsSend(u))'
        /\ (\A u \in Range(xTasksWaitingToReceive) : ~IsSend(u))'
    <2>1. call'[t].op = call[t].op
      BY <1>3 DEF Becomes
    <2>2. ASSUME NEW u \in Listed PROVE call'[u].op = call[u].op
      BY <2>2, <1>3, <1>5, ListsApart DEF Becomes, Listed
    <2>3. \A u \in Range(xTasksWaitingToSend) : call'[u].op = "send"
      BY <2>2 DEF QInv, Blocks, Listed, IsSend
    <2>4. \A u \in Range(xTasksWaitingToReceive) : call'[u].op # "send"
      BY <2>2 DEF QInv, Blocks, Listed, IsSend
    <2>5. \A u \in Range(xTasksWaitingToSend)' : call'[u].op = "send"
      BY <2>1, <2>3, <1>7 DEF IsSend
    <2>6. \A u \in Range(xTasksWaitingToReceive)' : call'[u].op # "send"
      BY <2>1, <2>4, <1>7 DEF IsSend
    <2> QED
      BY <2>5, <2>6 DEF IsSend
  <1>10. Blocks'
    <2>1. /\ blocked' = Listed' \cup xPendingReadyList'
          /\ Listed' \cap xPendingReadyList' = {}
          /\ xPendingReadyList' # {} => suspended' # Nobody
      BY <1>2, <1>5, <1>8 DEF QInv, Blocks
    <2> QED
      BY <1>9, <2>1 DEF Blocks
  <1>11. Control'
    BY <1>1, <1>2, <1>3, ControlKept DEF InCall, IsSend
  <1>12. Waiters'
    BY <1>3, <1>8, WaitersKept DEF InCall
  <1>13. Locking'
    BY <1>2, <1>3, <1>4 DEF QInv, Locking, locks, Becomes
  <1>14. QueueType'
    BY <1>2, <1>3, <1>7, <1>8 DEF QInv, QueueType, DataType, data, locks, Becomes
  <1> QED
    BY <1>10, <1>11, <1>12, <1>13, <1>14 DEF QInv

LEMMA OwedIs ==
    ASSUME NEW lock \in queueUNLOCKED .. LockMax, lock # queueUNLOCKED, NEW l \in Seq(Task)
    PROVE  /\ Owed(lock, l) \in 0 .. Len(l) /\ Owed(lock, l) <= lock
           /\ Owed(lock, l) < Len(l) => Owed(lock, l) = lock
  BY InList, QueueAssumption DEF Owed, queueUNLOCKED

LEMMA UnlockTxKeeps == ASSUME QInv, NEW t \in Task, UnlockTx(t) PROVE QInv'
  <1> DEFINE n == Owed(cTxLock, xTasksWaitingToReceive)
             w == Range(SubSeq(xTasksWaitingToReceive, 1, n))
  <1>1. "unlockTx" \in Inside /\ "unlockTx" # "idle" /\ "unlockRx" \in Pcs /\ "unlockRx" \in Inside
    BY DEF Inside, Pcs
  <1>2. /\ Goto(t, "unlockRx") /\ Runs(t, "unlockTx") /\ Wake(w)
        /\ xTasksWaitingToReceive' = SubSeq(xTasksWaitingToReceive, n + 1, Len(xTasksWaitingToReceive))
        /\ cTxLock' = queueUNLOCKED
        /\ UNCHANGED <<data, cRxLock, xTasksWaitingToSend, suspended, got>>
    BY DEF UnlockTx
  <1>3. PICK c \in Busy : /\ Becomes(t, c) /\ c.pc = "unlockRx"
                          /\ c.op = call[t].op /\ c.pos = call[t].pos /\ c.item = call[t].item
                          /\ c.then = call[t].then
                          /\ call[t].pc = "unlockTx" /\ InCall(t)
    BY <1>1, <1>2, GotoIs
  <1>4. suspended = t /\ t # Nobody
    BY <1>1, <1>2, RunnerInside
  <1>5. IsEventList(xTasksWaitingToSend) /\ IsEventList(xTasksWaitingToReceive)
        /\ xTasksWaitingToReceive \in Seq(Task) /\ cTxLock \in queueUNLOCKED .. LockMax
        /\ cRxLock \in queueUNLOCKED .. LockMax
    BY DEF QInv, QueueType, IsEventList
  <1>6. cTxLock # queueUNLOCKED /\ cRxLock # queueUNLOCKED
    BY <1>3, <1>4 DEF QInv, Locking
  <1>7. n \in 0 .. Len(xTasksWaitingToReceive)
    BY <1>5, <1>6, OwedIs
  <1> HIDE DEF n
  <1>8. /\ IsEventList(xTasksWaitingToReceive') /\ w \subseteq Range(xTasksWaitingToReceive)
        /\ Range(xTasksWaitingToReceive)' = Range(xTasksWaitingToReceive) \ w
    <2>1. Range(xTasksWaitingToReceive)' = Range(xTasksWaitingToReceive')
      BY DEF Range
    <2> QED
      BY <2>1, <1>2, <1>5, <1>7, FirstLeave
  <1> HIDE DEF w
  <1>9. /\ blocked' = Listed' \cup xPendingReadyList'
        /\ Listed' \cap xPendingReadyList' = {}
        /\ xPendingReadyList' # {} => suspended' # Nobody
        /\ blocked' \subseteq blocked /\ blocked' \subseteq Task
        /\ xPendingReadyList' \subseteq Task
    BY <1>2, <1>8, WakeReceivers
  <1>10. Control'
    BY <1>1, <1>2, <1>3, ControlKept DEF InCall, IsSend
  <1>11. Waiters'
    BY <1>3, <1>9, WaitersKept DEF InCall, QInv, Waiters
  <1>12. Blocks'
    <2>1. Range(xTasksWaitingToSend)' \subseteq Range(xTasksWaitingToSend)
      BY <1>2 DEF Range
    <2>2. /\ (\A u \in Range(xTasksWaitingToSend) : IsSend(u))'
          /\ (\A u \in Range(xTasksWaitingToReceive) : ~IsSend(u))'
      BY <1>3, <1>8, <2>1, KindKept
    <2> QED
      BY <2>2, <1>9 DEF Blocks
  <1>13. Locking'
    <2>1. suspended' = t /\ call'[t].pc = "unlockRx" /\ cRxLock' # queueUNLOCKED
      BY <1>2, <1>3, <1>4, <1>6 DEF Becomes
    <2> QED
      BY <2>1, <1>2, <1>4 DEF Locking
  <1>14. QueueType'
    <2>1. cTxLock' \in queueUNLOCKED .. LockMax
      BY <1>2, QueueAssumption DEF queueUNLOCKED
    <2> QED
      BY <2>1, <1>2, <1>3, <1>8, <1>9 DEF QInv, QueueType, DataType, data, Becomes
  <1> QED
    BY <1>10, <1>11, <1>12, <1>13, <1>14 DEF QInv

LEMMA UnlockRxKeeps == ASSUME QInv, NEW t \in Task, UnlockRx(t) PROVE QInv'
  <1> DEFINE n == Owed(cRxLock, xTasksWaitingToSend)
             w == Range(SubSeq(xTasksWaitingToSend, 1, n))
  <1>1. "unlockRx" \in Inside /\ "unlockRx" # "idle" /\ "resume" \in Pcs /\ "resume" \in Inside
    BY DEF Inside, Pcs
  <1>2. /\ Goto(t, "resume") /\ Runs(t, "unlockRx") /\ Wake(w)
        /\ xTasksWaitingToSend' = SubSeq(xTasksWaitingToSend, n + 1, Len(xTasksWaitingToSend))
        /\ cRxLock' = queueUNLOCKED
        /\ UNCHANGED <<data, cTxLock, xTasksWaitingToReceive, suspended, got>>
    BY DEF UnlockRx
  <1>3. PICK c \in Busy : /\ Becomes(t, c) /\ c.pc = "resume"
                          /\ c.op = call[t].op /\ c.pos = call[t].pos /\ c.item = call[t].item
                          /\ c.then = call[t].then
                          /\ call[t].pc = "unlockRx" /\ InCall(t)
    BY <1>1, <1>2, GotoIs
  <1>4. suspended = t /\ t # Nobody
    BY <1>1, <1>2, RunnerInside
  <1>5. IsEventList(xTasksWaitingToSend) /\ IsEventList(xTasksWaitingToReceive)
        /\ xTasksWaitingToSend \in Seq(Task) /\ cRxLock \in queueUNLOCKED .. LockMax
    BY DEF QInv, QueueType, IsEventList
  <1>6. cTxLock = queueUNLOCKED /\ cRxLock # queueUNLOCKED
    BY <1>3, <1>4 DEF QInv, Locking
  <1>7. n \in 0 .. Len(xTasksWaitingToSend)
    BY <1>5, <1>6, OwedIs
  <1> HIDE DEF n
  <1>8. /\ IsEventList(xTasksWaitingToSend') /\ w \subseteq Range(xTasksWaitingToSend)
        /\ Range(xTasksWaitingToSend)' = Range(xTasksWaitingToSend) \ w
    <2>1. Range(xTasksWaitingToSend)' = Range(xTasksWaitingToSend')
      BY DEF Range
    <2> QED
      BY <2>1, <1>2, <1>5, <1>7, FirstLeave
  <1> HIDE DEF w
  <1>9. /\ blocked' = Listed' \cup xPendingReadyList'
        /\ Listed' \cap xPendingReadyList' = {}
        /\ xPendingReadyList' # {} => suspended' # Nobody
        /\ blocked' \subseteq blocked /\ blocked' \subseteq Task
        /\ xPendingReadyList' \subseteq Task
    BY <1>2, <1>8, WakeSenders
  <1>10. Control'
    BY <1>1, <1>2, <1>3, ControlKept DEF InCall, IsSend
  <1>11. Waiters'
    BY <1>3, <1>9, WaitersKept DEF InCall, QInv, Waiters
  <1>12. Blocks'
    <2>1. Range(xTasksWaitingToReceive)' \subseteq Range(xTasksWaitingToReceive)
      BY <1>2 DEF Range
    <2>2. /\ (\A u \in Range(xTasksWaitingToSend) : IsSend(u))'
          /\ (\A u \in Range(xTasksWaitingToReceive) : ~IsSend(u))'
      BY <1>3, <1>8, <2>1, KindKept
    <2> QED
      BY <2>2, <1>9 DEF Blocks
  <1>13. Locking'
    <2>1. suspended' = t /\ call'[t].pc = "resume" /\ cTxLock' = queueUNLOCKED
      BY <1>2, <1>3, <1>4, <1>6 DEF Becomes
    <2> QED
      BY <2>1, <1>2, <1>4 DEF Locking
  <1>14. QueueType'
    <2>1. cRxLock' \in queueUNLOCKED .. LockMax
      BY <1>2, QueueAssumption DEF queueUNLOCKED
    <2> QED
      BY <2>1, <1>2, <1>3, <1>8, <1>9 DEF QInv, QueueType, DataType, data, Becomes
  <1> QED
    BY <1>10, <1>11, <1>12, <1>13, <1>14 DEF QInv

\* Where a call goes on after xTaskResumeAll.
LEMMA AfterResumeIs ==
    ASSUME QInv, NEW t \in Task, Runs(t, "resume"), AfterResume(t)
    PROVE  /\ call[t].pc = "resume" /\ InCall(t) /\ call[t] \in Busy
           /\ \E c \in Busy \cup {Idle} :
                /\ Becomes(t, c)
                /\ \/ c = Idle /\ call[t].then = "fail"
                   \/ /\ c \in Busy /\ c.pc = call[t].then /\ call[t].then \in {"try", "failIfEmpty"}
                      /\ c.op = call[t].op /\ c.pos = call[t].pos /\ c.item = call[t].item
                      /\ c.then = call[t].then
  <1>1. "resume" \in Inside /\ "resume" # "idle" /\ "try" \in Pcs /\ "failIfEmpty" \in Pcs
    BY DEF Inside, Pcs
  <1>2. call[t].pc = "resume" /\ InCall(t) /\ call[t] \in Busy
    BY <1>1, RunnerInside DEF Runs
  <1>3. CASE call[t].then = "fail"
    <2>1. Becomes(t, Idle)
      BY <1>3, ReturnBecomes DEF AfterResume, QInv, QueueType
    <2> QED
      BY <1>2, <1>3, <2>1
  <1>4. CASE call[t].then # "fail"
    <2>1. call[t].then \in {"try", "failIfEmpty"}
      BY <1>2, <1>4, BusyOrIdle
    <2>2. Goto(t, call[t].then)
      BY <1>4 DEF AfterResume
    <2>3. call[t].then \in Pcs
      BY <1>1, <2>1
    <2>4. PICK c \in Busy : /\ Becomes(t, c) /\ c.pc = call[t].then
                            /\ c.op = call[t].op /\ c.pos = call[t].pos /\ c.item = call[t].item
                            /\ c.then = call[t].then
      BY <1>1, <2>2, <2>3, GotoIs
    <2> QED
      BY <1>2, <2>1, <2>4
  <1> QED
    BY <1>3, <1>4

LEMMA ResumeAllKeeps == ASSUME QInv, NEW t \in Task, ResumeAll(t) PROVE QInv'
  <1>1. "resume" \in Inside /\ "resume" # "idle" /\ "try" \notin Inside /\ "failIfEmpty" \notin Inside
        /\ "idle" \notin Inside
    BY DEF Inside
  <1>2. /\ Runs(t, "resume") /\ AfterResume(t) /\ suspended' = Nobody
        /\ blocked' = blocked \ xPendingReadyList /\ xPendingReadyList' = {}
        /\ UNCHANGED <<data, locks, waiting, got>>
    BY DEF ResumeAll
  <1>3. /\ call[t].pc = "resume" /\ InCall(t) /\ call[t] \in Busy
    BY <1>2, AfterResumeIs
  <1>4. PICK c \in Busy \cup {Idle} :
                /\ Becomes(t, c)
                /\ \/ c = Idle /\ call[t].then = "fail"
                   \/ /\ c \in Busy /\ c.pc = call[t].then /\ call[t].then \in {"try", "failIfEmpty"}
                      /\ c.op = call[t].op /\ c.pos = call[t].pos /\ c.item = call[t].item
                      /\ c.then = call[t].then
    BY <1>2, AfterResumeIs
  <1>5. suspended = t /\ t # Nobody
    BY <1>1, <1>2, RunnerInside
  <1>6. c \in Busy => c.op # "reset" /\ c.pc \in {"try", "failIfEmpty"}
    BY <1>3, <1>4, BusyOrIdle DEF InCall, Idle
  <1>7. c.pc \notin Inside
    BY <1>1, <1>4 DEF Idle
  <1>8. Control'
    <2>1. c \in Busy =>
             /\ c.op = "send" => c.item \in Item /\ c.pos # "none"
             /\ c.pos = "overwrite" => c.op = "send" /\ uxLength = 1
             /\ c.pc \notin {"test", "place"}
             /\ c.pc = "failIfEmpty" \/ c.then = "failIfEmpty" => c.op # "send"
      BY <1>3, <1>4, <1>6, BusyOrIdle DEF InCall, IsSend, Idle
    <2> QED
      BY <2>1, <1>2, <1>4, <1>5, <1>6, <1>7, ControlKept
  <1>9. t \in blocked => c \in Busy /\ c.pc = "try" /\ c.then = "try" /\ c.op = call[t].op /\ c.op # "reset"
    BY <1>4, <1>6 DEF QInv, Waiters
  <1>10. Waiters'
    BY <1>2, <1>4, <1>9, WaitersKept
  <1>11. Locking'
    <2>1. cRxLock = queueUNLOCKED /\ cTxLock = queueUNLOCKED
      BY <1>3, <1>5 DEF QInv, Locking
    <2> QED
      BY <2>1, <1>2 DEF Locking, locks
  <1>12. Blocks'
    <2>1. Listed' = Listed
      BY <1>2 DEF Listed, Range, waiting
    <2>2. /\ blocked' = Listed' \cup xPendingReadyList'
          /\ Listed' \cap xPendingReadyList' = {}
      BY <1>2, <2>1 DEF QInv, Blocks
    <2>3. c.op = call[t].op \/ t \notin Listed
      BY <1>9, NotBlocked
    <2>4. /\ Range(xTasksWaitingToSend)' \subseteq Range(xTasksWaitingToSend)
          /\ Range(xTasksWaitingToReceive)' \subseteq Range(xTasksWaitingToReceive)
      BY <1>2 DEF Range, waiting
    <2>5. /\ (\A u \in Range(xTasksWaitingToSend) : IsSend(u))'
          /\ (\A u \in Range(xTasksWaitingToReceive) : ~IsSend(u))'
      BY <1>4, <2>3, <2>4, KindKept
    <2> QED
      BY <1>2, <2>2, <2>5 DEF Blocks
  <1>13. QueueType'
    BY <1>2, <1>4 DEF QInv, QueueType, DataType, data, locks, waiting, Becomes
  <1> QED
    BY <1>8, <1>10, <1>11, <1>12, <1>13 DEF QInv

(***************************************************************************)
(* Ticks and interrupts.                                                   *)
(***************************************************************************)
LEMMA TickKeeps == ASSUME QInv, NEW t \in Task, Tick(t) PROVE QInv'
  <1> DEFINE c == [call[t] EXCEPT !.expired = TRUE]
  <1>1. /\ suspended = Nobody /\ call[t].pc # "idle" /\ call' = [call EXCEPT ![t].expired = TRUE]
        /\ blocked' = blocked \ {t}
        /\ xTasksWaitingToSend' = Off(xTasksWaitingToSend, t)
        /\ xTasksWaitingToReceive' = Off(xTasksWaitingToReceive, t)
        /\ UNCHANGED <<data, locks, suspended, xPendingReadyList, got>>
    BY DEF Tick
  <1>2. call[t] \in Busy
    BY <1>1, BusyOrIdle DEF QInv, QueueType
  <1>3. InCall(t)
    BY <1>2 DEF QInv, Control
  <1>4. /\ c \in Busy /\ c.pc = call[t].pc /\ c.op = call[t].op /\ c.pos = call[t].pos
        /\ c.item = call[t].item /\ c.then = call[t].then
    BY <1>2 DEF Busy
  <1>5. call' = [call EXCEPT ![t] = c]
    BY <1>1
  <1> HIDE DEF c
  <1>6. Becomes(t, c)
    BY <1>4, <1>5, CallBecomes DEF QInv, QueueType
  <1>7. IsEventList(xTasksWaitingToSend) /\ IsEventList(xTasksWaitingToReceive)
    BY DEF QInv, QueueType
  <1>8. /\ IsEventList(xTasksWaitingToSend') /\ IsEventList(xTasksWaitingToReceive')
        /\ Range(xTasksWaitingToSend)' = Range(xTasksWaitingToSend) \ {t}
        /\ Range(xTasksWaitingToReceive)' = Range(xTasksWaitingToReceive) \ {t}
    <2>1. /\ IsEventList(Off(xTasksWaitingToSend, t))
          /\ Range(Off(xTasksWaitingToSend, t)) = Range(xTasksWaitingToSend) \ {t}
          /\ IsEventList(Off(xTasksWaitingToReceive, t))
          /\ Range(Off(xTasksWaitingToReceive, t)) = Range(xTasksWaitingToReceive) \ {t}
      BY <1>7, OneLeaves
    <2>2. /\ Range(xTasksWaitingToSend)' = Range(Off(xTasksWaitingToSend, t))
          /\ Range(xTasksWaitingToReceive)' = Range(Off(xTasksWaitingToReceive, t))
      BY <1>1 DEF Range
    <2> QED
      BY <1>1, <2>1, <2>2
  <1>9. Listed' = Listed \ {t}
    BY <1>8 DEF Listed
  <1>10. Control'
    BY <1>1, <1>3, <1>4, <1>6, ControlKept DEF InCall, IsSend
  <1>11. Waiters'
    BY <1>1, <1>4, <1>6, WaitersKept
  <1>12. Blocks'
    <2>1. xPendingReadyList = {} /\ blocked = Listed
      BY <1>1 DEF QInv, Blocks
    <2>2. /\ (\A u \in Range(xTasksWaitingToSend) : IsSend(u))'
          /\ (\A u \in Range(xTasksWaitingToReceive) : ~IsSend(u))'
      BY <1>4, <1>6, <1>8, KindKept
    <2> QED
      BY <1>1, <1>9, <2>1, <2>2 DEF Blocks
  <1>13. Locking'
    BY <1>1, UnlockedKept DEF locks
  <1>14. QueueType'
    BY <1>1, <1>6, <1>8 DEF QInv, QueueType, DataType, data, locks, Becomes
  <1> QED
    BY <1>10, <1>11, <1>12, <1>13, <1>14 DEF QInv

\* What an interrupt changes, besides the data, with the calls where they are.
LEMMA InterruptKeeps ==
    ASSUME QInv, DataType', UNCHANGED <<call, suspended>>,
           IsEventList(xTasksWaitingToSend'), IsEventList(xTasksWaitingToReceive'),
           Range(xTasksWaitingToSend)' \subseteq Range(xTasksWaitingToSend),
           Range(xTasksWaitingToReceive)' \subseteq Range(xTasksWaitingToReceive),
           blocked' = Listed' \cup xPendingReadyList',
           Listed' \cap xPendingReadyList' = {},
           xPendingReadyList' # {} => suspended' # Nobody,
           blocked' \subseteq blocked, xPendingReadyList' \subseteq Task,
           cRxLock' \in queueUNLOCKED .. LockMax, cTxLock' \in queueUNLOCKED .. LockMax,
           cRxLock' = queueUNLOCKED <=> cRxLock = queueUNLOCKED,
           cTxLock' = queueUNLOCKED <=> cTxLock = queueUNLOCKED
    PROVE  QInv'
  <1>1. Control'
    BY DEF QInv, Control, InCall, IsSend
  <1>2. Waiters'
    BY DEF QInv, Waiters
  <1>3. Locking'
    BY DEF QInv, Locking
  <1>4. Blocks'
    BY DEF QInv, Blocks, IsSend
  <1>5. QueueType'
    BY DEF QInv, QueueType
  <1> QED
    BY <1>1, <1>2, <1>3, <1>4, <1>5 DEF QInv

LEMMA SendFromISRKeeps == ASSUME QInv, NEW s \in IsrSends, SendFromISR(s) PROVE QInv'
  <1>1. DataType'
    <2>1. s.item \in Item
      BY CallAssumption
    <2> QED
      BY <2>1, CopyInType DEF SendFromISR, QInv, QueueType
  <1>2. /\ UNCHANGED <<cRxLock, xTasksWaitingToSend, suspended, call>>
        /\ IsEventList(xTasksWaitingToReceive) /\ IsEventList(xTasksWaitingToSend)
        /\ cRxLock \in queueUNLOCKED .. LockMax /\ cTxLock \in queueUNLOCKED .. LockMax
    BY DEF SendFromISR, QInv, QueueType
  <1>3. Range(xTasksWaitingToSend)' \subseteq Range(xTasksWaitingToSend)
    BY <1>2 DEF Range
  <1>4. CASE cTxLock = queueUNLOCKED
    <2> DEFINE w == Woken(xTasksWaitingToReceive)
    <2>1. /\ Wake(w) /\ xTasksWaitingToReceive' = Rest(xTasksWaitingToReceive)
          /\ cTxLock' = cTxLock
      BY <1>4 DEF SendFromISR
    <2>2. /\ IsEventList(xTasksWaitingToReceive') /\ w \subseteq Range(xTasksWaitingToReceive)
          /\ Range(xTasksWaitingToReceive)' = Range(xTasksWaitingToReceive) \ w
      BY <1>2, <2>1, HeadLeaves DEF Range
    <2> HIDE DEF w
    <2>3. /\ blocked' = Listed' \cup xPendingReadyList'
          /\ Listed' \cap xPendingReadyList' = {}
          /\ xPendingReadyList' # {} => suspended' # Nobody
          /\ blocked' \subseteq blocked /\ blocked' \subseteq Task
          /\ xPendingReadyList' \subseteq Task
      BY <1>2, <2>1, <2>2, WakeReceivers
    <2> QED
      BY <1>1, <1>2, <1>3, <2>1, <2>2, <2>3, InterruptKeeps
  <1>5. CASE cTxLock # queueUNLOCKED
    <2>1. /\ cTxLock < LockMax /\ cTxLock' = cTxLock + 1
          /\ UNCHANGED <<xTasksWaitingToReceive, xPendingReadyList, blocked>>
      BY <1>5 DEF SendFromISR
    <2>2. cTxLock' \in queueUNLOCKED .. LockMax /\ cTxLock' # queueUNLOCKED
      BY <1>2, <1>5, <2>1, QueueAssumption DEF queueUNLOCKED
    <2>3. Listed' = Listed /\ Range(xTasksWaitingToReceive)' = Range(xTasksWaitingToReceive)
      BY <1>2, <2>1 DEF Listed, Range
    <2>4. /\ blocked' = Listed' \cup xPendingReadyList'
          /\ Listed' \cap xPendingReadyList' = {}
          /\ xPendingReadyList' # {} => suspended' # Nobody
          /\ blocked' \subseteq blocked
          /\ xPendingReadyList' \subseteq Task
      BY <1>2, <2>1, <2>3 DEF QInv, Blocks, QueueType
    <2> QED
      BY <1>1, <1>2, <1>3, <1>5, <2>1, <2>2, <2>3, <2>4, InterruptKeeps
  <1> QED
    BY <1>4, <1>5

LEMMA ReceiveFromISRKeeps == ASSUME QInv, ReceiveFromISR PROVE QInv'
  <1>1. DataType'
    BY TakeType DEF ReceiveFromISR, QInv, QueueType, Caller
  <1>2. /\ UNCHANGED <<cTxLock, xTasksWaitingToReceive, suspended, call>>
        /\ IsEventList(xTasksWaitingToReceive) /\ IsEventList(xTasksWaitingToSend)
        /\ cRxLock \in queueUNLOCKED .. LockMax /\ cTxLock \in queueUNLOCKED .. LockMax
    BY DEF ReceiveFromISR, QInv, QueueType
  <1>3. Range(xTasksWaitingToReceive)' \subseteq Range(xTasksWaitingToReceive)
    BY <1>2 DEF Range
  <1>4. CASE cRxLock = queueUNLOCKED
    <2> DEFINE w == Woken(xTasksWaitingToSend)
    <2>1. /\ Wake(w) /\ xTasksWaitingToSend' = Rest(xTasksWaitingToSend)
          /\ cRxLock' = cRxLock
      BY <1>4 DEF ReceiveFromISR
    <2>2. /\ IsEventList(xTasksWaitingToSend') /\ w \subseteq Range(xTasksWaitingToSend)
          /\ Range(xTasksWaitingToSend)' = Range(xTasksWaitingToSend) \ w
      BY <1>2, <2>1, HeadLeaves DEF Range
    <2> HIDE DEF w
    <2>3. /\ blocked' = Listed' \cup xPendingReadyList'
          /\ Listed' \cap xPendingReadyList' = {}
          /\ xPendingReadyList' # {} => suspended' # Nobody
          /\ blocked' \subseteq blocked /\ blocked' \subseteq Task
          /\ xPendingReadyList' \subseteq Task
      BY <1>2, <2>1, <2>2, WakeSenders
    <2> QED
      BY <1>1, <1>2, <1>3, <2>1, <2>2, <2>3, InterruptKeeps
  <1>5. CASE cRxLock # queueUNLOCKED
    <2>1. /\ cRxLock < LockMax /\ cRxLock' = cRxLock + 1
          /\ UNCHANGED <<xTasksWaitingToSend, xPendingReadyList, blocked>>
      BY <1>5 DEF ReceiveFromISR
    <2>2. cRxLock' \in queueUNLOCKED .. LockMax /\ cRxLock' # queueUNLOCKED
      BY <1>2, <1>5, <2>1, QueueAssumption DEF queueUNLOCKED
    <2>3. Listed' = Listed /\ Range(xTasksWaitingToSend)' = Range(xTasksWaitingToSend)
      BY <1>2, <2>1 DEF Listed, Range
    <2>4. /\ blocked' = Listed' \cup xPendingReadyList'
          /\ Listed' \cap xPendingReadyList' = {}
          /\ xPendingReadyList' # {} => suspended' # Nobody
          /\ blocked' \subseteq blocked
          /\ xPendingReadyList' \subseteq Task
      BY <1>2, <2>1, <2>3 DEF QInv, Blocks, QueueType
    <2> QED
      BY <1>1, <1>2, <1>3, <1>5, <2>1, <2>2, <2>3, <2>4, InterruptKeeps
  <1> QED
    BY <1>4, <1>5

-----------------------------------------------------------------------------
(***************************************************************************)
(* Every step keeps it all.                                                *)
(***************************************************************************)
LEMMA InitQ == Init => QInv
  <1> SUFFICES ASSUME Init PROVE QInv
    OBVIOUS
  <1>1. IsEventList(<< >>) /\ Range(<< >>) = {}
    BY EmptySeq DEF IsEventList, IsInjective, InOrder, Range
  <1>2. "idle" \notin Inside
    BY DEF Inside
  <1>3. \A t \in Task : call[t] = Idle /\ call[t].pc = "idle" /\ call[t] \notin Busy
    <2>1. Idle.pc = "idle"
      BY DEF Idle
    <2>2. Idle \notin Busy
      BY <2>1, BusyOrIdle
    <2> QED
      BY <2>1, <2>2 DEF Init
  <1>4. Listed = {}
    BY <1>1 DEF Init, Listed
  <1>5. QueueType
    <2>1. DataType
      BY QueueAssumption DEF Init, DataType
    <2>2. queueUNLOCKED \in queueUNLOCKED .. LockMax
      BY QueueAssumption DEF queueUNLOCKED
    <2> QED
      BY <1>1, <2>1, <2>2 DEF Init, QueueType
  <1>6. Control
    <2>1. Nobody \notin Task
      BY QueueAssumption DEF Nobody
    <2> QED
      BY <1>2, <1>3, <2>1 DEF Init, Control
  <1>7. Locking /\ Waiters
    BY DEF Init, Locking, Waiters
  <1>8. Blocks
    BY <1>1, <1>4 DEF Init, Blocks
  <1> QED
    BY <1>5, <1>6, <1>7, <1>8 DEF QInv

LEMMA NextQ == QInv /\ [Next]_vars => QInv'
  <1> SUFFICES ASSUME QInv, [Next]_vars PROVE QInv'
    OBVIOUS
  <1>1. ASSUME NEW t \in Task, NEW c \in Calls[t], Enter(t, c) PROVE QInv'
    BY <1>1, EnterKeeps
  <1>2. ASSUME NEW t \in Task, Step(t) PROVE QInv'
    BY <1>2, SendKeeps, ReceiveKeeps, PeekKeeps, ResetKeeps, UnservedKeeps, SuspendAllKeeps,
       LockQueueKeeps, CheckForTimeOutKeeps, TestKeeps, PlaceKeeps, UnlockTxKeeps,
       UnlockRxKeeps, ResumeAllKeeps, FailIfEmptyKeeps DEF Step, Served
  <1>3. ASSUME NEW t \in Task, Tick(t) PROVE QInv'
    BY <1>3, TickKeeps
  <1>4. ASSUME NEW s \in IsrSends, SendFromISR(s) PROVE QInv'
    BY <1>4, SendFromISRKeeps
  <1>5. CASE ReceiveFromISR
    BY <1>5, ReceiveFromISRKeeps
  <1>6. CASE UNCHANGED vars
    BY <1>6 DEF vars, data, locks, waiting, sched, QInv, QueueType, DataType, Control, InCall, IsSend,
       Locking, Waiters, Blocks, Listed, Range, IsEventList, IsInjective, InOrder
  <1> QED
    BY <1>1, <1>2, <1>3, <1>4, <1>5, <1>6 DEF Next

(***************************************************************************)
(* Types, and: a task that waits can still be woken, from the event list   *)
(* of what it waits for or from the pending ready list of a suspended      *)
(* scheduler, and never from both (vTaskPlaceOnEventList,                  *)
(* xTaskRemoveFromEventList, xTaskResumeAll).                              *)
(***************************************************************************)
THEOREM WaitersAreFound == Spec => []NobodyForgotten
  <1>1. QInv => NobodyForgotten
    <2> SUFFICES ASSUME QInv PROVE NobodyForgotten
      OBVIOUS
    <2>1. TypeOK
      <3>1. xPendingReadyList \subseteq blocked
        BY DEF QInv, Blocks
      <3> QED
        BY <3>1, ListsApart DEF QInv, QueueType, DataType, IsEventList, TypeOK
    <2> QED
      BY <2>1 DEF QInv, Blocks, NobodyForgotten
  <1> QED
    BY <1>1, InitQ, NextQ, PTL DEF Spec

-----------------------------------------------------------------------------
(***************************************************************************)
(* Wakeups are kept.  A task is ready to look at the queue (for one of     *)
(* ops), or will be without anyone's help, unless it is on a list.         *)
(***************************************************************************)
Ready(t, ops) ==
    /\ call[t].op \in ops
    /\ \/ call[t].pc \in {"try", "failIfEmpty"}
       \/ call[t].pc \in {"unlockTx", "unlockRx", "resume"} /\ call[t].then # "fail"

LEMMA Exchange ==
    ASSUME NEW A, IsFiniteSet(A), NEW B, IsFiniteSet(B), NEW W, IsFiniteSet(W), NEW t,
           W \cap A = {}, (A \ {t}) \cup W \subseteq B
    PROVE  /\ Cardinality(A) \in Nat /\ Cardinality(B) \in Nat /\ Cardinality(W) \in Nat
           /\ t \notin A => Cardinality(A) + Cardinality(W) <= Cardinality(B)
           /\ Cardinality(A) + Cardinality(W) <= Cardinality(B) + 1
  <1> DEFINE R == A \ {t}
  <1>1. Cardinality(A) \in Nat /\ Cardinality(B) \in Nat /\ Cardinality(W) \in Nat
    BY FS_CardinalityType
  <1>2. /\ IsFiniteSet(R)
        /\ Cardinality(R) = IF t \in A THEN Cardinality(A) - 1 ELSE Cardinality(A)
    BY FS_RemoveElement
  <1>3. R \cap W = {} /\ R \cup W \subseteq B
    OBVIOUS
  <1> HIDE DEF R
  <1>4. IsFiniteSet(R \cup W) /\ Cardinality(R \cup W) = Cardinality(R) + Cardinality(W) - Cardinality(R \cap W)
    BY <1>2, FS_Union
  <1>5. Cardinality(R \cap W) = 0
    BY <1>3, FS_EmptySet
  <1>6. Cardinality(R \cup W) <= Cardinality(B)
    BY <1>3, FS_Subset
  <1>7. Cardinality(R) \in Nat
    BY <1>2, FS_CardinalityType
  <1>8. Cardinality(R) + Cardinality(W) <= Cardinality(B)
    BY <1>1, <1>4, <1>5, <1>6, <1>7
  <1> QED
    BY <1>1, <1>2, <1>8

LEMMA AboutIs ==
    ASSUME NEW ops
    PROVE  /\ \A u : u \in About(ops) <=> u \in Task /\ u \notin Listed /\ Ready(u, ops)
           /\ IsFiniteSet(About(ops))
  <1>1. About(ops) \in SUBSET Task
    BY DEF About
  <1>2. IsFiniteSet(About(ops))
    BY <1>1, FS_Subset, QueueAssumption
  <1> QED
    BY <1>2 DEF About, Ready

LEMMA AboutIsNext ==
    ASSUME NEW ops
    PROVE  /\ \A u : u \in About(ops)' <=> u \in Task /\ u \notin Listed' /\ Ready(u, ops)'
           /\ IsFiniteSet(About(ops)')
  <1>1. About(ops)' \in SUBSET Task
    BY DEF About
  <1>2. IsFiniteSet(About(ops)')
    BY <1>1, FS_Subset, QueueAssumption
  <1> QED
    BY <1>2 DEF About, Ready

LEMMA WaiterReady ==
    ASSUME QInv
    PROVE  /\ \A u \in Range(xTasksWaitingToReceive) : Ready(u, Receivers)
           /\ \A u \in Range(xTasksWaitingToSend) : Ready(u, Senders)
  <1>1. ASSUME NEW u \in Listed
        PROVE  /\ call[u].op \in {"send", "receive", "peek"}
               /\ \/ call[u].pc \in {"try", "failIfEmpty"}
                  \/ call[u].pc \in {"unlockTx", "unlockRx", "resume"} /\ call[u].then # "fail"
    <2>1. u \in blocked /\ u \in Task
      BY <1>1 DEF QInv, Blocks, QueueType
    <2>2. call[u].pc \in {"try", "unlockTx", "unlockRx", "resume"} /\ call[u].then = "try" /\ call[u].op # "reset"
      BY <2>1 DEF QInv, Waiters
    <2>3. call[u] \in Busy \cup {Idle} /\ call[u].pc # "idle"
      BY <2>1, <2>2 DEF QInv, QueueType
    <2> QED
      BY <2>2, <2>3, BusyOrIdle
  <1> QED
    BY <1>1 DEF QInv, Blocks, Listed, IsSend, Ready, Receivers, Senders

(***************************************************************************)
(* Who is about to look at the queue after a step of t that takes tasks w  *)
(* off the lists.                                                          *)
(***************************************************************************)
LEMMA AboutAfter ==
    ASSUME QInv, NEW t \in Task, NEW c, Becomes(t, c), NEW ops,
           NEW w, IsFiniteSet(w), w \subseteq Listed, w \cap Listed' = {}, w \subseteq Task,
           Listed' \subseteq Listed \cup {t},
           \A u \in w : Ready(u, ops), t \in w => Ready(t, ops)'
    PROVE  /\ Cardinality(About(ops)) \in Nat /\ Cardinality(About(ops))' \in Nat
           /\ Cardinality(w) \in Nat
           /\ Cardinality(About(ops)) + Cardinality(w) <= Cardinality(About(ops))' + 1
           /\ (t \in About(ops) => Ready(t, ops)' /\ t \notin Listed') =>
                Cardinality(About(ops)) + Cardinality(w) <= Cardinality(About(ops))'
  <1> DEFINE A == About(ops)
             B == About(ops)'
  <1>1. IsFiniteSet(A) /\ IsFiniteSet(B)
    BY AboutIs, AboutIsNext
  <1>2. \A u : u \in A <=> u \in Task /\ u \notin Listed /\ Ready(u, ops)
    BY AboutIs
  <1>3. \A u : u \in B <=> u \in Task /\ u \notin Listed' /\ Ready(u, ops)'
    BY AboutIsNext
  <1>4. \A u \in Task \ {t} : Ready(u, ops)' <=> Ready(u, ops)
    BY DEF Ready, Becomes
  <1>5. Cardinality(About(ops))' = Cardinality(B)
    OBVIOUS
  <1> HIDE DEF A, B
  <1>6. w \cap A = {} /\ (A \ {t}) \cup w \subseteq B
    BY <1>2, <1>3, <1>4
  <1>7. /\ Cardinality(A) \in Nat /\ Cardinality(B) \in Nat /\ Cardinality(w) \in Nat
        /\ Cardinality(A) + Cardinality(w) <= Cardinality(B) + 1
    BY <1>1, <1>6, Exchange
  <1>8. ASSUME t \in A => Ready(t, ops)' /\ t \notin Listed'
        PROVE  Cardinality(A) + Cardinality(w) <= Cardinality(B)
    <2>1. A \cup w \subseteq B
      BY <1>3, <1>6, <1>8
    <2>2. "nobody" \notin A
      BY <1>2, QueueAssumption
    <2>3. (A \ {"nobody"}) \cup w \subseteq B
      BY <2>1
    <2> QED
      BY <1>1, <1>6, <2>2, <2>3, Exchange
  <1> QED
    BY <1>5, <1>7, <1>8 DEF A, B

LEMMA EmptyFinite == IsFiniteSet({}) /\ Cardinality({}) = 0
  BY FS_EmptySet

\* The same of a step that takes nobody off, or one task.
LEMMA AboutStays ==
    ASSUME QInv, NEW t \in Task, NEW c, Becomes(t, c), NEW ops,
           Listed' \subseteq Listed \cup {t}
    PROVE  /\ Cardinality(About(ops)) \in Nat /\ Cardinality(About(ops))' \in Nat
           /\ Cardinality(About(ops)) <= Cardinality(About(ops))' + 1
           /\ (t \in About(ops) => Ready(t, ops)' /\ t \notin Listed') =>
                Cardinality(About(ops)) <= Cardinality(About(ops))'
  <1>1. /\ Cardinality(About(ops)) \in Nat /\ Cardinality(About(ops))' \in Nat
        /\ Cardinality({}) \in Nat
        /\ Cardinality(About(ops)) + Cardinality({}) <= Cardinality(About(ops))' + 1
        /\ (t \in About(ops) => Ready(t, ops)' /\ t \notin Listed') =>
             Cardinality(About(ops)) + Cardinality({}) <= Cardinality(About(ops))'
    BY EmptyFinite, AboutAfter
  <1> QED
    BY <1>1, EmptyFinite

LEMMA AboutGains ==
    ASSUME QInv, NEW t \in Task, NEW c, Becomes(t, c), NEW ops,
           NEW h \in Listed, h \notin Listed', h \in Task, h # t, Ready(h, ops),
           Listed' \subseteq Listed \cup {t}
    PROVE  /\ Cardinality(About(ops)) \in Nat /\ Cardinality(About(ops))' \in Nat
           /\ Cardinality(About(ops)) <= Cardinality(About(ops))'
           /\ t \notin About(ops) => Cardinality(About(ops)) + 1 <= Cardinality(About(ops))'
  <1>1. IsFiniteSet({h}) /\ Cardinality({h}) = 1
    BY FS_Singleton
  <1>2. /\ Cardinality(About(ops)) \in Nat /\ Cardinality(About(ops))' \in Nat
        /\ Cardinality({h}) \in Nat
        /\ Cardinality(About(ops)) + Cardinality({h}) <= Cardinality(About(ops))' + 1
        /\ (t \in About(ops) => Ready(t, ops)' /\ t \notin Listed') =>
             Cardinality(About(ops)) + Cardinality({h}) <= Cardinality(About(ops))'
    <2>1. {h} \subseteq Listed /\ {h} \cap Listed' = {} /\ {h} \subseteq Task /\ \A u \in {h} : Ready(u, ops)
      OBVIOUS
    <2> QED
      BY <1>1, <2>1, AboutAfter
  <1> QED
    BY <1>1, <1>2

\* The same of a step of an interrupt, that wakes one task.
LEMMA AboutIsr ==
    ASSUME QInv, call' = call, NEW ops, Listed' \subseteq Listed
    PROVE  /\ Cardinality(About(ops)) \in Nat /\ Cardinality(About(ops))' \in Nat
           /\ Cardinality(About(ops)) <= Cardinality(About(ops))'
           /\ \A h \in Listed : h \in Task /\ h \notin Listed' /\ Ready(h, ops) =>
                Cardinality(About(ops)) + 1 <= Cardinality(About(ops))'
  <1> DEFINE A == About(ops)
             B == About(ops)'
  <1>1. IsFiniteSet(A) /\ IsFiniteSet(B)
    BY AboutIs, AboutIsNext
  <1>2. \A u : u \in A <=> u \in Task /\ u \notin Listed /\ Ready(u, ops)
    BY AboutIs
  <1>3. \A u : u \in B <=> u \in Task /\ u \notin Listed' /\ Ready(u, ops)'
    BY AboutIsNext
  <1>4. \A u : Ready(u, ops)' <=> Ready(u, ops)
    BY DEF Ready
  <1>5. Cardinality(About(ops))' = Cardinality(B)
    OBVIOUS
  <1> HIDE DEF A, B
  <1>6. A \subseteq B
    BY <1>2, <1>3, <1>4
  <1>7. /\ Cardinality(A) \in Nat /\ Cardinality(B) \in Nat
        /\ Cardinality(A) <= Cardinality(B)
    BY <1>1, <1>6, FS_CardinalityType, FS_Subset
  <1>8. ASSUME NEW h \in Listed, h \in Task, h \notin Listed', Ready(h, ops)
        PROVE  Cardinality(A) + 1 <= Cardinality(B)
    <2>1. IsFiniteSet({h}) /\ Cardinality({h}) = 1
      BY FS_Singleton
    <2>2. "nobody" \notin A
      BY <1>2, QueueAssumption
    <2>3. {h} \cap A = {} /\ (A \ {"nobody"}) \cup {h} \subseteq B
      BY <1>2, <1>3, <1>4, <1>6, <1>8
    <2>4. Cardinality(A) + Cardinality({h}) <= Cardinality(B)
      BY <1>1, <2>1, <2>2, <2>3, Exchange
    <2> QED
      BY <2>1, <2>4
  <1> QED
    BY <1>5, <1>7, <1>8 DEF A, B

LEMMA OwedNat ==
    ASSUME QInv
    PROVE  OwedBy(cTxLock) \in Nat /\ OwedBy(cRxLock) \in Nat
           /\ uxMessagesWaiting \in Nat /\ uxMessagesWaiting <= uxLength /\ uxLength \in Nat \ {0}
  BY QueueAssumption DEF QInv, QueueType, DataType, OwedBy, queueUNLOCKED

LEMMA PlacingMoves ==
    ASSUME NEW t \in Task, NEW c, Becomes(t, c), c.pc # "place", NEW ops
    PROVE  Placing(ops)' => Placing(ops)
  BY DEF Placing, Becomes

LEMMA NonePlacing ==
    ASSUME QInv, cTxLock = queueUNLOCKED \/ cRxLock = queueUNLOCKED, NEW ops
    PROVE  ~ Placing(ops)
  <1> SUFFICES ASSUME NEW t \in Task, call[t].pc = "place" PROVE FALSE
    BY DEF Placing
  <1>1. suspended = t
    BY DEF QInv, Control, Inside
  <1>2. suspended # Nobody
    BY <1>1, QueueAssumption DEF Nobody
  <1> QED
    BY <1>1, <1>2 DEF QInv, Locking

LEMMA ReceiverWoken ==
    ASSUME QInv, Wake(Woken(xTasksWaitingToReceive)),
           xTasksWaitingToReceive' = Rest(xTasksWaitingToReceive),
           UNCHANGED <<xTasksWaitingToSend, suspended>>
    PROVE  /\ Listed' \subseteq Listed
           /\ xTasksWaitingToReceive' # << >> =>
                /\ xTasksWaitingToReceive # << >>
                /\ \E h \in Listed : h \in Task /\ h \notin Listed' /\ Ready(h, Receivers)
  <1> DEFINE w == Woken(xTasksWaitingToReceive)
  <1>1. IsEventList(xTasksWaitingToReceive)
    BY DEF QInv, QueueType
  <1>2. /\ w \subseteq Range(xTasksWaitingToReceive)
        /\ Range(xTasksWaitingToReceive)' = Range(xTasksWaitingToReceive) \ w
        /\ xTasksWaitingToReceive' # << >> =>
             xTasksWaitingToReceive # << >> /\ \E h \in Range(xTasksWaitingToReceive) : w = {h}
    BY <1>1, HeadLeaves DEF Range
  <1> HIDE DEF w
  <1>3. Listed' = Listed \ w /\ w \subseteq Listed
    BY <1>2, WakeReceivers DEF w
  <1> QED
    BY <1>2, <1>3, WaiterReady, ListsApart DEF Listed

LEMMA SenderWoken ==
    ASSUME QInv, Wake(Woken(xTasksWaitingToSend)),
           xTasksWaitingToSend' = Rest(xTasksWaitingToSend),
           UNCHANGED <<xTasksWaitingToReceive, suspended>>
    PROVE  /\ Listed' \subseteq Listed
           /\ xTasksWaitingToSend' # << >> =>
                /\ xTasksWaitingToSend # << >>
                /\ \E h \in Listed : h \in Task /\ h \notin Listed' /\ Ready(h, Senders)
  <1> DEFINE w == Woken(xTasksWaitingToSend)
  <1>1. IsEventList(xTasksWaitingToSend)
    BY DEF QInv, QueueType
  <1>2. /\ w \subseteq Range(xTasksWaitingToSend)
        /\ Range(xTasksWaitingToSend)' = Range(xTasksWaitingToSend) \ w
        /\ xTasksWaitingToSend' # << >> =>
             xTasksWaitingToSend # << >> /\ \E h \in Range(xTasksWaitingToSend) : w = {h}
    BY <1>1, HeadLeaves DEF Range
  <1> HIDE DEF w
  <1>3. Listed' = Listed \ w /\ w \subseteq Listed
    BY <1>2, WakeSenders DEF w
  <1> QED
    BY <1>2, <1>3, WaiterReady, ListsApart DEF Listed

(***************************************************************************)
(* A step by which nobody looks away keeps both bounds.                    *)
(***************************************************************************)
LEMMA NobodyLooksAway ==
    ASSUME QInv, WakeReceiver, WakeSender, NEW t \in Task, NEW c, Becomes(t, c), c.pc # "place",
           UNCHANGED uxMessagesWaiting,
           OwedBy(cTxLock)' = OwedBy(cTxLock), OwedBy(cRxLock)' = OwedBy(cRxLock),
           Listed' \subseteq Listed \cup {t},
           xTasksWaitingToReceive' # << >> => xTasksWaitingToReceive # << >> \/ Placing(Receivers),
           xTasksWaitingToSend' # << >> => xTasksWaitingToSend # << >> \/ Placing(Senders),
           \A ops : t \in About(ops) => Ready(t, ops)' /\ t \notin Listed'
    PROVE  WakeReceiver' /\ WakeSender'
  <1>1. ASSUME NEW ops
        PROVE  /\ Cardinality(About(ops)) \in Nat /\ Cardinality(About(ops))' \in Nat
               /\ Cardinality(About(ops)) <= Cardinality(About(ops))'
               /\ Placing(ops)' => Placing(ops)
    BY AboutStays, PlacingMoves
  <1>2. /\ Cardinality(About(Receivers)) \in Nat /\ Cardinality(About(Receivers))' \in Nat
        /\ Cardinality(About(Receivers)) <= Cardinality(About(Receivers))'
        /\ Placing(Receivers)' => Placing(Receivers)
    BY <1>1
  <1>3. /\ Cardinality(About(Senders)) \in Nat /\ Cardinality(About(Senders))' \in Nat
        /\ Cardinality(About(Senders)) <= Cardinality(About(Senders))'
        /\ Placing(Senders)' => Placing(Senders)
    BY <1>1
  <1>4. WakeReceiver'
    BY <1>2, OwedNat DEF WakeReceiver
  <1>5. WakeSender'
    BY <1>3, OwedNat DEF WakeSender
  <1> QED
    BY <1>4, <1>5

\* A call that is in its first critical section is about to look.
LEMMA TryIsReady ==
    ASSUME QInv, NEW t \in Task, Runs(t, "try")
    PROVE  /\ call[t].op = "send" => t \notin About(Receivers)
           /\ call[t].op \in Receivers => t \notin About(Senders)
           /\ call[t].op = "reset" => t \notin About(Senders) /\ t \notin About(Receivers)
           /\ call[t].op \in {"send", "receive", "peek", "reset"}
           /\ \A ops : ~ Placing(ops)
  <1>1. call[t].op \in {"send", "receive", "peek", "reset"}
    BY AtTry, BusyOrIdle
  <1>2. \A ops : ~ Placing(ops)
    BY AtTry, NonePlacing
  <1> QED
    BY <1>1, <1>2, AboutIs DEF Ready, Receivers, Senders

LEMMA ReturnIdle ==
    ASSUME QInv, NEW t \in Task, Return(t)
    PROVE  Becomes(t, Idle) /\ Idle.pc # "place" /\ Idle.pc = "idle" /\ (\A ops : Placing(ops)' => Placing(ops))
  <1>1. Becomes(t, Idle)
    BY ReturnBecomes DEF QInv, QueueType
  <1>2. Idle.pc = "idle"
    BY DEF Idle
  <1> QED
    BY <1>1, <1>2, PlacingMoves

LEMMA SendWakes ==
    ASSUME QInv, WakeReceiver, WakeSender, NEW t \in Task, Send(t)
    PROVE  WakeReceiver' /\ WakeSender'
  <1>1. /\ Runs(t, "try") /\ call[t].op = "send" /\ Roomy(call[t].pos) /\ CopyDataToQueue(call[t].item, call[t].pos)
        /\ Wake(Woken(xTasksWaitingToReceive)) /\ xTasksWaitingToReceive' = Rest(xTasksWaitingToReceive)
        /\ Return(t) /\ UNCHANGED <<locks, xTasksWaitingToSend, suspended, got>>
    BY DEF Send, IsSend
  <1>2. /\ t \notin Listed /\ InCall(t) /\ t \notin About(Receivers) /\ \A ops : ~ Placing(ops)
    BY <1>1, AtTry, TryIsReady
  <1>3. Becomes(t, Idle) /\ \A ops : ~ Placing(ops)'
    BY <1>1, <1>2, ReturnIdle
  <1>4. /\ Listed' \subseteq Listed
        /\ xTasksWaitingToReceive' # << >> =>
             /\ xTasksWaitingToReceive # << >>
             /\ \E h \in Listed : h \in Task /\ h \notin Listed' /\ Ready(h, Receivers)
    BY <1>1, ReceiverWoken
  <1>5. OwedBy(cTxLock)' = OwedBy(cTxLock) /\ OwedBy(cRxLock)' = OwedBy(cRxLock)
    BY <1>1 DEF locks, OwedBy
  <1>6. /\ uxMessagesWaiting' \in Nat /\ uxMessagesWaiting' <= uxMessagesWaiting + 1
        /\ uxLength - uxMessagesWaiting' <= 0 \/ uxMessagesWaiting' = uxMessagesWaiting + 1
    BY <1>1, <1>2, OwedNat DEF CopyDataToQueue, InCall
  <1>7. WakeReceiver'
    <2> SUFFICES ASSUME xTasksWaitingToReceive' # << >>
                 PROVE  uxMessagesWaiting' <= Cardinality(About(Receivers))' + OwedBy(cTxLock)'
      BY <1>3 DEF WakeReceiver
    <2>1. PICK h \in Listed : h \in Task /\ h \notin Listed' /\ Ready(h, Receivers)
      BY <1>4
    <2>2. /\ Cardinality(About(Receivers)) \in Nat /\ Cardinality(About(Receivers))' \in Nat
          /\ Cardinality(About(Receivers)) + 1 <= Cardinality(About(Receivers))'
      BY <2>1, <1>2, <1>3, <1>4, AboutGains
    <2>3. uxMessagesWaiting <= Cardinality(About(Receivers)) + OwedBy(cTxLock)
      BY <1>4 DEF WakeReceiver
    <2> QED
      BY <2>2, <2>3, <1>5, <1>6, OwedNat
  <1>8. WakeSender'
    <2> SUFFICES ASSUME xTasksWaitingToSend' # << >>
                 PROVE  uxLength - uxMessagesWaiting' <= Cardinality(About(Senders))' + OwedBy(cRxLock)'
      BY <1>3 DEF WakeSender
    <2>1. /\ Cardinality(About(Senders)) \in Nat /\ Cardinality(About(Senders))' \in Nat
          /\ Cardinality(About(Senders)) <= Cardinality(About(Senders))' + 1
      BY <1>3, <1>4, AboutStays
    <2>2. uxLength - uxMessagesWaiting <= Cardinality(About(Senders)) + OwedBy(cRxLock)
      BY <1>1 DEF WakeSender
    <2> QED
      BY <2>1, <2>2, <1>5, <1>6, OwedNat
  <1> QED
    BY <1>7, <1>8

LEMMA ReceiveWakes ==
    ASSUME QInv, WakeReceiver, WakeSender, NEW t \in Task, Receive(t)
    PROVE  WakeReceiver' /\ WakeSender'
  <1>1. /\ Runs(t, "try") /\ call[t].op \in Receivers /\ uxMessagesWaiting > 0
        /\ uxMessagesWaiting' = uxMessagesWaiting - 1
        /\ Wake(Woken(xTasksWaitingToSend)) /\ xTasksWaitingToSend' = Rest(xTasksWaitingToSend)
        /\ Return(t) /\ UNCHANGED <<locks, xTasksWaitingToReceive, suspended>>
    BY DEF Receive, Take, Receivers
  <1>2. /\ t \notin Listed /\ t \notin About(Senders) /\ \A ops : ~ Placing(ops)
    BY <1>1, AtTry, TryIsReady
  <1>3. Becomes(t, Idle) /\ \A ops : ~ Placing(ops)'
    BY <1>1, <1>2, ReturnIdle
  <1>4. /\ Listed' \subseteq Listed
        /\ xTasksWaitingToSend' # << >> =>
             /\ xTasksWaitingToSend # << >>
             /\ \E h \in Listed : h \in Task /\ h \notin Listed' /\ Ready(h, Senders)
    BY <1>1, SenderWoken
  <1>5. OwedBy(cTxLock)' = OwedBy(cTxLock) /\ OwedBy(cRxLock)' = OwedBy(cRxLock)
    BY <1>1 DEF locks, OwedBy
  <1>7. WakeReceiver'
    <2> SUFFICES ASSUME xTasksWaitingToReceive' # << >>
                 PROVE  uxMessagesWaiting' <= Cardinality(About(Receivers))' + OwedBy(cTxLock)'
      BY <1>3 DEF WakeReceiver
    <2>1. /\ Cardinality(About(Receivers)) \in Nat /\ Cardinality(About(Receivers))' \in Nat
          /\ Cardinality(About(Receivers)) <= Cardinality(About(Receivers))' + 1
      BY <1>3, <1>4, AboutStays
    <2>2. uxMessagesWaiting <= Cardinality(About(Receivers)) + OwedBy(cTxLock)
      BY <1>1 DEF WakeReceiver
    <2> QED
      BY <2>1, <2>2, <1>1, <1>5, OwedNat
  <1>8. WakeSender'
    <2> SUFFICES ASSUME xTasksWaitingToSend' # << >>
                 PROVE  uxLength - uxMessagesWaiting' <= Cardinality(About(Senders))' + OwedBy(cRxLock)'
      BY <1>3 DEF WakeSender
    <2>1. PICK h \in Listed : h \in Task /\ h \notin Listed' /\ Ready(h, Senders)
      BY <1>4
    <2>2. /\ Cardinality(About(Senders)) \in Nat /\ Cardinality(About(Senders))' \in Nat
          /\ Cardinality(About(Senders)) + 1 <= Cardinality(About(Senders))'
      BY <2>1, <1>2, <1>3, <1>4, AboutGains
    <2>3. uxLength - uxMessagesWaiting <= Cardinality(About(Senders)) + OwedBy(cRxLock)
      BY <1>4 DEF WakeSender
    <2> QED
      BY <2>2, <2>3, <1>1, <1>5, OwedNat
  <1> QED
    BY <1>7, <1>8

LEMMA PeekWakes ==
    ASSUME QInv, WakeReceiver, WakeSender, NEW t \in Task, Peek(t)
    PROVE  WakeReceiver' /\ WakeSender'
  <1>1. /\ Runs(t, "try") /\ call[t].op \in Receivers /\ uxMessagesWaiting' = uxMessagesWaiting
        /\ Wake(Woken(xTasksWaitingToReceive)) /\ xTasksWaitingToReceive' = Rest(xTasksWaitingToReceive)
        /\ Return(t) /\ UNCHANGED <<locks, xTasksWaitingToSend, suspended>>
    BY DEF Peek, Receivers, data
  <1>2. /\ t \notin Listed /\ t \notin About(Senders) /\ \A ops : ~ Placing(ops)
    BY <1>1, AtTry, TryIsReady
  <1>3. Becomes(t, Idle) /\ \A ops : ~ Placing(ops)'
    BY <1>1, <1>2, ReturnIdle
  <1>4. /\ Listed' \subseteq Listed
        /\ xTasksWaitingToReceive' # << >> =>
             /\ xTasksWaitingToReceive # << >>
             /\ \E h \in Listed : h \in Task /\ h \notin Listed' /\ Ready(h, Receivers)
    BY <1>1, ReceiverWoken
  <1>5. OwedBy(cTxLock)' = OwedBy(cTxLock) /\ OwedBy(cRxLock)' = OwedBy(cRxLock)
    BY <1>1 DEF locks, OwedBy
  <1>7. WakeReceiver'
    <2> SUFFICES ASSUME xTasksWaitingToReceive' # << >>
                 PROVE  uxMessagesWaiting' <= Cardinality(About(Receivers))' + OwedBy(cTxLock)'
      BY <1>3 DEF WakeReceiver
    <2>1. PICK h \in Listed : h \in Task /\ h \notin Listed' /\ Ready(h, Receivers)
      BY <1>4
    <2>2. /\ Cardinality(About(Receivers)) \in Nat /\ Cardinality(About(Receivers))' \in Nat
          /\ Cardinality(About(Receivers)) <= Cardinality(About(Receivers))'
      BY <2>1, <1>2, <1>3, <1>4, AboutGains
    <2>3. uxMessagesWaiting <= Cardinality(About(Receivers)) + OwedBy(cTxLock)
      BY <1>4 DEF WakeReceiver
    <2> QED
      BY <2>2, <2>3, <1>1, <1>5, OwedNat
  <1>8. WakeSender'
    <2> SUFFICES ASSUME xTasksWaitingToSend' # << >>
                 PROVE  uxLength - uxMessagesWaiting' <= Cardinality(About(Senders))' + OwedBy(cRxLock)'
      BY <1>3 DEF WakeSender
    <2>1. /\ Cardinality(About(Senders)) \in Nat /\ Cardinality(About(Senders))' \in Nat
          /\ Cardinality(About(Senders)) <= Cardinality(About(Senders))'
      BY <1>2, <1>3, <1>4, AboutStays
    <2>2. uxLength - uxMessagesWaiting <= Cardinality(About(Senders)) + OwedBy(cRxLock)
      BY <1>1 DEF WakeSender
    <2> QED
      BY <2>1, <2>2, <1>1, <1>5, OwedNat
  <1> QED
    BY <1>7, <1>8

\* A reset frees every place and wakes one sender: enough for one place.
LEMMA ResetWakes ==
    ASSUME QInv, WakeReceiver, WakeSender, NEW t \in Task, Reset(t), uxLength = 1
    PROVE  WakeReceiver' /\ WakeSender'
  <1>1. /\ Runs(t, "try") /\ call[t].op = "reset" /\ uxMessagesWaiting' = 0
        /\ Wake(Woken(xTasksWaitingToSend)) /\ xTasksWaitingToSend' = Rest(xTasksWaitingToSend)
        /\ Return(t) /\ UNCHANGED <<xTasksWaitingToReceive, suspended>>
    BY DEF Reset
  <1>2. /\ t \notin Listed /\ t \notin About(Senders) /\ \A ops : ~ Placing(ops)
    BY <1>1, AtTry, TryIsReady
  <1>3. Becomes(t, Idle) /\ \A ops : ~ Placing(ops)'
    BY <1>1, <1>2, ReturnIdle
  <1>4. /\ Listed' \subseteq Listed
        /\ xTasksWaitingToSend' # << >> =>
             /\ xTasksWaitingToSend # << >>
             /\ \E h \in Listed : h \in Task /\ h \notin Listed' /\ Ready(h, Senders)
    BY <1>1, SenderWoken
  <1>5. OwedBy(cTxLock)' = 0 /\ OwedBy(cRxLock)' = 0
    BY DEF Reset, OwedBy, queueUNLOCKED
  <1>7. WakeReceiver'
    <2>1. Cardinality(About(Receivers))' \in Nat
      BY <1>3, <1>4, AboutStays
    <2> QED
      BY <2>1, <1>1, <1>5 DEF WakeReceiver
  <1>8. WakeSender'
    <2> SUFFICES ASSUME xTasksWaitingToSend' # << >>
                 PROVE  uxLength - uxMessagesWaiting' <= Cardinality(About(Senders))' + OwedBy(cRxLock)'
      BY <1>3 DEF WakeSender
    <2>1. PICK h \in Listed : h \in Task /\ h \notin Listed' /\ Ready(h, Senders)
      BY <1>4
    <2>2. /\ Cardinality(About(Senders)) \in Nat /\ Cardinality(About(Senders))' \in Nat
          /\ Cardinality(About(Senders)) + 1 <= Cardinality(About(Senders))'
      BY <2>1, <1>2, <1>3, <1>4, AboutGains
    <2> QED
      BY <2>2, <1>1, <1>5
  <1> QED
    BY <1>7, <1>8

(***************************************************************************)
(* The rest of the loop.                                                   *)
(***************************************************************************)
LEMMA EnterWakes ==
    ASSUME QInv, WakeReceiver, WakeSender, NEW t \in Task, NEW c \in Calls[t], Enter(t, c)
    PROVE  WakeReceiver' /\ WakeSender'
  <1>1. PICK r \in Busy : Becomes(t, r) /\ r.pc = "try"
    <2> DEFINE r == [op |-> c.op, pos |-> c.pos, item |-> c.item, ticks |-> c.ticks,
                     pc |-> "try", expired |-> FALSE, entered |-> FALSE, then |-> "try"]
    <2>1. c \in [op : {"send", "receive", "peek", "reset"}, pos : {"back", "front", "overwrite", "none"},
                 item : Item \cup {"nothing"}, ticks : {"none", "finite", "forever"}]
      BY CallAssumption
    <2>2. r \in Busy /\ r.pc = "try"
      BY <2>1 DEF Busy, Pcs
    <2>3. call' = [call EXCEPT ![t] = r]
      BY DEF Enter
    <2> HIDE DEF r
    <2>4. Becomes(t, r)
      BY <2>2, <2>3, CallBecomes DEF QInv, QueueType
    <2> QED
      BY <2>2, <2>4
  <1>2. Listed' = Listed /\ OwedBy(cTxLock)' = OwedBy(cTxLock) /\ OwedBy(cRxLock)' = OwedBy(cRxLock)
    BY DEF Enter, waiting, locks, Listed, Range, OwedBy
  <1>3. \A ops : t \notin About(ops)
    BY AboutIs DEF Enter, Runs, Ready
  <1>4. /\ UNCHANGED uxMessagesWaiting
        /\ xTasksWaitingToReceive' = xTasksWaitingToReceive /\ xTasksWaitingToSend' = xTasksWaitingToSend
    BY DEF Enter, waiting, data
  <1> QED
    BY <1>1, <1>2, <1>3, <1>4, NobodyLooksAway

LEMMA UnservedWakes ==
    ASSUME QInv, WakeReceiver, WakeSender, NEW t \in Task, Unserved(t)
    PROVE  WakeReceiver' /\ WakeSender'
  <1>1. /\ Runs(t, "try") /\ call[t].op # "reset" /\ UNCHANGED <<data, locks, waiting, sched, got>>
        /\ IF IsSend(t) THEN ~Roomy(call[t].pos) ELSE uxMessagesWaiting = 0
    BY DEF Unserved
  <1>2. PICK c \in Busy \cup {Idle} : Becomes(t, c) /\ c.pc # "place"
    <2>1. CASE Return(t)
      BY <2>1, ReturnIdle
    <2>2. CASE call' = [call EXCEPT ![t].pc = "suspend", ![t].entered = TRUE]
      <3> DEFINE c == [call[t] EXCEPT !.pc = "suspend", !.entered = TRUE]
      <3>1. c \in Busy /\ c.pc = "suspend"
        <4>1. call[t] \in Busy /\ "suspend" \in Pcs
          BY <1>1, AtTry DEF Pcs
        <4>2. Goes(call[t], "suspend", call[t].then, c)
          BY <4>1, EntersAs
        <4> QED
          BY <4>2 DEF Goes
      <3>2. call' = [call EXCEPT ![t] = c]
        BY <2>2
      <3> HIDE DEF c
      <3>3. Becomes(t, c)
        BY <3>1, <3>2, CallBecomes DEF QInv, QueueType
      <3> QED
        BY <3>1, <3>3
    <2> QED
      BY <2>1, <2>2 DEF Unserved
  <1>3. /\ Listed' = Listed /\ OwedBy(cTxLock)' = OwedBy(cTxLock) /\ OwedBy(cRxLock)' = OwedBy(cRxLock)
        /\ uxMessagesWaiting' = uxMessagesWaiting
        /\ xTasksWaitingToReceive' = xTasksWaitingToReceive /\ xTasksWaitingToSend' = xTasksWaitingToSend
    BY <1>1 DEF waiting, locks, Listed, Range, OwedBy, data
  <1>4. t \notin Listed /\ \A ops : ~ Placing(ops)
    BY <1>1, AtTry, TryIsReady
  <1>5. \A ops : ~ Placing(ops)'
    BY <1>2, <1>4, PlacingMoves
  <1>6. /\ Cardinality(About(Receivers))' \in Nat /\ Cardinality(About(Receivers)) \in Nat
        /\ t \notin About(Receivers) => Cardinality(About(Receivers)) <= Cardinality(About(Receivers))'
    BY <1>2, <1>3, AboutStays
  <1>7. /\ Cardinality(About(Senders))' \in Nat /\ Cardinality(About(Senders)) \in Nat
        /\ t \notin About(Senders) => Cardinality(About(Senders)) <= Cardinality(About(Senders))'
    BY <1>2, <1>3, AboutStays
  <1>8. CASE IsSend(t)
    <2>1. t \notin About(Receivers)
      BY <1>1, <1>8, TryIsReady DEF IsSend
    <2>2. uxMessagesWaiting = uxLength
      BY <1>1, <1>8, OwedNat DEF Roomy
    <2>3. WakeReceiver'
      BY <2>1, <1>3, <1>5, <1>6, OwedNat DEF WakeReceiver
    <2>4. WakeSender'
      BY <2>2, <1>3, <1>7, OwedNat DEF WakeSender
    <2> QED
      BY <2>3, <2>4
  <1>9. CASE ~IsSend(t)
    <2>1. t \notin About(Senders)
      BY <1>1, <1>9, TryIsReady DEF IsSend, Receivers
    <2>2. uxMessagesWaiting = 0
      BY <1>1, <1>9
    <2>3. WakeReceiver'
      BY <2>2, <1>3, <1>6, OwedNat DEF WakeReceiver
    <2>4. WakeSender'
      BY <2>1, <1>3, <1>5, <1>7, OwedNat DEF WakeSender
    <2> QED
      BY <2>3, <2>4
  <1> QED
    BY <1>8, <1>9

LEMMA SuspendAllWakes ==
    ASSUME QInv, WakeReceiver, WakeSender, NEW t \in Task, SuspendAll(t)
    PROVE  WakeReceiver' /\ WakeSender'
  <1>1. "lock" \in Pcs /\ "suspend" # "idle"
    BY DEF Pcs, Inside
  <1>2. PICK c \in Busy : Becomes(t, c) /\ c.pc = "lock" /\ call[t].pc = "suspend"
    BY <1>1, GotoIs DEF SuspendAll
  <1>3. /\ Listed' = Listed /\ OwedBy(cTxLock)' = OwedBy(cTxLock) /\ OwedBy(cRxLock)' = OwedBy(cRxLock)
        /\ UNCHANGED uxMessagesWaiting
        /\ xTasksWaitingToReceive' = xTasksWaitingToReceive /\ xTasksWaitingToSend' = xTasksWaitingToSend
    BY DEF SuspendAll, waiting, locks, Listed, Range, OwedBy, data
  <1>4. \A ops : t \notin About(ops)
    BY <1>2, AboutIs DEF Ready
  <1> QED
    BY <1>2, <1>3, <1>4, NobodyLooksAway

LEMMA LockQueueWakes ==
    ASSUME QInv, WakeReceiver, WakeSender, NEW t \in Task, LockQueue(t)
    PROVE  WakeReceiver' /\ WakeSender'
  <1>1. "lock" \in Inside /\ "timeout" \in Pcs /\ "lock" # "idle"
    BY DEF Pcs, Inside
  <1>2. PICK c \in Busy : Becomes(t, c) /\ c.pc = "timeout" /\ call[t].pc = "lock"
    BY <1>1, GotoIs DEF LockQueue
  <1>3. suspended = t /\ t # Nobody
    BY <1>1, RunnerInside DEF LockQueue
  <1>4. cRxLock = queueUNLOCKED /\ cTxLock = queueUNLOCKED
    BY <1>2, <1>3 DEF QInv, Locking
  <1>5. OwedBy(cTxLock)' = OwedBy(cTxLock) /\ OwedBy(cRxLock)' = OwedBy(cRxLock)
    BY <1>4 DEF LockQueue, OwedBy, queueUNLOCKED, queueLOCKED_UNMODIFIED
  <1>6. /\ Listed' = Listed
        /\ UNCHANGED uxMessagesWaiting
        /\ xTasksWaitingToReceive' = xTasksWaitingToReceive /\ xTasksWaitingToSend' = xTasksWaitingToSend
    BY DEF LockQueue, waiting, Listed, Range, data
  <1>7. \A ops : t \notin About(ops)
    BY <1>2, AboutIs DEF Ready
  <1> QED
    BY <1>2, <1>5, <1>6, <1>7, NobodyLooksAway

LEMMA CheckForTimeOutWakes ==
    ASSUME QInv, WakeReceiver, WakeSender, NEW t \in Task, CheckForTimeOut(t)
    PROVE  WakeReceiver' /\ WakeSender'
  <1> DEFINE pc == IF call[t].expired THEN "unlockTx" ELSE "test"
             then == IF ~call[t].expired THEN "try" ELSE IF IsSend(t) THEN "fail" ELSE "failIfEmpty"
             c == [call[t] EXCEPT !.pc = pc, !.then = then]
  <1>1. "timeout" \in Inside /\ "timeout" # "idle"
    BY DEF Inside
  <1>2. call[t] \in Busy /\ call[t].pc = "timeout"
    BY <1>1, RunnerInside DEF CheckForTimeOut, Runs
  <1>3. pc \in {"unlockTx", "test"} /\ then \in {"try", "fail", "failIfEmpty"} /\ pc \in Pcs
    BY DEF Pcs, Inside
  <1>4. call' = [call EXCEPT ![t] = c]
    BY DEF CheckForTimeOut
  <1> HIDE DEF pc, then
  <1>5. c \in Busy /\ c.pc = pc
    <2>1. Goes(call[t], pc, then, c)
      BY <1>2, <1>3, TurnsTo
    <2> QED
      BY <2>1 DEF Goes
  <1> HIDE DEF c
  <1>6. Becomes(t, c)
    BY <1>4, <1>5, CallBecomes DEF QInv, QueueType
  <1>7. c.pc # "place"
    BY <1>3, <1>5
  <1>8. /\ Listed' = Listed /\ OwedBy(cTxLock)' = OwedBy(cTxLock) /\ OwedBy(cRxLock)' = OwedBy(cRxLock)
        /\ UNCHANGED uxMessagesWaiting
        /\ xTasksWaitingToReceive' = xTasksWaitingToReceive /\ xTasksWaitingToSend' = xTasksWaitingToSend
    BY DEF CheckForTimeOut, waiting, locks, Listed, Range, OwedBy, data
  <1>9. \A ops : t \notin About(ops)
    BY <1>2, AboutIs DEF Ready
  <1> QED
    BY <1>6, <1>7, <1>8, <1>9, NobodyLooksAway

\* Who finds no room, or no item, places itself: then no bound is at stake.
LEMMA TestWakes ==
    ASSUME QInv, WakeReceiver, WakeSender, NEW t \in Task, Test(t)
    PROVE  WakeReceiver' /\ WakeSender'
  <1> DEFINE pc == IF uxMessagesWaiting = (IF IsSend(t) THEN uxLength ELSE 0) THEN "place" ELSE "unlockTx"
  <1>1. "test" # "idle" /\ pc \in Pcs /\ pc \in {"place", "unlockTx"}
    BY DEF Inside, Pcs
  <1>2. /\ pc = "place" /\ IsSend(t) => uxMessagesWaiting = uxLength
        /\ pc = "place" /\ ~IsSend(t) => uxMessagesWaiting = 0
    OBVIOUS
  <1>3. Goto(t, pc) /\ Runs(t, "test") /\ UNCHANGED <<data, got, waiting, sched, locks>>
    BY DEF Test
  <1> HIDE DEF pc
  <1>4. PICK c \in Busy : Becomes(t, c) /\ c.pc = pc /\ c.op = call[t].op /\ call[t].pc = "test"
    BY <1>1, <1>3, GotoIs
  <1>5. /\ Listed' = Listed /\ OwedBy(cTxLock)' = OwedBy(cTxLock) /\ OwedBy(cRxLock)' = OwedBy(cRxLock)
        /\ uxMessagesWaiting' = uxMessagesWaiting
        /\ xTasksWaitingToReceive' = xTasksWaitingToReceive /\ xTasksWaitingToSend' = xTasksWaitingToSend
    BY <1>3 DEF waiting, locks, Listed, Range, OwedBy, data
  <1>6. \A ops : t \notin About(ops)
    BY <1>4, AboutIs DEF Ready
  <1>7. CASE pc # "place"
    BY <1>4, <1>5, <1>6, <1>7, NobodyLooksAway
  <1>8. CASE pc = "place"
    <2>1. /\ Cardinality(About(Receivers))' \in Nat /\ Cardinality(About(Receivers)) \in Nat
          /\ Cardinality(About(Receivers)) <= Cardinality(About(Receivers))'
      BY <1>4, <1>5, <1>6, AboutStays
    <2>2. /\ Cardinality(About(Senders))' \in Nat /\ Cardinality(About(Senders)) \in Nat
          /\ Cardinality(About(Senders)) <= Cardinality(About(Senders))'
      BY <1>4, <1>5, <1>6, AboutStays
    <2>3. \A u \in Task \ {t} : call'[u] = call[u]
      BY <1>4 DEF Becomes
    <2>4. call'[t].op = call[t].op
      BY <1>4 DEF Becomes
    <2>5. CASE IsSend(t)
      <3>1. uxMessagesWaiting = uxLength
        BY <1>2, <1>8, <2>5
      <3>2. WakeSender'
        BY <3>1, <1>5, <2>2, OwedNat DEF WakeSender
      <3>3. Placing(Receivers)' => Placing(Receivers)
        BY <2>3, <2>4, <2>5 DEF Placing, Receivers, IsSend
      <3>4. WakeReceiver'
        BY <3>3, <1>5, <2>1, OwedNat DEF WakeReceiver
      <3> QED
        BY <3>2, <3>4
    <2>6. CASE ~IsSend(t)
      <3>1. uxMessagesWaiting = 0
        BY <1>2, <1>8, <2>6
      <3>2. WakeReceiver'
        BY <3>1, <1>5, <2>1, OwedNat DEF WakeReceiver
      <3>3. Placing(Senders)' => Placing(Senders)
        BY <2>3, <2>4, <2>6 DEF Placing, Senders, IsSend
      <3>4. WakeSender'
        BY <3>3, <1>5, <2>2, OwedNat DEF WakeSender
      <3> QED
        BY <3>2, <3>4
    <2> QED
      BY <2>5, <2>6
  <1> QED
    BY <1>7, <1>8

LEMMA PlaceWakes ==
    ASSUME QInv, WakeReceiver, WakeSender, NEW t \in Task, Place(t)
    PROVE  WakeReceiver' /\ WakeSender'
  <1>1. "place" \in Inside /\ "place" # "idle" /\ "unlockTx" \in Pcs
    BY DEF Inside, Pcs
  <1>2. Goto(t, "unlockTx") /\ Runs(t, "place") /\ UNCHANGED <<data, locks>>
    BY DEF Place
  <1>3. PICK c \in Busy : /\ Becomes(t, c) /\ c.pc = "unlockTx"
                          /\ call[t].pc = "place" /\ InCall(t) /\ call[t] \in Busy
    BY <1>1, <1>2, GotoIs
  <1>4. t \notin blocked /\ t \notin Listed
    BY <1>2, RunnerNotBlocked
  <1>5. /\ IsSend(t) => Placing(Senders) /\ xTasksWaitingToReceive' = xTasksWaitingToReceive
        /\ ~IsSend(t) => Placing(Receivers) /\ xTasksWaitingToSend' = xTasksWaitingToSend
    <2>1. call[t].op \in {"send", "receive", "peek"}
      BY <1>3, BusyOrIdle DEF InCall
    <2> QED
      BY <1>3, <2>1 DEF Placing, Senders, Receivers, IsSend, Place
  <1>6. Listed' \subseteq Listed \cup {t}
    <2>1. IsEventList(xTasksWaitingToSend) /\ IsEventList(xTasksWaitingToReceive)
      BY DEF QInv, QueueType
    <2>2. t \notin Range(xTasksWaitingToSend) /\ t \notin Range(xTasksWaitingToReceive)
      BY <1>4 DEF Listed
    <2>3. CASE IsSend(t)
      <3>1. Range(PutInOrder(xTasksWaitingToSend, t)) = Range(xTasksWaitingToSend) \cup {t}
        BY <2>1, <2>2, OneIsPut
      <3>2. /\ Range(xTasksWaitingToSend)' = Range(PutInOrder(xTasksWaitingToSend, t))
            /\ Range(xTasksWaitingToReceive)' = Range(xTasksWaitingToReceive)
        BY <2>3 DEF Range, Place
      <3> QED
        BY <3>1, <3>2 DEF Listed
    <2>4. CASE ~IsSend(t)
      <3>1. Range(PutInOrder(xTasksWaitingToReceive, t)) = Range(xTasksWaitingToReceive) \cup {t}
        BY <2>1, <2>2, OneIsPut
      <3>2. /\ Range(xTasksWaitingToReceive)' = Range(PutInOrder(xTasksWaitingToReceive, t))
            /\ Range(xTasksWaitingToSend)' = Range(xTasksWaitingToSend)
        BY <2>4 DEF Range, Place
      <3> QED
        BY <3>1, <3>2 DEF Listed
    <2> QED
      BY <2>3, <2>4
  <1>7. \A ops : t \notin About(ops)
    BY <1>3, AboutIs DEF Ready
  <1>8. /\ OwedBy(cTxLock)' = OwedBy(cTxLock) /\ OwedBy(cRxLock)' = OwedBy(cRxLock)
        /\ UNCHANGED uxMessagesWaiting
    BY <1>2 DEF locks, OwedBy, data
  <1> QED
    BY <1>3, <1>5, <1>6, <1>7, <1>8, NobodyLooksAway

LEMMA ResumeAllWakes ==
    ASSUME QInv, WakeReceiver, WakeSender, NEW t \in Task, ResumeAll(t)
    PROVE  WakeReceiver' /\ WakeSender'
  <1>1. Runs(t, "resume") /\ AfterResume(t)
    BY DEF ResumeAll
  <1>2. call[t].pc = "resume"
    BY <1>1, AfterResumeIs
  <1>3. PICK c \in Busy \cup {Idle} :
                /\ Becomes(t, c)
                /\ \/ c = Idle /\ call[t].then = "fail"
                   \/ /\ c \in Busy /\ c.pc = call[t].then /\ call[t].then \in {"try", "failIfEmpty"}
                      /\ c.op = call[t].op
    BY <1>1, AfterResumeIs
  <1>4. c.pc # "place"
    BY <1>3 DEF Idle
  <1>5. /\ Listed' = Listed /\ OwedBy(cTxLock)' = OwedBy(cTxLock) /\ OwedBy(cRxLock)' = OwedBy(cRxLock)
        /\ UNCHANGED uxMessagesWaiting
        /\ xTasksWaitingToReceive' = xTasksWaitingToReceive /\ xTasksWaitingToSend' = xTasksWaitingToSend
    BY DEF ResumeAll, waiting, locks, Listed, Range, OwedBy, data
  <1>6. ASSUME NEW ops, t \in About(ops)
        PROVE  Ready(t, ops)' /\ t \notin Listed'
    <2>1. t \notin Listed /\ Ready(t, ops)
      BY <1>6, AboutIs
    <2>2. call[t].then # "fail" /\ call[t].op \in ops
      BY <1>2, <2>1 DEF Ready
    <2>3. call'[t].pc \in {"try", "failIfEmpty"} /\ call'[t].op \in ops
      BY <1>3, <2>2 DEF Becomes
    <2> QED
      BY <1>5, <2>1, <2>3 DEF Ready
  <1> QED
    BY <1>3, <1>4, <1>5, <1>6, NobodyLooksAway

LEMMA FailIfEmptyWakes ==
    ASSUME QInv, WakeReceiver, WakeSender, NEW t \in Task, FailIfEmpty(t)
    PROVE  WakeReceiver' /\ WakeSender'
  <1>1. "failIfEmpty" \notin Inside /\ "failIfEmpty" # "idle" /\ "try" \in Pcs
    BY DEF Inside, Pcs
  <1>2. /\ Runs(t, "failIfEmpty") /\ UNCHANGED <<data, locks, waiting, sched, got>>
        /\ IF uxMessagesWaiting = 0 THEN Return(t) ELSE Goto(t, "try")
    BY DEF FailIfEmpty
  <1>3. /\ Listed' = Listed /\ OwedBy(cTxLock)' = OwedBy(cTxLock) /\ OwedBy(cRxLock)' = OwedBy(cRxLock)
        /\ uxMessagesWaiting' = uxMessagesWaiting
        /\ xTasksWaitingToReceive' = xTasksWaitingToReceive /\ xTasksWaitingToSend' = xTasksWaitingToSend
    BY <1>2 DEF waiting, locks, Listed, Range, OwedBy, data
  <1>4. call[t].pc = "failIfEmpty" /\ ~IsSend(t)
    <2>1. call[t].pc = "failIfEmpty"
      BY <1>2 DEF Runs
    <2>2. call[t] \in Busy
      BY <1>1, <2>1, BusyOrIdle DEF QInv, QueueType
    <2> QED
      BY <2>1, <2>2 DEF QInv, Control, InCall
  <1>5. CASE uxMessagesWaiting = 0
    <2>1. Becomes(t, Idle) /\ Idle.pc # "place" /\ \A ops : Placing(ops)' => Placing(ops)
      BY <1>2, <1>5, ReturnIdle
    <2>2. t \notin About(Senders)
      BY <1>4, AboutIs DEF Ready, Senders, IsSend
    <2>3. /\ Cardinality(About(Receivers))' \in Nat
          /\ Cardinality(About(Senders))' \in Nat /\ Cardinality(About(Senders)) \in Nat
          /\ Cardinality(About(Senders)) <= Cardinality(About(Senders))'
      BY <1>3, <2>1, <2>2, AboutStays
    <2>4. WakeReceiver'
      BY <1>3, <1>5, <2>3, OwedNat DEF WakeReceiver
    <2>5. WakeSender'
      BY <1>3, <2>1, <2>3, OwedNat DEF WakeSender
    <2> QED
      BY <2>4, <2>5
  <1>6. CASE uxMessagesWaiting # 0
    <2>1. PICK c \in Busy : Becomes(t, c) /\ c.pc = "try" /\ c.op = call[t].op
      BY <1>1, <1>2, <1>6, GotoIs
    <2>2. \A ops : t \in About(ops) => Ready(t, ops)' /\ t \notin Listed'
      BY <1>3, <2>1, AboutIs DEF Ready, Becomes
    <2> QED
      BY <1>3, <2>1, <2>2, NobodyLooksAway
  <1> QED
    BY <1>5, <1>6

LEMMA TickWakes ==
    ASSUME QInv, WakeReceiver, WakeSender, NEW t \in Task, Tick(t)
    PROVE  WakeReceiver' /\ WakeSender'
  <1> DEFINE c == [call[t] EXCEPT !.expired = TRUE]
  <1>1. /\ suspended = Nobody /\ call[t].pc # "idle" /\ call' = [call EXCEPT ![t].expired = TRUE]
        /\ xTasksWaitingToSend' = Off(xTasksWaitingToSend, t)
        /\ xTasksWaitingToReceive' = Off(xTasksWaitingToReceive, t)
        /\ UNCHANGED <<data, locks>>
    BY DEF Tick
  <1>2. call[t] \in Busy
    BY <1>1, BusyOrIdle DEF QInv, QueueType
  <1>3. c \in Busy /\ c.pc = call[t].pc /\ c.op = call[t].op /\ c.then = call[t].then
    BY <1>2 DEF Busy
  <1>4. call' = [call EXCEPT ![t] = c]
    BY <1>1
  <1> HIDE DEF c
  <1>5. Becomes(t, c)
    BY <1>3, <1>4, CallBecomes DEF QInv, QueueType
  <1>6. c.pc # "place"
    BY <1>1, <1>3, QueueAssumption DEF QInv, Control, Inside, Nobody
  <1>7. /\ Range(xTasksWaitingToSend)' = Range(xTasksWaitingToSend) \ {t}
        /\ Range(xTasksWaitingToReceive)' = Range(xTasksWaitingToReceive) \ {t}
        /\ IsEventList(xTasksWaitingToSend') /\ IsEventList(xTasksWaitingToReceive')
    <2>1. IsEventList(xTasksWaitingToSend) /\ IsEventList(xTasksWaitingToReceive)
      BY DEF QInv, QueueType
    <2>2. /\ IsEventList(Off(xTasksWaitingToSend, t))
          /\ Range(Off(xTasksWaitingToSend, t)) = Range(xTasksWaitingToSend) \ {t}
          /\ IsEventList(Off(xTasksWaitingToReceive, t))
          /\ Range(Off(xTasksWaitingToReceive, t)) = Range(xTasksWaitingToReceive) \ {t}
      BY <2>1, OneLeaves
    <2>3. /\ Range(xTasksWaitingToSend)' = Range(Off(xTasksWaitingToSend, t))
          /\ Range(xTasksWaitingToReceive)' = Range(Off(xTasksWaitingToReceive, t))
      BY <1>1 DEF Range
    <2> QED
      BY <1>1, <2>2, <2>3
  <1>8. Listed' = Listed \ {t}
    BY <1>7 DEF Listed
  <1>9. /\ xTasksWaitingToReceive' # << >> => xTasksWaitingToReceive # << >>
        /\ xTasksWaitingToSend' # << >> => xTasksWaitingToSend # << >>
    <2>1. /\ xTasksWaitingToReceive = << >> <=> Range(xTasksWaitingToReceive) = {}
          /\ xTasksWaitingToSend = << >> <=> Range(xTasksWaitingToSend) = {}
      BY InList DEF QInv, QueueType, IsEventList
    <2>2. /\ xTasksWaitingToReceive' = << >> <=> Range(xTasksWaitingToReceive') = {}
          /\ xTasksWaitingToSend' = << >> <=> Range(xTasksWaitingToSend') = {}
      BY <1>7, InList DEF IsEventList
    <2>3. /\ Range(xTasksWaitingToReceive)' = Range(xTasksWaitingToReceive')
          /\ Range(xTasksWaitingToSend)' = Range(xTasksWaitingToSend')
      BY DEF Range
    <2> QED
      BY <1>7, <2>1, <2>2, <2>3
  <1>10. \A ops : t \in About(ops) => Ready(t, ops)' /\ t \notin Listed'
    <2>1. call'[t].pc = call[t].pc /\ call'[t].op = call[t].op /\ call'[t].then = call[t].then
      BY <1>3, <1>5 DEF Becomes
    <2> QED
      BY <1>8, <2>1, AboutIs DEF Ready
  <1>11. /\ OwedBy(cTxLock)' = OwedBy(cTxLock) /\ OwedBy(cRxLock)' = OwedBy(cRxLock)
         /\ UNCHANGED uxMessagesWaiting
    BY <1>1 DEF locks, OwedBy, data
  <1> QED
    BY <1>5, <1>6, <1>8, <1>9, <1>10, <1>11, NobodyLooksAway

(***************************************************************************)
(* Unlocking wakes as many as are owed, or all who wait.                   *)
(***************************************************************************)
LEMMA UnlockTxWakes ==
    ASSUME QInv, WakeReceiver, WakeSender, NEW t \in Task, UnlockTx(t)
    PROVE  WakeReceiver' /\ WakeSender'
  <1> DEFINE n == Owed(cTxLock, xTasksWaitingToReceive)
             w == Range(SubSeq(xTasksWaitingToReceive, 1, n))
  <1>1. "unlockTx" \in Inside /\ "unlockTx" # "idle" /\ "unlockRx" \in Pcs
    BY DEF Inside, Pcs
  <1>2. /\ Goto(t, "unlockRx") /\ Runs(t, "unlockTx") /\ Wake(w)
        /\ xTasksWaitingToReceive' = SubSeq(xTasksWaitingToReceive, n + 1, Len(xTasksWaitingToReceive))
        /\ cTxLock' = queueUNLOCKED
        /\ UNCHANGED <<data, cRxLock, xTasksWaitingToSend, suspended>>
    BY DEF UnlockTx
  <1>3. PICK c \in Busy : /\ Becomes(t, c) /\ c.pc = "unlockRx" /\ c.op = call[t].op
                          /\ c.then = call[t].then /\ call[t].pc = "unlockTx"
    BY <1>1, <1>2, GotoIs
  <1>4. suspended = t /\ t # Nobody
    BY <1>1, <1>2, RunnerInside
  <1>5. /\ IsEventList(xTasksWaitingToReceive) /\ xTasksWaitingToReceive \in Seq(Task)
        /\ cTxLock \in queueUNLOCKED .. LockMax
    BY DEF QInv, QueueType, IsEventList
  <1>6. cTxLock # queueUNLOCKED
    BY <1>3, <1>4 DEF QInv, Locking
  <1>7. /\ n \in 0 .. Len(xTasksWaitingToReceive)
        /\ n < Len(xTasksWaitingToReceive) => n = cTxLock
    BY <1>5, <1>6, OwedIs
  <1> HIDE DEF n
  <1>8. /\ w \subseteq Range(xTasksWaitingToReceive) /\ IsFiniteSet(w) /\ Cardinality(w) = n
        /\ Range(xTasksWaitingToReceive)' = Range(xTasksWaitingToReceive) \ w
        /\ xTasksWaitingToReceive' # << >> => n < Len(xTasksWaitingToReceive)
    <2>1. Range(xTasksWaitingToReceive)' = Range(xTasksWaitingToReceive')
      BY DEF Range
    <2> QED
      BY <2>1, <1>2, <1>5, <1>7, FirstLeave
  <1>9. xTasksWaitingToReceive' # << >> => xTasksWaitingToReceive # << >>
    <2>1. xTasksWaitingToReceive = << >> => Len(xTasksWaitingToReceive) = 0
      BY <1>5, InList
    <2> QED
      BY <1>7, <1>8, <2>1
  <1> HIDE DEF w
  <1>10. /\ Listed' = Listed \ w /\ w \subseteq Listed /\ w \subseteq Task
         /\ \A u \in w : Ready(u, Receivers)
    BY <1>2, <1>8, WakeReceivers, WaiterReady, ListsApart
  <1>11. call'[t].pc = "unlockRx" /\ call'[t].op = call[t].op /\ call'[t].then = call[t].then
    BY <1>3 DEF Becomes
  <1>12. \A ops : Ready(t, ops) => Ready(t, ops)'
    BY <1>3, <1>11 DEF Ready
  <1>13. \A ops : Placing(ops)' => Placing(ops)
    BY <1>3, PlacingMoves
  <1>14. WakeReceiver'
    <2>1. \A ops : ~ Placing(ops)
      BY <1>3, <1>4, <1>6 DEF Placing, QInv, Control, Inside
    <2> SUFFICES ASSUME xTasksWaitingToReceive' # << >>
                 PROVE  uxMessagesWaiting' <= Cardinality(About(Receivers))' + OwedBy(cTxLock)'
      BY <1>13, <2>1 DEF WakeReceiver
    <2>2. uxMessagesWaiting <= Cardinality(About(Receivers)) + OwedBy(cTxLock)
      BY <1>9 DEF WakeReceiver
    <2>3. OwedBy(cTxLock) <= n
      BY <1>5, <1>7, <1>8, QueueAssumption DEF OwedBy, queueUNLOCKED
    <2>4. t \in About(Receivers) => Ready(t, Receivers)' /\ t \notin Listed'
      BY <1>10, <1>12, AboutIs
    <2>5. w \cap Listed' = {} /\ Listed' \subseteq Listed \cup {t} /\ (t \in w => Ready(t, Receivers)')
      BY <1>10, <1>12
    <2>6. /\ Cardinality(About(Receivers)) \in Nat /\ Cardinality(About(Receivers))' \in Nat
          /\ Cardinality(About(Receivers)) + Cardinality(w) <= Cardinality(About(Receivers))'
      BY <1>3, <1>8, <1>10, <2>4, <2>5, AboutAfter
    <2>7. OwedBy(cTxLock)' = 0 /\ uxMessagesWaiting' = uxMessagesWaiting
      BY <1>2 DEF OwedBy, queueUNLOCKED, data
    <2>8. n \in Nat
      BY <1>7
    <2> QED
      BY <1>8, <2>2, <2>3, <2>6, <2>7, <2>8, OwedNat
  <1>15. WakeSender'
    <2>1. t \in About(Senders) => Ready(t, Senders)' /\ t \notin Listed'
      BY <1>10, <1>12, AboutIs
    <2>2. /\ Cardinality(About(Senders)) \in Nat /\ Cardinality(About(Senders))' \in Nat
          /\ Cardinality(About(Senders)) <= Cardinality(About(Senders))'
      BY <1>3, <1>10, <2>1, AboutStays
    <2>3. OwedBy(cRxLock)' = OwedBy(cRxLock) /\ uxMessagesWaiting' = uxMessagesWaiting
          /\ xTasksWaitingToSend' = xTasksWaitingToSend
      BY <1>2 DEF OwedBy, data
    <2> QED
      BY <1>13, <2>2, <2>3, OwedNat DEF WakeSender
  <1> QED
    BY <1>14, <1>15

LEMMA UnlockRxWakes ==
    ASSUME QInv, WakeReceiver, WakeSender, NEW t \in Task, UnlockRx(t)
    PROVE  WakeReceiver' /\ WakeSender'
  <1> DEFINE n == Owed(cRxLock, xTasksWaitingToSend)
             w == Range(SubSeq(xTasksWaitingToSend, 1, n))
  <1>1. "unlockRx" \in Inside /\ "unlockRx" # "idle" /\ "resume" \in Pcs
    BY DEF Inside, Pcs
  <1>2. /\ Goto(t, "resume") /\ Runs(t, "unlockRx") /\ Wake(w)
        /\ xTasksWaitingToSend' = SubSeq(xTasksWaitingToSend, n + 1, Len(xTasksWaitingToSend))
        /\ cRxLock' = queueUNLOCKED
        /\ UNCHANGED <<data, cTxLock, xTasksWaitingToReceive, suspended>>
    BY DEF UnlockRx
  <1>3. PICK c \in Busy : /\ Becomes(t, c) /\ c.pc = "resume" /\ c.op = call[t].op
                          /\ c.then = call[t].then /\ call[t].pc = "unlockRx"
    BY <1>1, <1>2, GotoIs
  <1>4. suspended = t /\ t # Nobody
    BY <1>1, <1>2, RunnerInside
  <1>5. /\ IsEventList(xTasksWaitingToSend) /\ xTasksWaitingToSend \in Seq(Task)
        /\ cRxLock \in queueUNLOCKED .. LockMax
    BY DEF QInv, QueueType, IsEventList
  <1>6. cRxLock # queueUNLOCKED
    BY <1>3, <1>4 DEF QInv, Locking
  <1>7. /\ n \in 0 .. Len(xTasksWaitingToSend)
        /\ n < Len(xTasksWaitingToSend) => n = cRxLock
    BY <1>5, <1>6, OwedIs
  <1> HIDE DEF n
  <1>8. /\ w \subseteq Range(xTasksWaitingToSend) /\ IsFiniteSet(w) /\ Cardinality(w) = n
        /\ Range(xTasksWaitingToSend)' = Range(xTasksWaitingToSend) \ w
        /\ xTasksWaitingToSend' # << >> => n < Len(xTasksWaitingToSend)
    <2>1. Range(xTasksWaitingToSend)' = Range(xTasksWaitingToSend')
      BY DEF Range
    <2> QED
      BY <2>1, <1>2, <1>5, <1>7, FirstLeave
  <1>9. xTasksWaitingToSend' # << >> => xTasksWaitingToSend # << >>
    <2>1. xTasksWaitingToSend = << >> => Len(xTasksWaitingToSend) = 0
      BY <1>5, InList
    <2> QED
      BY <1>7, <1>8, <2>1
  <1> HIDE DEF w
  <1>10. /\ Listed' = Listed \ w /\ w \subseteq Listed /\ w \subseteq Task
         /\ \A u \in w : Ready(u, Senders)
    BY <1>2, <1>8, WakeSenders, WaiterReady, ListsApart
  <1>11. call'[t].pc = "resume" /\ call'[t].op = call[t].op /\ call'[t].then = call[t].then
    BY <1>3 DEF Becomes
  <1>12. \A ops : Ready(t, ops) => Ready(t, ops)'
    BY <1>3, <1>11 DEF Ready
  <1>13. \A ops : Placing(ops)' => Placing(ops)
    BY <1>3, PlacingMoves
  <1>14. WakeSender'
    <2>1. \A ops : ~ Placing(ops)
      BY <1>3, <1>4 DEF Placing, QInv, Control, Inside
    <2> SUFFICES ASSUME xTasksWaitingToSend' # << >>
                 PROVE  uxLength - uxMessagesWaiting' <= Cardinality(About(Senders))' + OwedBy(cRxLock)'
      BY <1>13, <2>1 DEF WakeSender
    <2>2. uxLength - uxMessagesWaiting <= Cardinality(About(Senders)) + OwedBy(cRxLock)
      BY <1>9 DEF WakeSender
    <2>3. OwedBy(cRxLock) <= n
      BY <1>5, <1>7, <1>8, QueueAssumption DEF OwedBy, queueUNLOCKED
    <2>4. t \in About(Senders) => Ready(t, Senders)' /\ t \notin Listed'
      BY <1>10, <1>12, AboutIs
    <2>5. w \cap Listed' = {} /\ Listed' \subseteq Listed \cup {t} /\ (t \in w => Ready(t, Senders)')
      BY <1>10, <1>12
    <2>6. /\ Cardinality(About(Senders)) \in Nat /\ Cardinality(About(Senders))' \in Nat
          /\ Cardinality(About(Senders)) + Cardinality(w) <= Cardinality(About(Senders))'
      BY <1>3, <1>8, <1>10, <2>4, <2>5, AboutAfter
    <2>7. OwedBy(cRxLock)' = 0 /\ uxMessagesWaiting' = uxMessagesWaiting
      BY <1>2 DEF OwedBy, queueUNLOCKED, data
    <2>8. n \in Nat
      BY <1>7
    <2> QED
      BY <1>8, <2>2, <2>3, <2>6, <2>7, <2>8, OwedNat
  <1>15. WakeReceiver'
    <2>1. t \in About(Receivers) => Ready(t, Receivers)' /\ t \notin Listed'
      BY <1>10, <1>12, AboutIs
    <2>2. /\ Cardinality(About(Receivers)) \in Nat /\ Cardinality(About(Receivers))' \in Nat
          /\ Cardinality(About(Receivers)) <= Cardinality(About(Receivers))'
      BY <1>3, <1>10, <2>1, AboutStays
    <2>3. OwedBy(cTxLock)' = OwedBy(cTxLock) /\ uxMessagesWaiting' = uxMessagesWaiting
          /\ xTasksWaitingToReceive' = xTasksWaitingToReceive
      BY <1>2 DEF OwedBy, data
    <2> QED
      BY <1>13, <2>2, <2>3, OwedNat DEF WakeReceiver
  <1> QED
    BY <1>14, <1>15

(***************************************************************************)
(* Interrupts wake one waiter, or count what they did.                     *)
(***************************************************************************)
LEMMA SendFromISRWakes ==
    ASSUME QInv, WakeReceiver, WakeSender, NEW s \in IsrSends, SendFromISR(s)
    PROVE  WakeReceiver' /\ WakeSender'
  <1>1. /\ Roomy(s.pos) /\ CopyDataToQueue(s.item, s.pos)
        /\ UNCHANGED <<cRxLock, xTasksWaitingToSend, suspended, call>>
    BY DEF SendFromISR
  <1>2. s.pos = "overwrite" => uxLength = 1
    BY CallAssumption
  <1>3. /\ uxMessagesWaiting' \in Nat /\ uxMessagesWaiting' <= uxMessagesWaiting + 1
        /\ uxMessagesWaiting' >= uxMessagesWaiting
    BY <1>1, OwedNat DEF CopyDataToQueue
  <1>4. OwedBy(cRxLock)' = OwedBy(cRxLock) /\ \A ops : Placing(ops)' <=> Placing(ops)
    BY <1>1 DEF OwedBy, Placing
  <1>5. /\ Listed' \subseteq Listed
        /\ xTasksWaitingToReceive' # << >> => xTasksWaitingToReceive # << >>
        /\ xTasksWaitingToReceive' # << >> \/ Placing(Receivers) =>
             \/ OwedBy(cTxLock)' = OwedBy(cTxLock) + 1
             \/ /\ OwedBy(cTxLock)' = OwedBy(cTxLock)
                /\ \E h \in Listed : h \in Task /\ h \notin Listed' /\ Ready(h, Receivers)
    <2>1. CASE cTxLock = queueUNLOCKED
      <3>1. /\ Wake(Woken(xTasksWaitingToReceive))
            /\ xTasksWaitingToReceive' = Rest(xTasksWaitingToReceive) /\ cTxLock' = cTxLock
        BY <2>1 DEF SendFromISR
      <3>2. ~ Placing(Receivers)
        BY <2>1, NonePlacing
      <3>3. OwedBy(cTxLock)' = OwedBy(cTxLock)
        BY <3>1 DEF OwedBy
      <3> QED
        BY <1>1, <3>1, <3>2, <3>3, ReceiverWoken
    <2>2. CASE cTxLock # queueUNLOCKED
      <3>1. cTxLock' = cTxLock + 1 /\ xTasksWaitingToReceive' = xTasksWaitingToReceive
        BY <2>2 DEF SendFromISR
      <3>2. cTxLock \in 0 .. LockMax
        BY <2>2, QueueAssumption DEF QInv, QueueType, queueUNLOCKED
      <3>3. OwedBy(cTxLock)' = OwedBy(cTxLock) + 1
        BY <3>1, <3>2, QueueAssumption DEF OwedBy
      <3>4. Listed' = Listed
        BY <1>1, <3>1 DEF Listed, Range
      <3> QED
        BY <3>1, <3>3, <3>4
    <2> QED
      BY <2>1, <2>2
  <1>6. WakeReceiver'
    <2> SUFFICES ASSUME xTasksWaitingToReceive' # << >> \/ Placing(Receivers)
                 PROVE  uxMessagesWaiting' <= Cardinality(About(Receivers))' + OwedBy(cTxLock)'
      BY <1>4 DEF WakeReceiver
    <2>1. uxMessagesWaiting <= Cardinality(About(Receivers)) + OwedBy(cTxLock)
      BY <1>5 DEF WakeReceiver
    <2>2. /\ Cardinality(About(Receivers)) \in Nat /\ Cardinality(About(Receivers))' \in Nat
          /\ Cardinality(About(Receivers)) <= Cardinality(About(Receivers))'
          /\ \A h \in Listed : h \in Task /\ h \notin Listed' /\ Ready(h, Receivers) =>
                Cardinality(About(Receivers)) + 1 <= Cardinality(About(Receivers))'
      BY <1>1, <1>5, AboutIsr
    <2>3. CASE OwedBy(cTxLock)' = OwedBy(cTxLock) + 1
      BY <1>3, <2>1, <2>2, <2>3, OwedNat
    <2>4. CASE /\ OwedBy(cTxLock)' = OwedBy(cTxLock)
               /\ \E h \in Listed : h \in Task /\ h \notin Listed' /\ Ready(h, Receivers)
      <3>1. Cardinality(About(Receivers)) + 1 <= Cardinality(About(Receivers))'
        BY <2>2, <2>4
      <3> QED
        BY <1>3, <2>1, <2>2, <2>4, <3>1, OwedNat
    <2> QED
      BY <1>5, <2>3, <2>4
  <1>7. WakeSender'
    <2>1. /\ Cardinality(About(Senders)) \in Nat /\ Cardinality(About(Senders))' \in Nat
          /\ Cardinality(About(Senders)) <= Cardinality(About(Senders))'
      BY <1>1, <1>5, AboutIsr
    <2>2. xTasksWaitingToSend' = xTasksWaitingToSend
      BY <1>1
    <2> QED
      BY <1>3, <1>4, <2>1, <2>2, OwedNat DEF WakeSender
  <1> QED
    BY <1>6, <1>7

LEMMA ReceiveFromISRWakes ==
    ASSUME QInv, WakeReceiver, WakeSender, ReceiveFromISR
    PROVE  WakeReceiver' /\ WakeSender'
  <1>1. /\ uxMessagesWaiting > 0 /\ uxMessagesWaiting' = uxMessagesWaiting - 1
        /\ UNCHANGED <<cTxLock, xTasksWaitingToReceive, suspended, call>>
    BY DEF ReceiveFromISR, Take
  <1>4. OwedBy(cTxLock)' = OwedBy(cTxLock) /\ \A ops : Placing(ops)' <=> Placing(ops)
    BY <1>1 DEF OwedBy, Placing
  <1>5. /\ Listed' \subseteq Listed
        /\ xTasksWaitingToSend' # << >> => xTasksWaitingToSend # << >>
        /\ xTasksWaitingToSend' # << >> \/ Placing(Senders) =>
             \/ OwedBy(cRxLock)' = OwedBy(cRxLock) + 1
             \/ /\ OwedBy(cRxLock)' = OwedBy(cRxLock)
                /\ \E h \in Listed : h \in Task /\ h \notin Listed' /\ Ready(h, Senders)
    <2>1. CASE cRxLock = queueUNLOCKED
      <3>1. /\ Wake(Woken(xTasksWaitingToSend))
            /\ xTasksWaitingToSend' = Rest(xTasksWaitingToSend) /\ cRxLock' = cRxLock
        BY <2>1 DEF ReceiveFromISR
      <3>2. ~ Placing(Senders)
        BY <2>1, NonePlacing
      <3>3. OwedBy(cRxLock)' = OwedBy(cRxLock)
        BY <3>1 DEF OwedBy
      <3> QED
        BY <1>1, <3>1, <3>2, <3>3, SenderWoken
    <2>2. CASE cRxLock # queueUNLOCKED
      <3>1. cRxLock' = cRxLock + 1 /\ xTasksWaitingToSend' = xTasksWaitingToSend
        BY <2>2 DEF ReceiveFromISR
      <3>2. cRxLock \in 0 .. LockMax
        BY <2>2, QueueAssumption DEF QInv, QueueType, queueUNLOCKED
      <3>3. OwedBy(cRxLock)' = OwedBy(cRxLock) + 1
        BY <3>1, <3>2, QueueAssumption DEF OwedBy
      <3>4. Listed' = Listed
        BY <1>1, <3>1 DEF Listed, Range
      <3> QED
        BY <3>1, <3>3, <3>4
    <2> QED
      BY <2>1, <2>2
  <1>6. WakeSender'
    <2> SUFFICES ASSUME xTasksWaitingToSend' # << >> \/ Placing(Senders)
                 PROVE  uxLength - uxMessagesWaiting' <= Cardinality(About(Senders))' + OwedBy(cRxLock)'
      BY <1>4 DEF WakeSender
    <2>1. uxLength - uxMessagesWaiting <= Cardinality(About(Senders)) + OwedBy(cRxLock)
      BY <1>5 DEF WakeSender
    <2>2. /\ Cardinality(About(Senders)) \in Nat /\ Cardinality(About(Senders))' \in Nat
          /\ Cardinality(About(Senders)) <= Cardinality(About(Senders))'
          /\ \A h \in Listed : h \in Task /\ h \notin Listed' /\ Ready(h, Senders) =>
                Cardinality(About(Senders)) + 1 <= Cardinality(About(Senders))'
      BY <1>1, <1>5, AboutIsr
    <2>3. CASE OwedBy(cRxLock)' = OwedBy(cRxLock) + 1
      BY <1>1, <2>1, <2>2, <2>3, OwedNat
    <2>4. CASE /\ OwedBy(cRxLock)' = OwedBy(cRxLock)
               /\ \E h \in Listed : h \in Task /\ h \notin Listed' /\ Ready(h, Senders)
      <3>1. Cardinality(About(Senders)) + 1 <= Cardinality(About(Senders))'
        BY <2>2, <2>4
      <3> QED
        BY <1>1, <2>1, <2>2, <2>4, <3>1, OwedNat
    <2> QED
      BY <1>5, <2>3, <2>4
  <1>7. WakeReceiver'
    <2>1. /\ Cardinality(About(Receivers)) \in Nat /\ Cardinality(About(Receivers))' \in Nat
          /\ Cardinality(About(Receivers)) <= Cardinality(About(Receivers))'
      BY <1>1, <1>5, AboutIsr
    <2>2. xTasksWaitingToReceive' = xTasksWaitingToReceive
      BY <1>1
    <2> QED
      BY <1>1, <1>4, <2>1, <2>2, OwedNat DEF WakeReceiver
  <1> QED
    BY <1>6, <1>7

(***************************************************************************)
(* A call is one of those its task makes.                                  *)
(***************************************************************************)
NoResets == \A t \in Task : call[t].op # "reset"

LEMMA ResetsComeFromCalls ==
    ASSUME QInv, NoResets, \A t \in Task : \A c \in Calls[t] : c.op # "reset", [Next]_vars
    PROVE  NoResets'
  <1>1. Idle.op = "none"
    BY DEF Idle
  <1>2. ASSUME NEW t \in Task, NEW c, call' = [call EXCEPT ![t] = c], c.op # "reset" PROVE NoResets'
    BY <1>2 DEF NoResets, QInv, QueueType
  <1>3. ASSUME NEW t \in Task, Return(t) PROVE NoResets'
    BY <1>1, <1>2, <1>3 DEF Return
  <1>4. ASSUME NEW t \in Task, NEW c \in Busy \cup {Idle}, Becomes(t, c), c.op = call[t].op \/ c = Idle
        PROVE  NoResets'
    BY <1>1, <1>4 DEF NoResets, Becomes
  <1>5. ASSUME NEW t \in Task, NEW pc, Goto(t, pc) PROVE NoResets'
    <2>1. \A u \in Task : call'[u].op = call[u].op
      <3> SUFFICES ASSUME NEW u \in Task PROVE call'[u].op = call[u].op
        OBVIOUS
      <3>1. call[t] \in Busy \cup {Idle} /\ call' = [call EXCEPT ![t] = [call[t] EXCEPT !.pc = pc]]
        BY <1>5 DEF Goto, QInv, QueueType
      <3>2. [call[t] EXCEPT !.pc = pc].op = call[t].op
        BY <3>1 DEF Busy, Idle
      <3> QED
        BY <3>1, <3>2 DEF QInv, QueueType
    <2> QED
      BY <2>1 DEF NoResets
  <1>6. ASSUME call' = call PROVE NoResets'
    BY <1>6 DEF NoResets
  <1>7. ASSUME NEW t \in Task, NEW c \in Calls[t], Enter(t, c) PROVE NoResets'
    <2> DEFINE r == [op |-> c.op, pos |-> c.pos, item |-> c.item, ticks |-> c.ticks,
                     pc |-> "try", expired |-> FALSE, entered |-> FALSE, then |-> "try"]
    <2>1. call' = [call EXCEPT ![t] = r] /\ r.op # "reset"
      BY <1>7 DEF Enter
    <2> HIDE DEF r
    <2> QED
      BY <1>2, <2>1
  <1>8. ASSUME NEW t \in Task, Served(t) PROVE NoResets'
    BY <1>3, <1>8 DEF Served, Send, Receive, Peek, Reset
  <1>9. ASSUME NEW t \in Task, NEW new, call' = [call EXCEPT ![t] = new],
               call[t] \in Busy, new.op = call[t].op
        PROVE  NoResets'
    BY <1>2, <1>9 DEF NoResets
  <1>10. ASSUME NEW t \in Task, call[t].pc # "idle" PROVE call[t] \in Busy
    BY <1>10, BusyOrIdle DEF QInv, QueueType
  <1>11. ASSUME NEW t \in Task, Unserved(t) PROVE NoResets'
    <2>1. CASE Return(t)
      BY <2>1, <1>3
    <2>2. CASE call' = [call EXCEPT ![t].pc = "suspend", ![t].entered = TRUE]
      <3>1. call[t] \in Busy
        BY <1>10, <1>11 DEF Unserved, Runs
      <3>2. [call[t] EXCEPT !.pc = "suspend", !.entered = TRUE].op = call[t].op
        BY <3>1 DEF Busy
      <3>3. call' = [call EXCEPT ![t] = [call[t] EXCEPT !.pc = "suspend", !.entered = TRUE]]
        BY <2>2
      <3> QED
        BY <1>9, <3>1, <3>2, <3>3
    <2> QED
      BY <1>11, <2>1, <2>2 DEF Unserved
  <1>12. ASSUME NEW t \in Task, CheckForTimeOut(t) PROVE NoResets'
    <2> DEFINE pc == IF call[t].expired THEN "unlockTx" ELSE "test"
               then == IF ~call[t].expired THEN "try" ELSE IF IsSend(t) THEN "fail" ELSE "failIfEmpty"
    <2>1. call[t] \in Busy
      BY <1>10, <1>12 DEF CheckForTimeOut, Runs
    <2>2. call' = [call EXCEPT ![t] = [call[t] EXCEPT !.pc = pc, !.then = then]]
      BY <1>12 DEF CheckForTimeOut
    <2> HIDE DEF pc, then
    <2>3. [call[t] EXCEPT !.pc = pc, !.then = then].op = call[t].op
      BY <2>1 DEF Busy
    <2> QED
      BY <1>9, <2>1, <2>2, <2>3
  <1>13. ASSUME NEW t \in Task, Tick(t) PROVE NoResets'
    <2>1. call[t] \in Busy
      BY <1>10, <1>13 DEF Tick
    <2>2. call' = [call EXCEPT ![t] = [call[t] EXCEPT !.expired = TRUE]]
      BY <1>13 DEF Tick
    <2>3. [call[t] EXCEPT !.expired = TRUE].op = call[t].op
      BY <2>1 DEF Busy
    <2> QED
      BY <1>9, <2>1, <2>2, <2>3
  <1>14. ASSUME NEW t \in Task,
                SuspendAll(t) \/ LockQueue(t) \/ Test(t) \/ Place(t) \/ UnlockTx(t) \/ UnlockRx(t)
         PROVE  NoResets'
    BY <1>5, <1>14 DEF SuspendAll, LockQueue, Test, Place, UnlockTx, UnlockRx
  <1>15. ASSUME NEW t \in Task, ResumeAll(t) \/ FailIfEmpty(t) PROVE NoResets'
    BY <1>3, <1>5, <1>15 DEF ResumeAll, FailIfEmpty, AfterResume
  <1>16. ASSUME NEW t \in Task, Step(t) PROVE NoResets'
    BY <1>8, <1>11, <1>12, <1>14, <1>15, <1>16 DEF Step
  <1>17. ASSUME (\E s \in IsrSends : SendFromISR(s)) \/ ReceiveFromISR \/ UNCHANGED vars PROVE NoResets'
    BY <1>6, <1>17 DEF SendFromISR, ReceiveFromISR, vars
  <1> QED
    BY <1>7, <1>13, <1>16, <1>17 DEF Next

LEMMA InitWakes == Init => WakeReceiver /\ WakeSender /\ NoResets
  <1>1. Idle.pc = "idle" /\ Idle.op = "none"
    BY DEF Idle
  <1> QED
    BY <1>1 DEF Init, WakeReceiver, WakeSender, NoResets, Placing

LEMMA NextWakes ==
    ASSUME QInv, WakeReceiver, WakeSender, uxLength = 1 \/ NoResets, [Next]_vars
    PROVE  WakeReceiver' /\ WakeSender'
  <1>1. ASSUME NEW t \in Task, Reset(t) PROVE WakeReceiver' /\ WakeSender'
    <2>1. uxLength = 1
      BY <1>1 DEF NoResets, Reset
    <2> QED
      BY <1>1, <2>1, ResetWakes
  <1>2. ASSUME NEW t \in Task, Step(t) PROVE WakeReceiver' /\ WakeSender'
    BY <1>1, <1>2, SendWakes, ReceiveWakes, PeekWakes, UnservedWakes, SuspendAllWakes, LockQueueWakes,
       CheckForTimeOutWakes, TestWakes, PlaceWakes, UnlockTxWakes, UnlockRxWakes, ResumeAllWakes,
       FailIfEmptyWakes DEF Step, Served
  <1>3. CASE UNCHANGED vars
    BY <1>3 DEF vars, data, locks, waiting, sched, WakeReceiver, WakeSender, Placing, About, Listed,
       Range, OwedBy
  <1>4. ASSUME NEW t \in Task, Tick(t) PROVE WakeReceiver' /\ WakeSender'
    BY <1>4, TickWakes
  <1>5. ASSUME NEW t \in Task, NEW c \in Calls[t], Enter(t, c) PROVE WakeReceiver' /\ WakeSender'
    BY <1>5, EnterWakes
  <1>6. ASSUME NEW s \in IsrSends, SendFromISR(s) PROVE WakeReceiver' /\ WakeSender'
    BY <1>6, SendFromISRWakes
  <1>7. CASE ReceiveFromISR
    BY <1>7, ReceiveFromISRWakes
  <1> QED
    BY <1>2, <1>3, <1>4, <1>5, <1>6, <1>7 DEF Next

(***************************************************************************)
(* No wakeup is lost (prvUnlockQueue and every place that takes a waiter   *)
(* off an event list), unless a queue of more than one place is reset:     *)
(* xQueueGenericReset frees every place and wakes one sender (line 278).   *)
(***************************************************************************)
THEOREM WakeupsAreKept ==
    ASSUME uxLength = 1 \/ \A t \in Task : \A c \in Calls[t] : c.op # "reset"
    PROVE  Spec => []NoLostWakeup
  <1> DEFINE Kept == QInv /\ WakeReceiver /\ WakeSender /\ NoResets
             Kept1 == QInv /\ WakeReceiver /\ WakeSender
  <1>1. Kept1 => NoLostWakeup
    BY DEF WakeReceiver, WakeSender, NoLostWakeup, Receivers, Senders
  <1>2. CASE uxLength = 1
    <2>1. Init => Kept1
      BY InitQ, InitWakes
    <2>2. Kept1 /\ [Next]_vars => Kept1'
      BY <1>2, NextQ, NextWakes
    <2> QED
      BY <1>1, <2>1, <2>2, PTL DEF Spec
  <1>3. CASE \A t \in Task : \A c \in Calls[t] : c.op # "reset"
    <2>1. Init => Kept
      BY InitQ, InitWakes
    <2>2. Kept /\ [Next]_vars => Kept'
      BY <1>3, NextQ, NextWakes, ResetsComeFromCalls
    <2> QED
      BY <1>1, <2>1, <2>2, PTL DEF Spec
  <1> QED
    BY <1>2, <1>3

-----------------------------------------------------------------------------
(***************************************************************************)
(* Who waits keeps its place.                                              *)
(***************************************************************************)
LEMMA StepsKeepOrder ==
    ASSUME QInv, [Next]_vars
    PROVE  /\ Keeps(xTasksWaitingToSend, xTasksWaitingToSend')
           /\ Keeps(xTasksWaitingToReceive, xTasksWaitingToReceive')
  <1> DEFINE S == xTasksWaitingToSend
             R == xTasksWaitingToReceive
             Both == Keeps(S, S') /\ Keeps(R, R')
  <1>1. /\ IsEventList(S) /\ IsEventList(R)
        /\ cTxLock \in queueUNLOCKED .. LockMax /\ cRxLock \in queueUNLOCKED .. LockMax
    BY DEF QInv, QueueType
  <1>2. \A l : Keeps(l, l)
    BY DEF Keeps
  <1>3. Keeps(S, Rest(S)) /\ Keeps(R, Rest(R))
    BY <1>1, HeadLeaves
  <1> HIDE DEF S, R
  <1>4. ASSUME S' \in {S, Rest(S)}, R' \in {R, Rest(R)} PROVE Both
    BY <1>2, <1>3, <1>4
  <1>5. ASSUME NEW t \in Task, Step(t) PROVE Both
    <2>1. CASE Served(t)
      BY <1>4, <2>1 DEF Served, Send, Receive, Peek, Reset, S, R
    <2>2. CASE \/ Unserved(t) \/ SuspendAll(t) \/ LockQueue(t) \/ CheckForTimeOut(t) \/ Test(t)
               \/ ResumeAll(t) \/ FailIfEmpty(t)
      <3>1. S' = S /\ R' = R
        BY <2>2 DEF Unserved, SuspendAll, LockQueue, CheckForTimeOut, Test, ResumeAll, FailIfEmpty,
           waiting, S, R
      <3> QED
        BY <1>4, <3>1
    <2>3. CASE Place(t)
      <3>1. t \notin Listed
        BY <2>3, RunnerNotBlocked DEF Place
      <3>2. Keeps(S, PutInOrder(S, t)) /\ Keeps(R, PutInOrder(R, t))
        BY <1>1, <3>1, OneIsPut DEF Listed, S, R
      <3>3. S' \in {S, PutInOrder(S, t)} /\ R' \in {R, PutInOrder(R, t)}
        BY <2>3 DEF Place, S, R
      <3> QED
        BY <1>2, <3>2, <3>3
    <2>4. CASE UnlockTx(t)
      <3> DEFINE n == Owed(cTxLock, R)
      <3>1. S' = S /\ R' = SubSeq(R, n + 1, Len(R))
        BY <2>4 DEF UnlockTx, S, R
      <3>2. suspended = t /\ t # Nobody /\ call[t].pc = "unlockTx"
        BY <2>4, RunnerInside DEF UnlockTx, Runs, Inside
      <3>3. cTxLock # queueUNLOCKED
        BY <3>2 DEF QInv, Locking
      <3>4. n \in 0 .. Len(R)
        BY <1>1, <3>3, OwedIs DEF IsEventList
      <3> HIDE DEF n
      <3>5. Keeps(R, SubSeq(R, n + 1, Len(R)))
        BY <1>1, <3>4, FirstLeave
      <3> QED
        BY <1>2, <3>1, <3>5
    <2>5. CASE UnlockRx(t)
      <3> DEFINE n == Owed(cRxLock, S)
      <3>1. R' = R /\ S' = SubSeq(S, n + 1, Len(S))
        BY <2>5 DEF UnlockRx, S, R
      <3>2. suspended = t /\ t # Nobody /\ call[t].pc = "unlockRx"
        BY <2>5, RunnerInside DEF UnlockRx, Runs, Inside
      <3>3. cRxLock # queueUNLOCKED
        BY <3>2 DEF QInv, Locking
      <3>4. n \in 0 .. Len(S)
        BY <1>1, <3>3, OwedIs DEF IsEventList
      <3> HIDE DEF n
      <3>5. Keeps(S, SubSeq(S, n + 1, Len(S)))
        BY <1>1, <3>4, FirstLeave
      <3> QED
        BY <1>2, <3>1, <3>5
    <2> QED
      BY <1>5, <2>1, <2>2, <2>3, <2>4, <2>5 DEF Step
  <1>6. ASSUME NEW t \in Task, Tick(t) PROVE Both
    <2>1. S' = Off(S, t) /\ R' = Off(R, t)
      BY <1>6 DEF Tick, S, R
    <2>2. Keeps(S, Off(S, t)) /\ Keeps(R, Off(R, t))
      BY <1>1, OneLeaves
    <2> QED
      BY <2>1, <2>2
  <1>7. ASSUME NEW t \in Task, NEW c \in Calls[t], Enter(t, c) PROVE Both
    <2>1. S' = S /\ R' = R
      BY <1>7 DEF Enter, waiting, S, R
    <2> QED
      BY <1>4, <2>1
  <1>8. ASSUME NEW s \in IsrSends, SendFromISR(s) PROVE Both
    BY <1>4, <1>8 DEF SendFromISR, S, R
  <1>9. ASSUME ReceiveFromISR PROVE Both
    BY <1>4, <1>9 DEF ReceiveFromISR, S, R
  <1>10. ASSUME UNCHANGED vars PROVE Both
    <2>1. S' = S /\ R' = R
      BY <1>10 DEF vars, waiting, S, R
    <2> QED
      BY <1>4, <2>1
  <1> QED
    BY <1>5, <1>6, <1>7, <1>8, <1>9, <1>10 DEF Next, S, R

(***************************************************************************)
(* The first to be woken is one of the highest priority that wait, and     *)
(* among equals the one that has waited longest, through ticks, unlocking  *)
(* and whatever interrupts do (vListInsert, uxListRemove).                 *)
(***************************************************************************)
THEOREM WaitersKeepTheirPlaces == Spec => FirstComeFirstServed
  <1> DEFINE Fair ==
        \A list \in {<<xTasksWaitingToSend, xTasksWaitingToSend'>>,
                     <<xTasksWaitingToReceive, xTasksWaitingToReceive'>>} :
          /\ InOrder(list[2])
          /\ \A t, u \in Range(list[1]) \cap Range(list[2]) :
               (\E i, j \in DOMAIN list[1] : i < j /\ list[1][i] = t /\ list[1][j] = u) =>
               (\E i, j \in DOMAIN list[2] : i < j /\ list[2][i] = t /\ list[2][j] = u)
  <1>1. QInv /\ [Next]_vars => Fair
    <2> SUFFICES ASSUME QInv, [Next]_vars PROVE Fair
      OBVIOUS
    <2>1. InOrder(xTasksWaitingToSend') /\ InOrder(xTasksWaitingToReceive')
      BY NextQ DEF QInv, QueueType, IsEventList
    <2>2. /\ Keeps(xTasksWaitingToSend, xTasksWaitingToSend')
          /\ Keeps(xTasksWaitingToReceive, xTasksWaitingToReceive')
      BY StepsKeepOrder
    <2>3. ASSUME NEW old, NEW new, InOrder(new), Keeps(old, new), NEW list, list = <<old, new>>
          PROVE  /\ InOrder(list[2])
                 /\ \A t, u \in Range(list[1]) \cap Range(list[2]) :
                      (\E i, j \in DOMAIN list[1] : i < j /\ list[1][i] = t /\ list[1][j] = u) =>
                      (\E i, j \in DOMAIN list[2] : i < j /\ list[2][i] = t /\ list[2][j] = u)
      <3>1. list[1] = old /\ list[2] = new
        BY <2>3
      <3> QED
        BY <2>3, <3>1 DEF Keeps, Before
    <2> QED
      BY <2>1, <2>2, <2>3
  <1>2. QInv /\ [Next]_vars => [Fair]_vars
    BY <1>1
  <1> QED
    BY <1>2, InitQ, NextQ, PTL DEF Spec, FirstComeFirstServed


-----------------------------------------------------------------------------
(***************************************************************************)
(* The ring of Queue is a bounded queue (BoundedQueue), for every length   *)
(* of the queue and all calls: the initial states map to initial states,   *)
(* and every step to a step or to none.                                    *)
(***************************************************************************)

(***************************************************************************)
(* The two pointers are as far apart as there are items.                   *)
(***************************************************************************)
PointersMeet == pcWriteTo = Next1((pcReadFrom + uxMessagesWaiting) % uxLength)

-----------------------------------------------------------------------------
(***************************************************************************)
(* The ring.  Of n items behind position rf, the i-th is in cell Cell(rf,  *)
(* i), and all of them are in different cells.                             *)
(***************************************************************************)
Ring(s, rf, n) == [i \in 1 .. n |-> s[(rf + i) % uxLength]]

Cell(rf, i) == IF rf + i < uxLength THEN rf + i ELSE rf + i - uxLength

LEMMA Wraps ==
    ASSUME NEW L \in Nat \ {0}, NEW a \in 0 .. 2 * L - 1
    PROVE  a % L = IF a < L THEN a ELSE a - L
  <1> DEFINE q == a \div L
             r == a % L
  <1>1. q \in Int /\ r \in 0 .. L - 1 /\ a = L * q + r
    OBVIOUS
  <1> HIDE DEF q, r
  <1>2. q < 2
    <2> SUFFICES ASSUME q >= 2 PROVE FALSE
      BY <1>1
    <2>1. L * q >= L * 2
      BY <1>1
    <2> QED
      BY <1>1, <2>1
  <1>3. q >= 0
    <2> SUFFICES ASSUME q <= -1 PROVE FALSE
      BY <1>1
    <2>1. L * q <= L * (-1)
      BY <1>1
    <2> QED
      BY <1>1, <2>1
  <1>4. CASE q = 0
    BY <1>1, <1>4 DEF r
  <1>5. CASE q = 1
    BY <1>1, <1>5 DEF r
  <1> QED
    BY <1>1, <1>2, <1>3, <1>4, <1>5

LEMMA CellIs ==
    ASSUME NEW rf \in 0 .. uxLength - 1, NEW i \in 0 .. uxLength
    PROVE  /\ (rf + i) % uxLength = Cell(rf, i)
           /\ Cell(rf, i) \in 0 .. uxLength - 1
           /\ Next1(rf) = Cell(rf, 1)
           /\ Cell(rf, 0) = rf /\ Cell(rf, uxLength) = rf
  <1>1. uxLength \in Nat \ {0}
    BY QueueAssumption
  <1>2. rf + i \in 0 .. 2 * uxLength - 1
    BY <1>1
  <1>3. (rf + i) % uxLength = Cell(rf, i)
    <2> DEFINE a == rf + i
    <2>1. a \in 0 .. 2 * uxLength - 1
      BY <1>2
    <2>2. Cell(rf, i) = IF a < uxLength THEN a ELSE a - uxLength
      BY <1>1 DEF Cell
    <2> HIDE DEF a
    <2>3. a % uxLength = IF a < uxLength THEN a ELSE a - uxLength
      BY <1>1, <2>1, Wraps
    <2> QED
      BY <2>2, <2>3 DEF a
  <1>4. /\ Cell(rf, i) \in 0 .. uxLength - 1
        /\ Cell(rf, 0) = rf /\ Cell(rf, uxLength) = rf
    BY <1>1 DEF Cell
  <1>5. Next1(rf) = Cell(rf, 1)
    BY <1>1 DEF Cell, Next1
  <1> QED
    BY <1>3, <1>4, <1>5

LEMMA CellsDiffer ==
    ASSUME NEW rf \in 0 .. uxLength - 1, NEW i \in 0 .. uxLength - 1, NEW j \in 0 .. uxLength - 1, i # j
    PROVE  Cell(rf, i) # Cell(rf, j)
  BY QueueAssumption DEF Cell

Values == Item \cup {"nothing"}

LEMMA RingIs ==
    ASSUME NEW s \in [0 .. uxLength - 1 -> Values], NEW rf \in 0 .. uxLength - 1, NEW n \in 0 .. uxLength
    PROVE  /\ Ring(s, rf, n) \in Seq(Values) /\ Len(Ring(s, rf, n)) = n
           /\ \A i \in 1 .. n : Ring(s, rf, n)[i] = s[Cell(rf, i)]
  <1>1. uxLength \in Nat \ {0} /\ n \in Nat
    BY QueueAssumption
  <1>2. ASSUME NEW i \in 1 .. n
        PROVE  (rf + i) % uxLength = Cell(rf, i) /\ Cell(rf, i) \in 0 .. uxLength - 1
    <2>1. i \in 0 .. uxLength
      BY <1>1
    <2> QED
      BY <2>1, CellIs
  <1>3. \A i \in 1 .. n : Ring(s, rf, n)[i] = s[Cell(rf, i)] /\ s[Cell(rf, i)] \in Values
    BY <1>2 DEF Ring
  <1>4. Ring(s, rf, n) = [i \in 1 .. n |-> Ring(s, rf, n)[i]]
    BY DEF Ring
  <1>5. Ring(s, rf, n) \in Seq(Values)
    BY <1>1, <1>3, <1>4
  <1>6. Len(Ring(s, rf, n)) = n
    BY <1>1, <1>5, LenProperties DEF Ring
  <1> QED
    BY <1>3, <1>5, <1>6

LEMMA BackOfRing ==
    ASSUME NEW s \in [0 .. uxLength - 1 -> Values], NEW rf \in 0 .. uxLength - 1, NEW n \in 0 .. uxLength - 1,
           NEW x \in Values
    PROVE  /\ Next1((rf + n) % uxLength) = Cell(rf, n + 1)
           /\ Ring([s EXCEPT ![Cell(rf, n + 1)] = x], rf, n + 1) = Append(Ring(s, rf, n), x)
  <1>1. uxLength \in Nat \ {0} /\ n \in Nat /\ n \in 0 .. uxLength /\ n + 1 \in 0 .. uxLength
    BY QueueAssumption
  <1>2. (rf + n) % uxLength = Cell(rf, n) /\ Cell(rf, n) \in 0 .. uxLength - 1
    BY <1>1, CellIs
  <1>3. Next1(Cell(rf, n)) = Cell(rf, n + 1)
    BY <1>1 DEF Next1, Cell
  <1> DEFINE s1 == [s EXCEPT ![Cell(rf, n + 1)] = x]
             old == Ring(s, rf, n)
             new == Ring(s1, rf, n + 1)
  <1>4. Cell(rf, n + 1) \in 0 .. uxLength - 1
    BY <1>1, CellIs
  <1>5. s1 \in [0 .. uxLength - 1 -> Values]
    OBVIOUS
  <1>6. /\ s1[Cell(rf, n + 1)] = x
        /\ \A k \in 0 .. uxLength - 1 : k # Cell(rf, n + 1) => s1[k] = s[k]
    BY <1>4
  <1> HIDE DEF s1
  <1>7. /\ old \in Seq(Values) /\ Len(old) = n /\ \A i \in 1 .. n : old[i] = s[Cell(rf, i)]
    BY <1>1, RingIs
  <1>8. /\ new \in Seq(Values) /\ Len(new) = n + 1 /\ \A i \in 1 .. n + 1 : new[i] = s1[Cell(rf, i)]
    BY <1>1, <1>5, RingIs
  <1> HIDE DEF old, new
  <1>9. /\ Append(old, x) \in Seq(Values) /\ Len(Append(old, x)) = Len(old) + 1
        /\ \A i \in 1 .. Len(old) : Append(old, x)[i] = old[i]
        /\ Append(old, x)[Len(old) + 1] = x
    BY <1>7, AppendProperties
  <1>10. ASSUME NEW i \in 1 .. n + 1 PROVE new[i] = Append(old, x)[i]
    <2>1. CASE i = n + 1
      BY <2>1, <1>6, <1>7, <1>8, <1>9
    <2>2. CASE i # n + 1
      <3>1. i \in 1 .. n /\ i - 1 \in 0 .. uxLength - 1 /\ i \in 0 .. uxLength
        BY <2>2, <1>1
      <3>2. Cell(rf, i) # Cell(rf, n + 1)
        BY <3>1, <1>1 DEF Cell
      <3>3. Cell(rf, i) \in 0 .. uxLength - 1
        BY <3>1, CellIs
      <3>4. s1[Cell(rf, i)] = s[Cell(rf, i)]
        BY <3>2, <3>3, <1>6
      <3> QED
        BY <3>1, <3>4, <1>7, <1>8, <1>9
    <2> QED
      BY <2>1, <2>2
  <1>11. Len(new) = Len(Append(old, x))
    BY <1>7, <1>8, <1>9
  <1>12. new = Append(old, x)
    BY <1>8, <1>9, <1>10, <1>11, SeqEqual
  <1> QED
    BY <1>2, <1>3, <1>12 DEF old, new, s1

LEMMA FrontOfRing ==
    ASSUME NEW s \in [0 .. uxLength - 1 -> Values], NEW rf \in 0 .. uxLength - 1, NEW n \in 0 .. uxLength - 1,
           NEW x \in Values
    PROVE  Ring([s EXCEPT ![rf] = x], Prev1(rf), n + 1) = <<x>> \o Ring(s, rf, n)
  <1>1. uxLength \in Nat \ {0} /\ n \in Nat /\ n \in 0 .. uxLength /\ n + 1 \in 0 .. uxLength
    BY QueueAssumption
  <1> DEFINE s1 == [s EXCEPT ![rf] = x]
             old == Ring(s, rf, n)
             new == Ring(s1, Prev1(rf), n + 1)
  <1>2. Prev1(rf) \in 0 .. uxLength - 1
    BY <1>1 DEF Prev1
  <1>3. s1 \in [0 .. uxLength - 1 -> Values]
    OBVIOUS
  <1>4. s1[rf] = x /\ \A k \in 0 .. uxLength - 1 : k # rf => s1[k] = s[k]
    OBVIOUS
  <1> HIDE DEF s1
  <1>5. /\ old \in Seq(Values) /\ Len(old) = n /\ \A i \in 1 .. n : old[i] = s[Cell(rf, i)]
    BY <1>1, RingIs
  <1>6. /\ new \in Seq(Values) /\ Len(new) = n + 1 /\ \A i \in 1 .. n + 1 : new[i] = s1[Cell(Prev1(rf), i)]
    BY <1>1, <1>2, <1>3, RingIs
  <1> DEFINE both == <<x>> \o old
  <1>7. <<x>> \in Seq(Values) /\ Len(<<x>>) = 1 /\ <<x>>[1] = x
    OBVIOUS
  <1> HIDE DEF old, new
  <1>8. /\ both \in Seq(Values) /\ Len(both) = Len(<<x>>) + Len(old)
        /\ \A i \in 1 .. Len(<<x>>) + Len(old) : both[i] = IF i <= Len(<<x>>) THEN <<x>>[i] ELSE old[i - Len(<<x>>)]
    BY <1>5, <1>7, ConcatProperties
  <1> HIDE DEF both
  <1>9. /\ Len(both) = n + 1
        /\ \A i \in 1 .. n + 1 : both[i] = IF i <= 1 THEN <<x>>[i] ELSE old[i - 1]
    BY <1>1, <1>5, <1>7, <1>8
  <1>10. ASSUME NEW i \in 1 .. n + 1 PROVE new[i] = both[i]
    <2>1. CASE i = 1
      <3>1. Cell(Prev1(rf), 1) = rf
        BY <1>1 DEF Prev1, Cell
      <3>2. new[1] = x
        BY <3>1, <2>1, <1>4, <1>6
      <3>3. both[1] = x
        BY <2>1, <1>1, <1>7, <1>9
      <3> QED
        BY <2>1, <3>2, <3>3
    <2>2. CASE i # 1
      <3>1. i - 1 \in 1 .. n /\ i - 1 \in 0 .. uxLength
        BY <2>2, <1>1
      <3>2. Cell(Prev1(rf), i) = Cell(rf, i - 1) /\ Cell(rf, i - 1) # rf
        BY <2>2, <1>1 DEF Prev1, Cell
      <3>3. Cell(rf, i - 1) \in 0 .. uxLength - 1
        BY <3>1, CellIs
      <3>4. new[i] = s[Cell(rf, i - 1)]
        BY <3>2, <3>3, <1>4, <1>6
      <3>5. both[i] = old[i - 1]
        BY <2>2, <1>1, <1>9
      <3> QED
        BY <3>1, <3>4, <3>5, <1>5
    <2> QED
      BY <2>1, <2>2
  <1>11. new = both
    BY <1>6, <1>8, <1>9, <1>10, SeqEqual
  <1> QED
    BY <1>11 DEF old, new, s1, both

LEMMA RestOfRing ==
    ASSUME NEW s \in [0 .. uxLength - 1 -> Values], NEW rf \in 0 .. uxLength - 1, NEW n \in 1 .. uxLength
    PROVE  /\ Ring(s, rf, n) # << >> /\ Head(Ring(s, rf, n)) = s[Next1(rf)]
           /\ Ring(s, Next1(rf), n - 1) = Tail(Ring(s, rf, n))
  <1>1. uxLength \in Nat \ {0} /\ n \in Nat /\ n \in 0 .. uxLength /\ n - 1 \in 0 .. uxLength
    BY QueueAssumption
  <1> DEFINE old == Ring(s, rf, n)
             new == Ring(s, Next1(rf), n - 1)
  <1>2. Next1(rf) \in 0 .. uxLength - 1 /\ Next1(rf) = Cell(rf, 1)
    BY <1>1 DEF Next1, Cell
  <1>3. /\ old \in Seq(Values) /\ Len(old) = n /\ \A i \in 1 .. n : old[i] = s[Cell(rf, i)]
    BY <1>1, RingIs
  <1>4. /\ new \in Seq(Values) /\ Len(new) = n - 1 /\ \A i \in 1 .. n - 1 : new[i] = s[Cell(Next1(rf), i)]
    BY <1>1, <1>2, RingIs
  <1> HIDE DEF old, new
  <1>5. old # << >>
    BY <1>1, <1>3, EmptySeq
  <1>6. Head(old) = s[Next1(rf)]
    <2>1. Head(old) = old[1]
      BY <1>3, <1>5
    <2> QED
      BY <2>1, <1>1, <1>2, <1>3
  <1>7. /\ Tail(old) \in Seq(Values) /\ Len(Tail(old)) = Len(old) - 1
        /\ \A i \in 1 .. Len(Tail(old)) : Tail(old)[i] = old[i + 1]
    BY <1>3, <1>5, HeadTailProperties
  <1>8. ASSUME NEW i \in 1 .. n - 1 PROVE new[i] = Tail(old)[i]
    <2>1. i + 1 \in 1 .. n /\ i \in 1 .. Len(Tail(old))
      BY <1>1, <1>3, <1>7
    <2>2. Cell(Next1(rf), i) = Cell(rf, i + 1)
      BY <1>1 DEF Next1, Cell
    <2> QED
      BY <2>1, <2>2, <1>3, <1>4, <1>7
  <1>9. new = Tail(old)
    BY <1>3, <1>4, <1>7, <1>8, SeqEqual
  <1> QED
    BY <1>5, <1>6, <1>9 DEF old, new

(***************************************************************************)
(* Copying in and out is what the abstract queue does at its ends.         *)
(***************************************************************************)
LEMMA Meeting ==
    ASSUME NEW rf \in 0 .. uxLength - 1, NEW n \in 0 .. uxLength
    PROVE  /\ (rf + n) % uxLength = Cell(rf, n) /\ Cell(rf, n) \in 0 .. uxLength - 1
           /\ n < uxLength => Next1(Cell(rf, n)) = Cell(rf, n + 1)
           /\ n < uxLength => Prev1(rf) \in 0 .. uxLength - 1 /\ Cell(Prev1(rf), n + 1) = Cell(rf, n)
           /\ n > 0 => Next1(rf) \in 0 .. uxLength - 1 /\ Cell(Next1(rf), n - 1) = Cell(rf, n)
  <1>1. uxLength \in Nat \ {0}
    BY QueueAssumption
  <1>2. (rf + n) % uxLength = Cell(rf, n) /\ Cell(rf, n) \in 0 .. uxLength - 1
    BY CellIs
  <1>3. n < uxLength => Next1(Cell(rf, n)) = Cell(rf, n + 1)
    BY <1>1 DEF Next1, Cell
  <1>4. n < uxLength => Prev1(rf) \in 0 .. uxLength - 1 /\ Cell(Prev1(rf), n + 1) = Cell(rf, n)
    BY <1>1 DEF Prev1, Cell
  <1>5. n > 0 => Next1(rf) \in 0 .. uxLength - 1 /\ Cell(Next1(rf), n - 1) = Cell(rf, n)
    BY <1>1 DEF Next1, Cell
  <1> QED
    BY <1>2, <1>3, <1>4, <1>5

LEMMA ItemsAre ==
    /\ Items = Ring(storage, pcReadFrom, uxMessagesWaiting)
    /\ Items' = Ring(storage', pcReadFrom', uxMessagesWaiting')
  BY DEF Items, Ring

LEMMA CopyInRefines ==
    ASSUME DataType, PointersMeet, NEW x \in Item, NEW pos \in {"back", "front", "overwrite"},
           Roomy(pos), pos = "overwrite" => uxLength = 1,
           CopyDataToQueue(x, pos), got' = got
    PROVE  /\ PointersMeet'
           /\ Abstract!SendToBack(x) \/ Abstract!SendToFront(x) \/ Abstract!Overwrite(x)
  <1>1. /\ uxLength \in Nat \ {0} /\ storage \in [0 .. uxLength - 1 -> Values]
        /\ pcReadFrom \in 0 .. uxLength - 1 /\ pcWriteTo \in 0 .. uxLength - 1
        /\ uxMessagesWaiting \in 0 .. uxLength /\ x \in Values
    BY QueueAssumption DEF DataType, Values
  <1> DEFINE s == storage
             rf == pcReadFrom
             n == uxMessagesWaiting
  <1>2. pcWriteTo = Next1(Cell(rf, n))
    BY <1>1, Meeting DEF PointersMeet
  <1>3. Items = Ring(s, rf, n) /\ Items' = Ring(storage', pcReadFrom', uxMessagesWaiting')
    BY ItemsAre
  <1>4. Len(Items) = n
    BY <1>1, <1>3, RingIs
  <1>5. CASE pos = "back"
    <2>1. /\ n < uxLength
          /\ storage' = [storage EXCEPT ![pcWriteTo] = x] /\ pcWriteTo' = Next1(pcWriteTo)
          /\ uxMessagesWaiting' = n + 1 /\ pcReadFrom' = rf
      BY <1>5 DEF Roomy, CopyDataToQueue
    <2>2. n \in 0 .. uxLength - 1 /\ n + 1 \in 0 .. uxLength
      BY <1>1, <2>1
    <2>3. pcWriteTo = Cell(rf, n + 1)
      BY <1>1, <1>2, <2>1, Meeting
    <2>4. Items' = Append(Items, x)
      BY <1>1, <1>3, <2>1, <2>2, <2>3, BackOfRing
    <2>5. PointersMeet'
      <3>1. (rf + (n + 1)) % uxLength = Cell(rf, n + 1)
        BY <1>1, <2>2, Meeting
      <3> QED
        BY <2>1, <2>3, <3>1 DEF PointersMeet, Next1
    <2>6. Abstract!SendToBack(x)
      BY <1>4, <2>1, <2>4 DEF Abstract!SendToBack
    <2> QED
      BY <2>5, <2>6
  <1>6. CASE pos # "back" /\ n < uxLength
    <2>1. /\ storage' = [storage EXCEPT ![rf] = x] /\ pcReadFrom' = Prev1(rf) /\ pcWriteTo' = pcWriteTo
          /\ uxMessagesWaiting' = n + 1
      <3>1. pos = "overwrite" => ~ (n > 0)
        BY <1>1, <1>6
      <3> QED
        BY <1>6, <3>1 DEF CopyDataToQueue
    <2>2. n \in 0 .. uxLength - 1 /\ n + 1 \in 0 .. uxLength
      BY <1>1, <1>6
    <2>3. Items' = <<x>> \o Items
      BY <1>1, <1>3, <2>1, <2>2, FrontOfRing
    <2>4. PointersMeet'
      <3>1. Prev1(rf) \in 0 .. uxLength - 1 /\ Cell(Prev1(rf), n + 1) = Cell(rf, n)
        BY <1>1, <1>6, Meeting
      <3>2. (Prev1(rf) + (n + 1)) % uxLength = Cell(Prev1(rf), n + 1)
        BY <3>1, <2>2, Meeting
      <3> QED
        BY <1>2, <2>1, <3>1, <3>2 DEF PointersMeet, Next1
    <2>5. Abstract!SendToFront(x)
      BY <1>4, <1>6, <2>3 DEF Abstract!SendToFront
    <2> QED
      BY <2>4, <2>5
  <1>7. CASE pos # "back" /\ ~ (n < uxLength)
    <2>1. pos = "overwrite" /\ uxLength = 1 /\ n = 1 /\ rf = 0 /\ pcWriteTo = 0
      BY <1>1, <1>7 DEF Roomy
    <2>2. /\ storage' = [storage EXCEPT ![rf] = x] /\ pcReadFrom' = Prev1(rf) /\ pcWriteTo' = pcWriteTo
          /\ uxMessagesWaiting' = n
      BY <2>1 DEF CopyDataToQueue
    <2>3. Prev1(rf) = 0 /\ Next1(0) = 0
      BY <2>1 DEF Prev1, Next1
    <2>4. PointersMeet'
      <3>1. (0 + 1) % uxLength = 0
        BY <2>1
      <3> QED
        BY <2>1, <2>2, <2>3, <3>1 DEF PointersMeet, Next1
    <2>5. Items' = <<x>>
      <3>1. Items' = [i \in 1 .. 1 |-> [s EXCEPT ![0] = x][(0 + i) % 1]]
        BY <1>3, <2>1, <2>2, <2>3 DEF Ring
      <3>2. [s EXCEPT ![0] = x][0] = x
        BY <1>1, <2>1
      <3>3. \A i \in 1 .. 1 : (0 + i) % 1 = 0
        OBVIOUS
      <3>4. Items' = [i \in 1 .. 1 |-> x]
        BY <3>1, <3>2, <3>3
      <3> QED
        BY <3>4
    <2>6. Abstract!Overwrite(x)
      BY <2>1, <2>5 DEF Abstract!Overwrite
    <2> QED
      BY <2>4, <2>6
  <1> QED
    BY <1>5, <1>6, <1>7

LEMMA TakeRefines ==
    ASSUME DataType, PointersMeet, NEW c \in Caller, Take(c), uxMessagesWaiting > 0
    PROVE  PointersMeet' /\ Abstract!Receive(c)
  <1>1. /\ uxLength \in Nat \ {0} /\ storage \in [0 .. uxLength - 1 -> Values]
        /\ pcReadFrom \in 0 .. uxLength - 1 /\ pcWriteTo \in 0 .. uxLength - 1
        /\ uxMessagesWaiting \in 1 .. uxLength
    BY QueueAssumption DEF DataType, Values
  <1> DEFINE s == storage
             rf == pcReadFrom
             n == uxMessagesWaiting
  <1>2. n \in 0 .. uxLength /\ n - 1 \in 0 .. uxLength
    BY <1>1
  <1>3. pcWriteTo = Next1(Cell(rf, n))
    BY <1>1, <1>2, Meeting DEF PointersMeet
  <1>4. Items = Ring(s, rf, n) /\ Items' = Ring(storage', pcReadFrom', uxMessagesWaiting')
    BY ItemsAre
  <1>5. /\ storage' = storage /\ pcWriteTo' = pcWriteTo /\ pcReadFrom' = Next1(rf)
        /\ uxMessagesWaiting' = n - 1 /\ got' = [got EXCEPT ![c] = storage[Next1(rf)]]
    BY DEF Take, CopyDataFromQueue
  <1>6. Items # << >> /\ Head(Items) = storage[Next1(rf)] /\ Items' = Tail(Items)
    BY <1>1, <1>4, <1>5, RestOfRing
  <1>7. PointersMeet'
    <2>1. Next1(rf) \in 0 .. uxLength - 1 /\ Cell(Next1(rf), n - 1) = Cell(rf, n)
      BY <1>1, <1>2, Meeting
    <2>2. (Next1(rf) + (n - 1)) % uxLength = Cell(Next1(rf), n - 1)
      BY <1>2, <2>1, Meeting
    <2> QED
      BY <1>3, <1>5, <2>1, <2>2 DEF PointersMeet, Next1
  <1> QED
    BY <1>5, <1>6, <1>7 DEF Abstract!Receive

LEMMA PeekRefines ==
    ASSUME DataType, NEW c \in Caller, CopyDataFromQueue(c), uxMessagesWaiting > 0, UNCHANGED data
    PROVE  Abstract!Peek(c)
  <1>1. /\ storage \in [0 .. uxLength - 1 -> Values]
        /\ pcReadFrom \in 0 .. uxLength - 1
        /\ uxMessagesWaiting \in 1 .. uxLength
    BY QueueAssumption DEF DataType, Values
  <1>2. /\ Items = Ring(storage, pcReadFrom, uxMessagesWaiting)
        /\ Items' = Ring(storage', pcReadFrom', uxMessagesWaiting')
    BY ItemsAre
  <1>3. Items # << >> /\ Head(Items) = storage[Next1(pcReadFrom)]
    BY <1>1, <1>2, RestOfRing
  <1>4. Items' = Items
    BY <1>2 DEF data
  <1> QED
    BY <1>3, <1>4 DEF Abstract!Peek, CopyDataFromQueue

LEMMA ResetRefines ==
    ASSUME pcWriteTo' = 0, pcReadFrom' = uxLength - 1, uxMessagesWaiting' = 0, got' = got
    PROVE  PointersMeet' /\ Abstract!Reset
  <1>1. uxLength \in Nat \ {0}
    BY QueueAssumption
  <1>2. Items' = << >>
    BY DEF Items
  <1>3. PointersMeet'
    <2>1. Next1(uxLength - 1) = 0 /\ (uxLength - 1) \in 0 .. uxLength - 1 /\ 0 \in 0 .. uxLength
      BY <1>1 DEF Next1
    <2>2. (uxLength - 1 + 0) % uxLength = Cell(uxLength - 1, 0) /\ Cell(uxLength - 1, 0) = uxLength - 1
      BY <2>1, CellIs
    <2> QED
      BY <2>1, <2>2 DEF PointersMeet, Next1
  <1> QED
    BY <1>2, <1>3 DEF Abstract!Reset

LEMMA DataStays ==
    ASSUME UNCHANGED data
    PROVE  Items' = Items /\ (PointersMeet => PointersMeet')
  BY DEF data, Items, PointersMeet, Next1

-----------------------------------------------------------------------------
(***************************************************************************)
(* Every step of the queue is a step of the abstract one, or changes       *)
(* neither its items nor what anyone received.                             *)
(***************************************************************************)
LEMMA StepRefines ==
    ASSUME QInv, PointersMeet, [Next]_vars
    PROVE  PointersMeet' /\ [Abstract!Next]_(Abstract!vars)
  <1> DEFINE Goal == PointersMeet' /\ [Abstract!Next]_(Abstract!vars)
  <1>1. DataType
    BY DEF QInv, QueueType
  <1>2. ASSUME UNCHANGED data, got' = got PROVE Goal
    BY <1>2, DataStays DEF Abstract!vars
  <1>3. ASSUME NEW t \in Task, NEW c \in Calls[t], Enter(t, c) PROVE Goal
    <2>1. Items' = Items /\ PointersMeet'
      BY <1>3, DataStays DEF Enter
    <2>2. Abstract!Call(t)
      BY <1>3, <2>1 DEF Enter, Abstract!Call
    <2>3. t \in Caller
      BY DEF Caller
    <2> QED
      BY <2>1, <2>2, <2>3 DEF Abstract!Next
  <1>4. ASSUME NEW t \in Task, Send(t) PROVE Goal
    <2>1. call[t] \in Busy /\ InCall(t)
      BY <1>4, AtTry DEF Send
    <2>2. /\ call[t].item \in Item /\ call[t].pos \in {"back", "front", "overwrite"}
          /\ call[t].pos = "overwrite" => uxLength = 1
      BY <1>4, <2>1, BusyOrIdle DEF InCall, Send, IsSend
    <2>3. Roomy(call[t].pos) /\ CopyDataToQueue(call[t].item, call[t].pos) /\ got' = got
      BY <1>4 DEF Send
    <2>4. /\ PointersMeet'
          /\ \/ Abstract!SendToBack(call[t].item) \/ Abstract!SendToFront(call[t].item)
             \/ Abstract!Overwrite(call[t].item)
      BY <1>1, <2>2, <2>3, CopyInRefines
    <2> QED
      BY <2>2, <2>4 DEF Abstract!Next
  <1>5. ASSUME NEW t \in Task, Receive(t) PROVE Goal
    <2>1. t \in Caller
      BY DEF Caller
    <2>2. PointersMeet' /\ Abstract!Receive(t)
      BY <1>1, <1>5, <2>1, TakeRefines DEF Receive
    <2> QED
      BY <2>1, <2>2 DEF Abstract!Next
  <1>6. ASSUME NEW t \in Task, Peek(t) PROVE Goal
    <2>1. t \in Caller
      BY DEF Caller
    <2>2. Abstract!Peek(t)
      BY <1>1, <1>6, <2>1, PeekRefines DEF Peek
    <2>3. PointersMeet'
      BY <1>6, DataStays DEF Peek
    <2> QED
      BY <2>1, <2>2, <2>3 DEF Abstract!Next
  <1>7. ASSUME NEW t \in Task, Reset(t) PROVE Goal
    <2>1. PointersMeet' /\ Abstract!Reset
      BY <1>7, ResetRefines DEF Reset
    <2> QED
      BY <2>1 DEF Abstract!Next
  <1>8. ASSUME NEW s \in IsrSends, SendFromISR(s) PROVE Goal
    <2>1. /\ s.item \in Item /\ s.pos \in {"back", "front", "overwrite"}
          /\ s.pos = "overwrite" => uxLength = 1
      BY CallAssumption
    <2>2. Roomy(s.pos) /\ CopyDataToQueue(s.item, s.pos) /\ got' = got
      BY <1>8 DEF SendFromISR
    <2>3. /\ PointersMeet'
          /\ Abstract!SendToBack(s.item) \/ Abstract!SendToFront(s.item) \/ Abstract!Overwrite(s.item)
      BY <1>1, <2>1, <2>2, CopyInRefines
    <2> QED
      BY <2>1, <2>3 DEF Abstract!Next
  <1>9. ASSUME ReceiveFromISR PROVE Goal
    <2>1. "isr" \in Caller
      BY DEF Caller
    <2>2. PointersMeet' /\ Abstract!Receive("isr")
      BY <1>1, <1>9, <2>1, TakeRefines DEF ReceiveFromISR
    <2> QED
      BY <2>1, <2>2 DEF Abstract!Next
  <1>10. ASSUME NEW t \in Task,
                \/ Unserved(t) \/ SuspendAll(t) \/ LockQueue(t) \/ CheckForTimeOut(t) \/ Test(t)
                \/ Place(t) \/ UnlockTx(t) \/ UnlockRx(t) \/ ResumeAll(t) \/ FailIfEmpty(t) \/ Tick(t)
         PROVE  Goal
    <2>1. UNCHANGED data /\ got' = got
      BY <1>10 DEF Unserved, SuspendAll, LockQueue, CheckForTimeOut, Test, Place, UnlockTx, UnlockRx,
         ResumeAll, FailIfEmpty, Tick
    <2> QED
      BY <1>2, <2>1
  <1>11. CASE UNCHANGED vars
    BY <1>2, <1>11 DEF vars
  <1> HIDE DEF Goal
  <1>12. ASSUME NEW t \in Task, Step(t) PROVE Goal
    BY <1>4, <1>5, <1>6, <1>7, <1>10, <1>12 DEF Step, Served
  <1>13. ASSUME NEW t \in Task, Tick(t) PROVE Goal
    BY <1>10, <1>13
  <1>14. ASSUME Next PROVE Goal
    <2>1. CASE \E t \in Task : (\E c \in Calls[t] : Enter(t, c)) \/ Step(t) \/ Tick(t)
      BY <1>3, <1>12, <1>13, <2>1
    <2>2. CASE (\E s \in IsrSends : SendFromISR(s)) \/ ReceiveFromISR
      BY <1>8, <1>9, <2>2
    <2> QED
      BY <1>14, <2>1, <2>2 DEF Next
  <1> QED
    BY <1>11, <1>14 DEF Goal

(***************************************************************************)
(* Items come out in the order that the ends they went in at ask for, each *)
(* to one receiver, none lost, and a peek sees the next one                *)
(* (prvCopyDataToQueue, prvCopyDataFromQueue and their callers).           *)
(***************************************************************************)
THEOREM QueueIsBounded == Spec => IsBoundedQueue
  <1>1. Init => QInv /\ PointersMeet /\ Abstract!Init
    <2> SUFFICES ASSUME Init PROVE QInv /\ PointersMeet /\ Abstract!Init
      OBVIOUS
    <2>1. uxLength \in Nat \ {0}
      BY QueueAssumption
    <2>2. PointersMeet
      <3>1. Next1(uxLength - 1) = 0 /\ (uxLength - 1) \in 0 .. uxLength - 1 /\ 0 \in 0 .. uxLength
        BY <2>1 DEF Next1
      <3>2. (uxLength - 1 + 0) % uxLength = Cell(uxLength - 1, 0) /\ Cell(uxLength - 1, 0) = uxLength - 1
        BY <3>1, CellIs
      <3> QED
        BY <3>1, <3>2 DEF PointersMeet, Init
    <2>3. Items = << >>
      BY DEF Items, Init
    <2>4. got \in [Caller -> Item \cup {"nothing"}]
      BY DEF Init
    <2> QED
      BY <2>2, <2>3, <2>4, InitQ DEF Abstract!Init
  <1>2. QInv /\ PointersMeet /\ [Next]_vars => (QInv /\ PointersMeet)' /\ [Abstract!Next]_(Abstract!vars)
    BY NextQ, StepRefines
  <1> QED
    BY <1>1, <1>2, PTL DEF Spec, IsBoundedQueue, Abstract!Spec
=============================================================================
