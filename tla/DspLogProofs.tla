---------------------------- MODULE DspLogProofs ----------------------------
(***************************************************************************)
(* What holds of DspLog for every size of the area and every set of        *)
(* messages that are shorter than it.                                      *)
(***************************************************************************)
EXTENDS DspLog, SequenceTheorems, TLAPS

(***************************************************************************)
(* A call has decided on a place that has room for its message, behind the *)
(* text that is there or at the start of the area.                         *)
(***************************************************************************)
Busy == [pc : {"text", "terminator", "position"}, msg : Msg, pos : Nat]

LogType ==
    /\ DOMAIN area = Around
    /\ write_ptr \in Nat
    /\ call \in {Idle} \cup Busy
    /\ lap \in Seq([msg : Msg, at : Nat])

Placed ==
    /\ write_ptr # 0 => write_ptr \in 4 .. (Size - 1)
    /\ write_ptr = 0 => call = Idle /\ lap = << >>
    /\ call # Idle => /\ call.pos \in {4, write_ptr}
                      /\ call.pos + MsgLen[call.msg] + 1 < Size

(***************************************************************************)
(* The messages of the lap follow each other up to the position.           *)
(***************************************************************************)
Chained ==
    write_ptr # 0 =>
        /\ \A i \in 1 .. Len(lap) :
             /\ lap[i].at = IF i = 1 THEN 4 ELSE Behind(lap[i - 1])
             /\ 4 <= lap[i].at
             /\ Behind(lap[i]) <= write_ptr
        /\ write_ptr = IF lap = << >> THEN 4 ELSE Behind(lap[Len(lap)])

(***************************************************************************)
(* What of the lap and of the message being logged is in the area.         *)
(***************************************************************************)
LapKept ==
    write_ptr # 0 /\ (call = Idle \/ call.pos # 4) => \A i \in 1 .. Len(lap) : Written(lap[i])

TextCopied == \A i \in 1 .. MsgLen[call.msg] : area[call.pos + i - 1] = <<call.msg, i>>

CallWritten ==
    /\ call # Idle /\ call.pc \in {"terminator", "position"} => TextCopied
    /\ call # Idle /\ call.pc = "position" => area[call.pos + MsgLen[call.msg]] = Nul

LInv == LogType /\ Placed /\ StaysInside /\ Chained /\ LapKept /\ CallWritten

-----------------------------------------------------------------------------
\* A call in progress is not at rest.
LEMMA IdleOrBusy ==
    ASSUME LogType
    PROVE  /\ call.pc = "idle" <=> call = Idle
           /\ call.pc # "idle" => /\ call \in Busy
                                  /\ call.msg \in Msg /\ call.pos \in Nat
                                  /\ MsgLen[call.msg] \in Nat /\ MsgLen[call.msg] > 0
  <1>1. Idle.pc = "idle"
    BY DEF Idle
  <1>2. \A b \in Busy : b.pc # "idle" /\ b.msg \in Msg /\ b.pos \in Nat
    BY DEF Busy
  <1>3. ASSUME NEW m \in Msg PROVE MsgLen[m] \in Nat /\ MsgLen[m] > 0
    <2>1. MsgLen[m] \in Nat \ {0}
      BY LogAssumption
    <2> QED BY <2>1
  <1> QED BY <1>1, <1>2, <1>3 DEF LogType

\* Messages of the lap lie between the start of the area and the position.
LEMMA EntriesInside ==
    ASSUME LInv, write_ptr # 0, NEW k \in 1 .. Len(lap)
    PROVE  /\ lap[k] \in [msg : Msg, at : Nat]
           /\ lap[k].at \in Nat /\ lap[k].at >= 4
           /\ MsgLen[lap[k].msg] \in Nat /\ MsgLen[lap[k].msg] > 0
           /\ lap[k].at + MsgLen[lap[k].msg] + 1 <= write_ptr
           /\ write_ptr < Size /\ write_ptr \in Nat
  <1>1. lap[k] \in [msg : Msg, at : Nat]
    BY ElementOfSeq DEF LInv, LogType
  <1>2. MsgLen[lap[k].msg] \in Nat /\ MsgLen[lap[k].msg] > 0
    BY <1>1, LogAssumption
  <1> QED BY <1>1, <1>2, LogAssumption DEF LInv, Placed, Chained, Behind

\* What is written behind the lap does not change it.
LEMMA LapUndisturbed ==
    ASSUME LInv, write_ptr # 0, NEW k \in 1 .. Len(lap), Written(lap[k]),
           \A c \in 0 .. (write_ptr - 1) : area'[c] = area[c],
           lap' = lap
    PROVE  Written(lap[k])'
  <1> DEFINE e == lap[k]
             n == MsgLen[e.msg]
  <1>1. /\ e.at \in Nat /\ e.at >= 4 /\ n \in Nat /\ n > 0 /\ e.at + n + 1 <= write_ptr
        /\ write_ptr \in Nat
    BY EntriesInside
  <1>2. ASSUME NEW i \in 1 .. n PROVE area'[e.at + i - 1] = <<e.msg, i>>
    <2>1. area[e.at + i - 1] = <<e.msg, i>>
      BY DEF Written
    <2>2. e.at + i - 1 \in 0 .. (write_ptr - 1)
      <3> DEFINE a == e.at
                 w == write_ptr
      <3>1. a \in Nat /\ n \in Nat /\ w \in Nat /\ a + n + 1 <= w /\ i \in 1 .. n
        BY <1>1
      <3> HIDE DEF a, n, w
      <3>2. a + i - 1 \in 0 .. (w - 1)
        BY <3>1
      <3> QED BY <3>2 DEF a, w
    <2> QED BY <2>1, <2>2
  <1>3. area'[e.at + n] = Nul
    <2>1. area[e.at + n] = Nul
      BY DEF Written
    <2>2. e.at + n \in 0 .. (write_ptr - 1)
      <3> HIDE DEF e, n
      <3> QED BY <1>1
    <2> QED BY <2>1, <2>2
  <1> QED BY <1>2, <1>3 DEF Written

LEMMA InitLInv == Init => LInv
  <1> SUFFICES ASSUME Init PROVE LInv
    OBVIOUS
  <1>1. LogType
    BY DEF Init, LogType
  <1>2. StaysInside
    <2>1. \A c \in Size .. Size + 3 : c \in Around
      BY LogAssumption DEF Around
    <2> QED BY <2>1 DEF Init, StaysInside
  <1> QED BY <1>1, <1>2 DEF Init, LInv, Placed, Chained, LapKept, CallWritten, Idle

LEMMA LogInitKeepsLInv ==
    ASSUME LInv, LogInit
    PROVE  LInv'
  <1>1. /\ write_ptr' = 4 /\ call' = Idle /\ lap' = << >>
        /\ area' = [c \in Around |-> IF c < 4 THEN PosByte ELSE IF c < Size THEN Nul ELSE area[c]]
    BY DEF LogInit, LInv, Placed
  <1>2. LogType'
    BY <1>1 DEF LogType
  <1>3. StaysInside'
    <2>1. \A c \in Size .. Size + 3 : c \in Around /\ ~(c < 4) /\ ~(c < Size) /\ area[c] = Foreign
      BY LogAssumption DEF Around, LInv, StaysInside
    <2>2. \A c \in 0 .. 3 : c \in Around /\ c < 4
      BY LogAssumption DEF Around
    <2> QED BY <1>1, <2>1, <2>2 DEF StaysInside
  <1>4. Placed'
    BY <1>1, LogAssumption DEF Placed
  <1> QED BY <1>1, <1>2, <1>3, <1>4 DEF LInv, Chained, LapKept, CallWritten, Idle

\* A call looks at the position; nothing is written yet.
LEMMA LprintfKeepsLInv ==
    ASSUME LInv, NEW m \in Msg, Lprintf(m)
    PROVE  LInv'
  <1> DEFINE pos == IF Wraps(write_ptr, MsgLen[m]) THEN 4 ELSE write_ptr
  <1>1. /\ write_ptr # 0 /\ call.pc = "idle"
        /\ call' = [pc |-> "text", msg |-> m, pos |-> pos]
        /\ area' = area /\ write_ptr' = write_ptr /\ lap' = lap
    BY DEF Lprintf
  <1>2. MsgLen[m] \in Nat /\ 4 + MsgLen[m] + 1 < Size /\ write_ptr \in 4 .. (Size - 1) /\ Size \in Nat
    <2>1. MsgLen[m] \in Nat \ {0}
      BY LogAssumption
    <2> QED BY <1>1, <2>1, LogAssumption DEF LInv, Placed
  <1>3. pos \in {4, write_ptr} /\ pos \in Nat /\ pos + MsgLen[m] + 1 < Size
    BY <1>2 DEF Wraps
  <1> HIDE DEF pos
  <1>4. /\ call' \in Busy /\ call'.pc = "text" /\ call'.msg = m /\ call'.pos = pos
        /\ call' # Idle
    <2>1. call' \in Busy /\ call'.pc = "text" /\ call'.msg = m /\ call'.pos = pos
      BY <1>1, <1>3 DEF Busy
    <2>2. Idle.pc = "idle"
      BY DEF Idle
    <2> QED BY <2>1, <2>2
  <1>5. LogType'
    BY <1>1, <1>4 DEF LInv, LogType
  <1>6. Placed'
    BY <1>1, <1>2, <1>3, <1>4 DEF LInv, Placed
  <1>7. StaysInside' /\ Chained'
    BY <1>1 DEF LInv, StaysInside, Chained, Behind
  <1>8. call = Idle
    BY <1>1, IdleOrBusy DEF LInv
  <1>9. LapKept' /\ CallWritten'
    BY <1>1, <1>4, <1>8 DEF LInv, LapKept, CallWritten, Written
  <1> QED BY <1>5, <1>6, <1>7, <1>9 DEF LInv

\* Copying the text and storing the terminator, behind what is to be read.
LEMMA CopyKeepsLInv ==
    ASSUME LInv, Text \/ Terminator
    PROVE  LInv'
  <1> DEFINE n == MsgLen[call.msg]
             p == call.pos
  <1>1. /\ call \in Busy /\ n \in Nat /\ n > 0 /\ p \in Nat /\ p >= 4 /\ p + n + 1 < Size
        /\ write_ptr # 0 /\ write_ptr \in Nat /\ p \in {4, write_ptr}
        /\ Size \in Nat /\ DOMAIN area = Around
        /\ call.pc \in {"text", "terminator"}
    <2>1. call.pc \in {"text", "terminator"}
      BY DEF Text, Terminator
    <2>2. call \in Busy /\ n \in Nat /\ n > 0 /\ p \in Nat /\ call # Idle
      BY <2>1, IdleOrBusy DEF LInv
    <2> QED BY <2>1, <2>2, LogAssumption DEF LInv, LogType, Placed
  <1>2. /\ write_ptr' = write_ptr /\ lap' = lap
        /\ call'.msg = call.msg /\ call'.pos = call.pos
        /\ call' \in Busy /\ call' # Idle /\ call # Idle
        /\ call'.pc = IF call.pc = "text" THEN "terminator" ELSE "position"
    <2>1. /\ call'.msg = call.msg /\ call'.pos = call.pos /\ call' \in Busy
          /\ call'.pc = IF call.pc = "text" THEN "terminator" ELSE "position"
      BY <1>1 DEF Text, Terminator, Busy
    <2>2. Idle.pc = "idle"
      BY DEF Idle
    <2> QED BY <1>1, <2>1, <2>2 DEF Text, Terminator
  <1>3. /\ DOMAIN area' = Around
        /\ \A c \in Around : c \notin p .. (p + n) => area'[c] = area[c]
    <2>1. CASE Text
      BY <1>1, <2>1 DEF Text
    <2>2. CASE Terminator
      BY <1>1, <2>2 DEF Terminator
    <2> QED BY <2>1, <2>2
  <1>4. LogType'
    BY <1>2, <1>3 DEF LInv, LogType
  <1>5. Placed'
    <2> HIDE DEF n, p
    <2> QED BY <1>2 DEF LInv, Placed
  <1>6. StaysInside'
    <2>1. \A c \in (Size .. Size + 3) \cup (0 .. 3) : c \in Around /\ c \notin p .. (p + n)
      <3> HIDE DEF n, p
      <3> QED BY <1>1 DEF Around
    <2> HIDE DEF n, p
    <2> QED BY <1>2, <1>3, <2>1 DEF LInv, StaysInside
  <1>7. Chained'
    BY <1>2 DEF LInv, Chained, Behind
  <1>8. LapKept'
    <2> SUFFICES ASSUME p # 4, NEW i \in 1 .. Len(lap) PROVE Written(lap[i])'
      BY <1>2 DEF LapKept
    <2>1. p = write_ptr
      BY <1>1
    <2>2. \A c \in 0 .. (write_ptr - 1) : area'[c] = area[c]
      <3>1. \A c \in 0 .. (write_ptr - 1) : c \in Around /\ c \notin p .. (p + n)
        <4> HIDE DEF n
        <4> QED BY <1>1, <2>1 DEF Around
      <3> QED BY <1>3, <3>1
    <2>3. Written(lap[i])
      BY <1>1 DEF LInv, LapKept
    <2> QED BY <1>1, <1>2, <2>2, <2>3, LapUndisturbed
  <1>9. CallWritten'
    <2>1. CASE Text
      <3>1. \A i \in 1 .. n : /\ p + i - 1 \in Around /\ p + i - 1 \in p .. (p + n - 1)
                              /\ (p + i - 1) - p + 1 = i
        <4> HIDE DEF n, p
        <4> QED BY <1>1 DEF Around
      <3>2. area' = [c \in Around |-> IF c \in p .. (p + n - 1)
                                        THEN <<call.msg, c - p + 1>> ELSE area[c]]
        BY <2>1 DEF Text
      <3>3. \A i \in 1 .. n : area'[p + i - 1] = <<call.msg, i>>
        <4> HIDE DEF n, p
        <4> QED BY <3>1, <3>2
      <3>4. call'.pc = "terminator"
        BY <1>2, <2>1 DEF Text
      <3> QED BY <1>2, <3>3, <3>4 DEF CallWritten, TextCopied
    <2>2. CASE Terminator
      <3>1. p + n \in Around /\ \A i \in 1 .. n : p + i - 1 # p + n
        <4> HIDE DEF n, p
        <4> QED BY <1>1 DEF Around
      <3>2. area' = [area EXCEPT ![p + n] = Nul]
        BY <2>2 DEF Terminator
      <3>3. \A i \in 1 .. n : area[p + i - 1] = <<call.msg, i>>
        BY <1>2, <2>2 DEF Terminator, LInv, CallWritten, TextCopied
      <3>4. area'[p + n] = Nul /\ \A i \in 1 .. n : area'[p + i - 1] = <<call.msg, i>>
        <4>1. \A i \in 1 .. n : area'[p + i - 1] = area[p + i - 1]
          <5>1. \A i \in 1 .. n : p + i - 1 \in Around
            <6> HIDE DEF n, p
            <6> QED BY <1>1 DEF Around
          <5> HIDE DEF n, p
          <5> QED BY <1>1, <3>1, <3>2, <5>1
        <4> HIDE DEF n, p
        <4> QED BY <1>1, <3>1, <3>2, <3>3, <4>1
      <3> QED BY <1>2, <3>4 DEF CallWritten, TextCopied
    <2> QED BY <2>1, <2>2
  <1> QED BY <1>4, <1>5, <1>6, <1>7, <1>8, <1>9 DEF LInv

\* The position moves behind the message, which joins the lap.
LEMMA PositionKeepsLInv ==
    ASSUME LInv, Position
    PROVE  LInv'
  <1> DEFINE n == MsgLen[call.msg]
             p == call.pos
             e == [msg |-> call.msg, at |-> call.pos]
             end == p + n + 1
             holds(x) == /\ \A i \in 1 .. MsgLen[x.msg] : area'[x.at + i - 1] = <<x.msg, i>>
                         /\ area'[x.at + MsgLen[x.msg]] = Nul
  <1>1. /\ call \in Busy /\ call.msg \in Msg /\ n \in Nat /\ n > 0 /\ p \in Nat
        /\ call # Idle /\ call.pc = "position"
    BY IdleOrBusy DEF Position, LInv
  <1>2. /\ p \in {4, write_ptr} /\ end < Size
        /\ write_ptr # 0 /\ write_ptr \in 4 .. (Size - 1) /\ Size \in Nat
    BY <1>1, LogAssumption DEF LInv, Placed
  <1>3. /\ write_ptr' = end /\ call' = Idle /\ area' = area
        /\ lap' = IF p = 4 THEN <<e>> ELSE Append(lap, e)
    BY DEF Position, Entry
  <1>4. e \in [msg : Msg, at : Nat] /\ e.at = p /\ e.msg = call.msg
    BY <1>1
  <1>5. end \in 4 .. (Size - 1) /\ end \in Nat
    <2> HIDE DEF n, p
    <2> QED BY <1>1, <1>2
  <1>6. holds(e)
    <2>1. TextCopied /\ area[p + n] = Nul
      BY <1>1 DEF LInv, CallWritten
    <2> QED BY <1>3, <2>1 DEF TextCopied
  <1>7. Behind(e) = end
    BY DEF Behind
  <1>8. StaysInside' /\ Placed' /\ CallWritten'
    <2>1. Placed'
      <3> HIDE DEF end
      <3> QED BY <1>3, <1>5 DEF Placed
    <2>2. StaysInside'
      BY <1>2, <1>3 DEF LInv, StaysInside
    <2>3. CallWritten'
      BY <1>3 DEF CallWritten
    <2> QED BY <2>1, <2>2, <2>3
  <1>9. CASE p = 4
    <2>1. lap' = <<e>> /\ Len(lap') = 1 /\ lap'[1] = e /\ lap' # << >>
      BY <1>3, <1>9
    <2>2. LogType'
      <3>1. lap' \in Seq([msg : Msg, at : Nat])
        <4> HIDE DEF e
        <4> QED BY <1>4, <2>1
      <3> HIDE DEF e, end
      <3> QED BY <1>3, <1>5, <3>1 DEF LInv, LogType
    <2>3. Chained'
      <3> HIDE DEF e, end
      <3>1. \A i \in 1 .. Len(lap') : i = 1
        BY <2>1
      <3> QED BY <1>3, <1>4, <1>5, <1>7, <1>9, <2>1, <3>1 DEF Chained, Behind
    <2>4. LapKept'
      <3> HIDE DEF e, end
      <3>1. \A i \in 1 .. Len(lap') : i = 1
        BY <2>1
      <3>2. \A i \in 1 .. Len(lap') : holds(lap'[i])
        <4> HIDE DEF holds
        <4> QED BY <1>6, <2>1, <3>1
      <3> QED BY <3>2 DEF LapKept, Written
    <2> QED BY <1>8, <2>2, <2>3, <2>4 DEF LInv
  <1>10. CASE p # 4
    <2> DEFINE k == Len(lap)
    <2>1. p = write_ptr
      BY <1>2, <1>10
    <2>2. lap \in Seq([msg : Msg, at : Nat]) /\ k \in Nat
      BY DEF LInv, LogType
    <2>3. /\ lap' \in Seq([msg : Msg, at : Nat]) /\ Len(lap') = k + 1 /\ lap' # << >>
          /\ lap'[k + 1] = e /\ \A i \in 1 .. k : lap'[i] = lap[i]
      <3>1. lap' = Append(lap, e)
        BY <1>3, <1>10
      <3> HIDE DEF e
      <3> QED BY <1>4, <2>2, <3>1, AppendProperties
    <2>4. LogType'
      BY <1>3, <1>5, <2>3 DEF LInv, LogType
    <2>5. ASSUME NEW i \in 1 .. (k + 1) PROVE i \in 1 .. k \/ i = k + 1
      BY <2>2
    <2>6. Chained'
      <3>1. ASSUME NEW i \in 1 .. k
            PROVE  /\ lap'[i].at = IF i = 1 THEN 4 ELSE Behind(lap'[i - 1])
                   /\ 4 <= lap'[i].at
                   /\ Behind(lap'[i]) <= end
        <4>1. /\ lap[i].at = IF i = 1 THEN 4 ELSE Behind(lap[i - 1])
              /\ 4 <= lap[i].at /\ Behind(lap[i]) <= write_ptr
          BY <1>2 DEF LInv, Chained
        <4>2. i # 1 => i - 1 \in 1 .. k
          BY <2>2
        <4>3. Behind(lap[i]) \in Nat
          BY <1>2, EntriesInside DEF Behind
        <4>4. write_ptr <= end
          <5> HIDE DEF n
          <5> QED BY <1>1, <1>2, <2>1
        <4> HIDE DEF end, k
        <4> QED BY <1>2, <1>5, <2>3, <4>1, <4>2, <4>3, <4>4
      <3>2. /\ lap'[k + 1].at = IF k + 1 = 1 THEN 4 ELSE Behind(lap'[(k + 1) - 1])
            /\ 4 <= lap'[k + 1].at
            /\ Behind(lap'[k + 1]) <= end
        <4>1. write_ptr = IF lap = << >> THEN 4 ELSE Behind(lap[k])
          BY <1>2 DEF LInv, Chained
        <4>2. k + 1 # 1 => (k + 1) - 1 \in 1 .. k /\ (k + 1) - 1 = k /\ lap # << >>
          BY <2>2
        <4>3. k + 1 = 1 => lap = << >>
          BY <2>2
        <4>4. lap'[k + 1].at = write_ptr
          BY <1>4, <2>1, <2>3
        <4> HIDE DEF end, e, k, p
        <4> QED BY <1>2, <1>5, <1>7, <2>3, <4>1, <4>2, <4>3, <4>4
      <3> DEFINE follows(i) == /\ lap'[i].at = IF i = 1 THEN 4 ELSE Behind(lap'[i - 1])
                               /\ 4 <= lap'[i].at
                               /\ Behind(lap'[i]) <= end
      <3>3. ASSUME NEW i \in 1 .. (k + 1) PROVE follows(i)
        <4>1. CASE i = k + 1
          BY <4>1, <3>2
        <4>2. CASE i \in 1 .. k
          BY <4>2, <3>1
        <4> HIDE DEF k, follows
        <4> QED BY <2>5, <4>1, <4>2
      <3>4. write_ptr' = end /\ end = Behind(lap'[k + 1])
        <4> HIDE DEF e, k
        <4> QED BY <1>3, <1>7, <2>3
      <3>5. /\ \A i \in 1 .. Len(lap') : /\ lap'[i].at = IF i = 1 THEN 4 ELSE Behind(lap'[i - 1])
                                         /\ 4 <= lap'[i].at
                                         /\ Behind(lap'[i]) <= write_ptr'
            /\ write_ptr' = IF lap' = << >> THEN 4 ELSE Behind(lap'[Len(lap')])
        <4> HIDE DEF k, end
        <4> QED BY <2>3, <3>3, <3>4
      <3> QED BY <3>5 DEF Chained, Behind
    <2>7. LapKept'
      <3>1. ASSUME NEW i \in 1 .. k PROVE holds(lap'[i])
        <4>1. Written(lap[i])
          BY <1>1, <1>2, <1>10 DEF LInv, LapKept
        <4>2. lap'[i] = lap[i]
          BY <2>3
        <4> QED BY <1>3, <4>1, <4>2 DEF Written
      <3>2. \A i \in 1 .. Len(lap') : holds(lap'[i])
        <4> HIDE DEF e, k, holds
        <4> QED BY <1>6, <2>3, <2>5, <3>1
      <3> QED BY <3>2 DEF LapKept, Written
    <2> QED BY <1>8, <2>4, <2>6, <2>7 DEF LInv
  <1> QED BY <1>9, <1>10

LEMMA NextKeepsLInv == LInv /\ [Next]_vars => LInv'
  <1> SUFFICES ASSUME LInv, [Next]_vars PROVE LInv'
    OBVIOUS
  <1>1. CASE UNCHANGED vars
    BY <1>1 DEF vars, LInv, LogType, Placed, StaysInside, Chained, LapKept, CallWritten,
                TextCopied, Written, Behind
  <1> QED BY <1>1, LogInitKeepsLInv, LprintfKeepsLInv, CopyKeepsLInv, PositionKeepsLInv DEF Next

(***************************************************************************)
(* lprintf (50-77) writes neither on the position's four bytes nor behind  *)
(* the area, for every size of the area and every sequence of messages.    *)
(***************************************************************************)
THEOREM LogStaysInside == Spec => []StaysInside
  <1>1. LInv => StaysInside
    BY DEF LInv
  <1> QED BY <1>1, InitLInv, NextKeepsLInv, PTL DEF Spec

(***************************************************************************)
(* Whenever the ARM looks, what lies before the position is this lap's     *)
(* messages, whole and in order; only a message that wraps (70) is written *)
(* over them.                                                              *)
(***************************************************************************)
THEOREM LogIsReadable == Spec => []LapIsReadable
  <1>1. LInv => LapIsReadable
    <2> SUFFICES ASSUME LInv, write_ptr # 0, call.pc = "idle" \/ call.pos # 4
                 PROVE  /\ \A i \in 1 .. Len(lap) :
                             /\ Written(lap[i])
                             /\ lap[i].at = IF i = 1 THEN 4 ELSE Behind(lap[i - 1])
                        /\ write_ptr = IF lap = << >> THEN 4 ELSE Behind(lap[Len(lap)])
      BY DEF LapIsReadable
    <2>1. call = Idle \/ call.pos # 4
      BY IdleOrBusy DEF LInv
    <2> QED BY <2>1 DEF LInv, LapKept, Chained
  <1> QED BY <1>1, InitLInv, NextKeepsLInv, PTL DEF Spec
=============================================================================
