---------------------------- MODULE RpmsgProofs ----------------------------
(***************************************************************************)
(* What holds of Rpmsg for every announcement, every list of messages and  *)
(* every depth of the FIFOs.                                               *)
(***************************************************************************)
EXTENDS Rpmsg, SequenceTheorems, TLAPS

Byte == 0 .. 255
Word == [len : Nat] \cup [1 .. WordBytes -> Byte]
StreamWord == {ArmStream[n] : n \in 1 .. Len(ArmStream)}

SendType ==
    /\ tx \in Seq(Word) /\ unsent \in Seq(Word) /\ armGot \in Seq(Word)
    /\ amp_endpoint \in BOOLEAN
    /\ boot \in {"start", "enabled", "sending", "writing", "done"}

(***************************************************************************)
(* Nothing is sent before the endpoint exists; from then on every word of  *)
(* the announcement is in one of three places.  The thread has seen room   *)
(* in the FIFO when it writes, and nobody else fills it.                   *)
(***************************************************************************)
Sending ==
    /\ boot \in {"start", "enabled"} =>
         ~amp_endpoint /\ tx = << >> /\ unsent = << >> /\ armGot = << >>
    /\ amp_endpoint => (armGot \o tx) \o unsent = Words(Announce)
    /\ Len(tx) <= MAX_QUEUE
    /\ boot = "writing" => unsent # << >> /\ Len(tx) < MAX_QUEUE

SInv == SendType /\ Sending

Taken == armSent - Len(rx[ArmChannel])

IsrPc == {"idle", "test", "drain", "clear", "lost"}

ReceiveType ==
    /\ armSent \in 0 .. Len(ArmStream)
    /\ rx \in [Channel -> Seq(StreamWord)]
    /\ pending \subseteq Channel
    /\ isr \in [pc : IsrPc, ch : Nat]
    /\ isr.pc \in {"drain", "clear"} => isr.ch \in Channel
    /\ re \in [header : BOOLEAN, got : Nat, len : Nat, buf : Seq(Byte)]
    /\ delivered \in Seq(Seq(Byte))
    /\ amp_endpoint \in BOOLEAN

(***************************************************************************)
(* The ARM uses one channel, and its FIFO holds the last words it has sent.*)
(***************************************************************************)
Queued ==
    /\ \A ch \in Channel : ch # ArmChannel => rx[ch] = << >>
    /\ Len(rx[ArmChannel]) <= armSent
    /\ \A j \in 1 .. Len(rx[ArmChannel]) : rx[ArmChannel][j] = ArmStream[Taken + j]

(***************************************************************************)
(* The handler has taken the words before message i, and k words of it:    *)
(* a part of the header, or the header and a part of the payload.          *)
(***************************************************************************)
Reading(i, k, r) ==
    IF k < HdrWords
      THEN r.header /\ r.got = k /\ r.buf = << >>
      ELSE /\ ~r.header /\ r.len = Len(ArmMsgs[i])
           /\ Len(r.buf) = WordBytes * (k - HdrWords)
           /\ \A j \in 1 .. Len(r.buf) : r.buf[j] = ArmMsgs[i][j]

(***************************************************************************)
(* The callback has been given the last of the messages before message i.  *)
(***************************************************************************)
Given(i, d) ==
    /\ Len(d) <= i - 1
    /\ \A j \in 1 .. Len(d) : d[j] = ArmMsgs[i - 1 - Len(d) + j]

InMessage(i, t, r, d) ==
    /\ Starts[i] <= t
    /\ i <= Len(ArmMsgs) => t < Starts[i + 1]
    /\ i = Len(ArmMsgs) + 1 => t = Starts[i]
    /\ Reading(i, t - Starts[i], r)
    /\ Given(i, d)

InStep == \E i \in 1 .. Len(ArmMsgs) + 1 : InMessage(i, Taken, re, delivered)

EarlyDropped == ~amp_endpoint => delivered = << >>

(***************************************************************************)
(* After t words a message longer than the buffer has been stored past its *)
(* end.                                                                    *)
(***************************************************************************)
OverrunAt(t) ==
    \E i \in 1 .. Len(ArmMsgs) :
        /\ Len(ArmMsgs[i]) > RPMSG_MAX_MSG_SIZE
        /\ WordBytes * (t - Starts[i] - HdrWords) > RPMSG_MAX_MSG_SIZE

Reassembled == IF damaged THEN OverrunAt(Taken) ELSE InStep /\ EarlyDropped

RInv == ReceiveType /\ Queued /\ Reassembled

-----------------------------------------------------------------------------
(***************************************************************************)
(* The facts about \o that follow are given a name each: the prover then   *)
(* takes them at the sequences at hand, and does not go on concatenating.  *)
(***************************************************************************)
IsJoin(S, a, b, c) ==
    /\ c \in Seq(S) /\ Len(c) = Len(a) + Len(b)
    /\ \A i \in 1 .. Len(a) + Len(b) : c[i] = IF i <= Len(a) THEN a[i] ELSE b[i - Len(a)]

LEMMA JoinIs ==
    ASSUME NEW S, NEW a \in Seq(S), NEW b \in Seq(S)
    PROVE  IsJoin(S, a, b, a \o b)
  BY ConcatProperties, Zenon DEF IsJoin

Associates(a, b, c) == (a \o b) \o c = a \o (b \o c)

LEMMA JoinAssociates ==
    ASSUME NEW S, NEW a \in Seq(S), NEW b \in Seq(S), NEW c \in Seq(S)
    PROVE  Associates(a, b, c)
  BY ConcatAssociative, SMTT(60) DEF Associates

\* A header is HdrWords words that all carry the length.
LEMMA HeaderIs ==
    ASSUME NEW bytes \in Seq(Byte)
    PROVE  /\ Header(bytes) \in Seq(Word) /\ Len(Header(bytes)) = HdrWords
           /\ \A k \in 1 .. HdrWords : Header(bytes)[k].len = Len(bytes)
  <1>1. HdrWords \in Nat /\ Len(bytes) \in Nat
    BY RpmsgAssumption, LenProperties
  <1>2. \A k \in 1 .. HdrWords : [len |-> Len(bytes)] \in Word
    BY <1>1 DEF Word
  <1>3. Header(bytes) \in [1 .. HdrWords -> Word]
    BY <1>2 DEF Header
  <1>4. Header(bytes) \in Seq(Word) /\ Len(Header(bytes)) = HdrWords
    BY <1>1, <1>3
  <1> QED
    BY <1>4 DEF Header

\* A payload is as many words as its bytes need; its bytes are their places.
LEMMA PackIs ==
    ASSUME NEW bytes \in Seq(Byte)
    PROVE  LET n == (Len(bytes) + WordBytes - 1) \div WordBytes  IN
           /\ n \in Nat /\ Len(bytes) <= WordBytes * n
           /\ WordBytes * n < Len(bytes) + WordBytes
           /\ Pack(bytes) \in Seq(Word) /\ Len(Pack(bytes)) = n
           /\ \A k \in 1 .. n : /\ Pack(bytes)[k] \in [1 .. WordBytes -> Byte]
                                /\ \A j \in 1 .. WordBytes :
                                     LET i == WordBytes * (k - 1) + j  IN
                                     Pack(bytes)[k][j] = IF i <= Len(bytes) THEN bytes[i] ELSE 0
  <1> DEFINE n == (Len(bytes) + WordBytes - 1) \div WordBytes
             at(k, j) == LET i == WordBytes * (k - 1) + j
                         IN  IF i <= Len(bytes) THEN bytes[i] ELSE 0
             w(k) == [j \in 1 .. WordBytes |-> at(k, j)]
  <1>1. /\ Len(bytes) \in Nat
        /\ \A i \in 1 .. Len(bytes) : bytes[i] \in Byte
    BY LenProperties, ElementOfSeq
  <1>2. n \in Nat /\ Len(bytes) <= WordBytes * n /\ WordBytes * n < Len(bytes) + WordBytes
    BY <1>1, SMT DEF WordBytes
  <1>3. \A k \in 1 .. n, j \in 1 .. WordBytes : at(k, j) \in Byte
    BY <1>1, <1>2 DEF WordBytes, Byte
  <1>4. \A k \in 1 .. n : w(k) \in [1 .. WordBytes -> Byte]
    BY <1>3
  <1>5. Pack(bytes) = [k \in 1 .. n |-> w(k)]
    BY DEF Pack
  <1> HIDE DEF n, w
  <1>6. Pack(bytes) \in [1 .. n -> Word]
    BY <1>4, <1>5 DEF Word
  <1>7. Pack(bytes) \in Seq(Word) /\ Len(Pack(bytes)) = n
    BY <1>2, <1>6
  <1>8. \A k \in 1 .. n, j \in 1 .. WordBytes : w(k)[j] = at(k, j)
    BY DEF w
  <1>9. \A k \in 1 .. n : Pack(bytes)[k] = w(k)
    BY <1>5
  <1> QED
    BY <1>2, <1>4, <1>7, <1>8, <1>9 DEF n

\* The words of a message: its header, then its payload.
LEMMA WordsAre ==
    ASSUME NEW bytes \in Seq(Byte)
    PROVE  LET n == (Len(bytes) + WordBytes - 1) \div WordBytes  IN
           /\ Words(bytes) \in Seq(Word) /\ Len(Words(bytes)) = HdrWords + n
           /\ \A k \in 1 .. HdrWords : Words(bytes)[k].len = Len(bytes)
           /\ \A k \in 1 .. n : Words(bytes)[HdrWords + k] = Pack(bytes)[k]
  <1> DEFINE n == (Len(bytes) + WordBytes - 1) \div WordBytes
  <1>1. n \in Nat /\ Pack(bytes) \in Seq(Word) /\ Len(Pack(bytes)) = n
    BY PackIs
  <1>2. /\ Header(bytes) \in Seq(Word) /\ Len(Header(bytes)) = HdrWords
        /\ \A k \in 1 .. HdrWords : Header(bytes)[k].len = Len(bytes)
    BY HeaderIs
  <1>3. HdrWords \in Nat
    BY RpmsgAssumption
  <1> HIDE DEF n
  <1>4. /\ Words(bytes) \in Seq(Word) /\ Len(Words(bytes)) = HdrWords + n
        /\ \A k \in 1 .. Len(Words(bytes)) :
             Words(bytes)[k] = IF k <= HdrWords THEN Header(bytes)[k] ELSE Pack(bytes)[k - HdrWords]
    <2>1. IsJoin(Word, Header(bytes), Pack(bytes), Words(bytes))
      <3>1. Words(bytes) = Header(bytes) \o Pack(bytes)
        BY DEF Words
      <3> QED
        BY <1>1, <1>2, <3>1, JoinIs
    <2> QED
      BY <1>1, <1>2, <1>3, <2>1 DEF IsJoin
  <1>5. \A k \in 1 .. HdrWords : Words(bytes)[k].len = Len(bytes)
    BY <1>1, <1>2, <1>3, <1>4
  <1>6. \A k \in 1 .. n : Words(bytes)[HdrWords + k] = Pack(bytes)[k]
    BY <1>1, <1>3, <1>4
  <1> QED
    BY <1>4, <1>5, <1>6 DEF n

Moves(S, a, b) ==
    /\ Append(a, Head(b)) \in Seq(S) /\ Tail(b) \in Seq(S)
    /\ Len(Tail(b)) = Len(b) - 1
    /\ Append(a, Head(b)) \o Tail(b) = a \o b

\* An element that goes from the head of one sequence to the end of another.
LEMMA MoveOne ==
    ASSUME NEW S, NEW a \in Seq(S), NEW b \in Seq(S), b # << >>
    PROVE  Moves(S, a, b)
  <1> DEFINE h == <<Head(b)>>
  <1>1. Head(b) \in S /\ Tail(b) \in Seq(S) /\ Len(Tail(b)) = Len(b) - 1
    BY HeadTailProperties
  <1>2. h \in Seq(S) /\ Append(a, Head(b)) = a \o h
    BY <1>1, AppendIsConcat
  <1>3. Append(a, Head(b)) \in Seq(S)
    BY <1>1, AppendProperties
  <1>4. b = h \o Tail(b)
    BY <1>1
  <1> HIDE DEF h
  <1>5. (a \o h) \o Tail(b) = a \o (h \o Tail(b))
    <2>1. Associates(a, h, Tail(b))
      BY <1>1, <1>2, JoinAssociates
    <2> QED
      BY <2>1 DEF Associates
  <1> QED
    BY <1>1, <1>2, <1>3, <1>4, <1>5 DEF Moves

LEMMA DivMod ==
    ASSUME NEW i \in Nat, NEW n \in Nat, i < WordBytes * n
    PROVE  /\ i \div WordBytes \in 0 .. n - 1 /\ i % WordBytes \in 0 .. WordBytes - 1
           /\ WordBytes * (i \div WordBytes) + (i % WordBytes) = i
  BY SMT DEF WordBytes

-----------------------------------------------------------------------------
LEMMA AnnounceIsBytes == Announce \in Seq(Byte) /\ MAX_QUEUE \in Nat \ {0} /\ HdrWords \in Nat \ {0}
  BY RpmsgAssumption DEF Byte

LEMMA SInvInit == Init => SInv
  <1> SUFFICES ASSUME Init PROVE SInv
    OBVIOUS
  <1>1. << >> \in Seq(Word) /\ Len(<< >>) = 0
    BY EmptySeq
  <1>2. tx = << >> /\ unsent = << >> /\ armGot = << >> /\ amp_endpoint = FALSE /\ boot = "start"
    BY DEF Init
  <1>3. SendType
    BY <1>1, <1>2 DEF SendType
  <1>4. Len(tx) <= MAX_QUEUE
    BY <1>1, <1>2, AnnounceIsBytes
  <1> QED
    BY <1>2, <1>3, <1>4 DEF SInv, Sending

LEMMA SInvNext == SInv /\ [Next]_vars => SInv'
  <1> SUFFICES ASSUME SInv, [Next]_vars PROVE SInv'
    OBVIOUS
  <1> USE DEF SInv, SendType
  <1>a. MAX_QUEUE \in Nat /\ Len(tx) \in Nat /\ Len(unsent) \in Nat
    BY AnnounceIsBytes, LenProperties
  <1>1. CASE UNCHANGED <<tx, unsent, amp_endpoint, boot, armGot>>
    BY <1>1 DEF Sending
  <1>2. CASE EnableIrq
    BY <1>2 DEF EnableIrq, Sending, arm
  <1>3. CASE CreateEndpoint
    <2>1. /\ tx = << >> /\ tx' = << >> /\ armGot' = << >> /\ unsent' = Words(Announce)
          /\ boot' = "sending" /\ amp_endpoint' = TRUE
      BY <1>3 DEF CreateEndpoint, Sending, arm
    <2>2. Words(Announce) \in Seq(Word)
      BY WordsAre, AnnounceIsBytes
    <2>3. (<< >> \o << >>) \o Words(Announce) = Words(Announce)
      <3>1. << >> \in Seq(Word)
        BY EmptySeq
      <3> QED
        BY <2>2, <3>1, ConcatEmptySeq
    <2>4. Len(tx') <= MAX_QUEUE
      BY <2>1, <1>a DEF Sending
    <2>5. SendType'
      BY <2>1, <2>2, EmptySeq
    <2> QED
      BY <2>1, <2>3, <2>4, <2>5 DEF Sending
  <1>4. CASE SendReady
    <2>1. Len(tx) < MAX_QUEUE
      BY <1>4, <1>a DEF SendReady, Sending
    <2> QED
      BY <1>4, <2>1 DEF SendReady, Sending, arm
  <1>5. CASE SendWord
    <2>1. unsent # << >> /\ Len(tx) < MAX_QUEUE /\ boot' = "sending"
      BY <1>5 DEF SendWord, Sending
    <2>2. tx' = Append(tx, Head(unsent)) /\ unsent' = Tail(unsent)
      BY <1>5, <2>1 DEF SendWord
    <2>3. UNCHANGED <<amp_endpoint, armGot>>
      BY <1>5 DEF SendWord, arm
    <2>4. /\ tx' \in Seq(Word) /\ unsent' \in Seq(Word)
          /\ tx' \o unsent' = tx \o unsent
      <3>1. Moves(Word, tx, unsent)
        BY <2>1, MoveOne DEF SInv, SendType
      <3> QED
        BY <2>2, <3>1 DEF Moves
    <2>5. Len(tx') <= MAX_QUEUE
      <3>1. Head(unsent) \in Word
        BY <2>1, HeadTailProperties
      <3>2. Len(tx') = Len(tx) + 1
        BY <2>2, <3>1, AppendProperties
      <3> QED
        BY <2>1, <3>2, <1>a
    <2>6. (armGot' \o tx') \o unsent' = (armGot \o tx) \o unsent
      <3>1. /\ tx \in Seq(Word) /\ unsent \in Seq(Word) /\ armGot \in Seq(Word)
            /\ tx' \in Seq(Word) /\ unsent' \in Seq(Word)
        BY <2>4
      <3>2. Associates(armGot, tx, unsent) /\ Associates(armGot, tx', unsent')
        BY <3>1, JoinAssociates
      <3> QED
        BY <3>2, <2>3, <2>4 DEF Associates
    <2> QED
      BY <2>1, <2>3, <2>4, <2>5, <2>6 DEF Sending
  <1>6. CASE Sent
    BY <1>6 DEF Sent, Sending, arm
  <1>7. CASE ArmReceive
    <2>1. tx # << >> /\ armGot' = Append(armGot, Head(tx)) /\ tx' = Tail(tx)
      BY <1>7 DEF ArmReceive
    <2>2. UNCHANGED <<unsent, amp_endpoint, boot>>
      BY <1>7 DEF ArmReceive
    <2>3. /\ tx' \in Seq(Word) /\ armGot' \in Seq(Word) /\ Len(tx') = Len(tx) - 1
          /\ armGot' \o tx' = armGot \o tx
      <3>1. tx \in Seq(Word) /\ armGot \in Seq(Word)
        BY DEF SInv, SendType
      <3> QED
        <4>1. Moves(Word, armGot, tx)
          BY <2>1, <3>1, MoveOne
        <4> QED
          BY <2>1, <4>1 DEF Moves
    <2>4. boot \notin {"start", "enabled"}
      BY <2>1 DEF Sending
    <2>5. Len(tx') <= MAX_QUEUE /\ (boot = "writing" => Len(tx') < MAX_QUEUE)
      BY <2>3, <1>a DEF Sending
    <2> QED
      BY <2>2, <2>3, <2>4, <2>5 DEF Sending
  <1>8. CASE Isr
    BY <1>8, <1>1 DEF Isr, IsrEnter, IsrTest, IsrDrain, IsrEmpty, IsrClear, thread, arm
  <1>9. CASE ArmSend
    BY <1>9, <1>1 DEF ArmSend, thread
  <1>10. CASE UNCHANGED vars
    BY <1>10, <1>1 DEF vars
  <1> QED
    BY <1>2, <1>3, <1>4, <1>5, <1>6, <1>7, <1>8, <1>9, <1>10 DEF Next, Thread

(***************************************************************************)
(* The words the invariant speaks of are what SendsIntact asks for.        *)
(***************************************************************************)
LEMMA SInvIntact == SInv => SendsIntact
  <1> DEFINE n == (Len(Announce) + WordBytes - 1) \div WordBytes
             W == Words(Announce)
  <1> SUFFICES ASSUME SInv, amp_endpoint
               PROVE  /\ Len(W) = HdrWords + n
                      /\ \A k \in 1 .. HdrWords : W[k].len = Len(Announce)
                      /\ \A i \in 1 .. Len(Announce) :
                           W[HdrWords + 1 + (i - 1) \div WordBytes][1 + ((i - 1) % WordBytes)]
                             = Announce[i]
    BY DEF SendsIntact, SInv, Sending
  <1> USE AnnounceIsBytes
  <1>1. /\ Len(W) = HdrWords + n
        /\ \A k \in 1 .. HdrWords : W[k].len = Len(Announce)
        /\ \A k \in 1 .. n : W[HdrWords + k] = Pack(Announce)[k]
    BY WordsAre
  <1>2. /\ n \in Nat /\ Len(Announce) <= WordBytes * n
        /\ \A k \in 1 .. n, j \in 1 .. WordBytes :
             LET i == WordBytes * (k - 1) + j  IN
             Pack(Announce)[k][j] = IF i <= Len(Announce) THEN Announce[i] ELSE 0
    BY PackIs
  <1>3. Len(Announce) \in Nat
    BY LenProperties
  <1> HIDE DEF n, W
  <1>4. ASSUME NEW i \in 1 .. Len(Announce)
        PROVE  W[HdrWords + 1 + (i - 1) \div WordBytes][1 + ((i - 1) % WordBytes)] = Announce[i]
    <2> DEFINE k == 1 + (i - 1) \div WordBytes
               j == 1 + ((i - 1) % WordBytes)
    <2>1. k \in 1 .. n /\ j \in 1 .. WordBytes /\ WordBytes * (k - 1) + j = i
      <3>1. i - 1 \in Nat /\ i - 1 < WordBytes * n
        BY <1>2, <1>3 DEF WordBytes
      <3>2. /\ (i - 1) \div WordBytes \in 0 .. n - 1 /\ (i - 1) % WordBytes \in 0 .. WordBytes - 1
            /\ WordBytes * ((i - 1) \div WordBytes) + ((i - 1) % WordBytes) = i - 1
        BY <1>2, <3>1, DivMod
      <3> QED
        BY <1>2, <1>3, <3>2 DEF WordBytes
    <2>2. HdrWords + 1 + (i - 1) \div WordBytes = HdrWords + k
      BY <1>3 DEF WordBytes
    <2> HIDE DEF k, j
    <2>3. W[HdrWords + k] = Pack(Announce)[k]
      BY <1>1, <2>1
    <2>4. Pack(Announce)[k][j] = Announce[i]
      BY <1>2, <1>3, <2>1
    <2>5. W[HdrWords + k][j] = Announce[i]
      BY <2>3, <2>4
    <2> QED
      BY <2>2, <2>5 DEF j
  <1> QED
    BY <1>1, <1>4

(***************************************************************************)
(* The announcement reaches the ARM whole: no word is written to a full    *)
(* FIFO, and the bytes are in their places.                                *)
(***************************************************************************)
THEOREM AnnouncementIsWhole == Spec => []SendsIntact
  BY SInvInit, SInvNext, SInvIntact, PTL DEF Spec

-----------------------------------------------------------------------------
(***************************************************************************)
(* The words of message i, and where they are in what the ARM sends.       *)
(***************************************************************************)
LEMMA Streamed ==
    /\ Len(ArmMsgs) \in Nat /\ Len(ArmStream) \in Nat /\ HdrWords \in Nat \ {0}
    /\ Starts[1] = 0 /\ Starts[Len(ArmMsgs) + 1] = Len(ArmStream)
    /\ \A i \in 1 .. Len(ArmMsgs) :
         /\ ArmMsgs[i] \in Seq(Byte)
         /\ Starts[i] \in Nat /\ Len(Words(ArmMsgs[i])) \in Nat
         /\ Len(Words(ArmMsgs[i])) >= HdrWords
         /\ Starts[i + 1] = Starts[i] + Len(Words(ArmMsgs[i]))
         /\ Starts[i + 1] <= Len(ArmStream)
         /\ \A k \in 1 .. Len(Words(ArmMsgs[i])) : ArmStream[Starts[i] + k] = Words(ArmMsgs[i])[k]
  <1>1. Len(ArmMsgs) \in Nat /\ HdrWords \in Nat \ {0} /\ ArmMsgs \in Seq(Seq(Byte))
    BY RpmsgAssumption, LenProperties DEF Byte
  <1>2. ASSUME NEW i \in 1 .. Len(ArmMsgs)
        PROVE  /\ ArmMsgs[i] \in Seq(Byte)
               /\ Len(Words(ArmMsgs[i])) \in Nat /\ Len(Words(ArmMsgs[i])) >= HdrWords
    <2>1. ArmMsgs[i] \in Seq(Byte)
      BY <1>1, ElementOfSeq
    <2> DEFINE n == (Len(ArmMsgs[i]) + WordBytes - 1) \div WordBytes
    <2>2. n \in Nat
      BY <2>1, PackIs
    <2>3. Len(Words(ArmMsgs[i])) = HdrWords + n
      BY <2>1, WordsAre
    <2> HIDE DEF n
    <2> QED
      BY <1>1, <2>1, <2>2, <2>3
  <1> QED
    BY <1>1, <1>2, StreamAssumption

LEMMA ArrayIsSeq ==
    ASSUME NEW n \in Nat, NEW S, NEW f \in [1 .. n -> S]
    PROVE  f \in Seq(S) /\ Len(f) = n
  OBVIOUS

(***************************************************************************)
(* A word of the payload: four more bytes, as far as there are any.  The   *)
(* word is the message's last one when its bytes are then all there.       *)
(***************************************************************************)
LEMMA PayloadWord ==
    ASSUME NEW m \in Seq(Byte), NEW k \in Nat, k >= HdrWords, k < Len(Words(m))
    PROVE  LET w == Words(m)[k + 1]
               b == WordBytes * (k - HdrWords)
           IN  /\ w \in Seq(Byte) /\ Len(w) = WordBytes
               /\ b \in Nat /\ b < Len(m)
               /\ \A j \in 1 .. WordBytes : b + j <= Len(m) => w[j] = m[b + j]
               /\ Len(Words(m)) = k + 1 <=> b + WordBytes >= Len(m)
  <1> DEFINE n == (Len(m) + WordBytes - 1) \div WordBytes
             w == Words(m)[k + 1]
             b == WordBytes * (k - HdrWords)
  <1>1. HdrWords \in Nat /\ Len(m) \in Nat
    BY RpmsgAssumption, LenProperties
  <1>2. /\ n \in Nat /\ Len(m) <= WordBytes * n /\ WordBytes * n < Len(m) + WordBytes
        /\ \A q \in 1 .. n :
             /\ Pack(m)[q] \in [1 .. WordBytes -> Byte]
             /\ \A j \in 1 .. WordBytes :
                  LET i == WordBytes * (q - 1) + j  IN
                  Pack(m)[q][j] = IF i <= Len(m) THEN m[i] ELSE 0
    BY PackIs
  <1>3. /\ Len(Words(m)) = HdrWords + n
        /\ \A q \in 1 .. n : Words(m)[HdrWords + q] = Pack(m)[q]
    BY WordsAre
  <1> HIDE DEF n
  <1> DEFINE q == k + 1 - HdrWords
  <1>4. q \in 1 .. n /\ HdrWords + q = k + 1 /\ b = WordBytes * (q - 1) /\ q - 1 = k - HdrWords
    BY <1>1, <1>2, <1>3
  <1>5. w = Pack(m)[q]
    BY <1>3, <1>4
  <1>6. b \in Nat /\ b < Len(m) /\ (n = q <=> b + WordBytes >= Len(m))
    BY <1>1, <1>2, <1>4 DEF WordBytes
  <1>7. Len(Words(m)) = k + 1 <=> n = q
    BY <1>1, <1>2, <1>3, <1>4
  <1> HIDE DEF q, w, b
  <1>8. w \in [1 .. WordBytes -> Byte]
    BY <1>2, <1>4, <1>5
  <1>9. \A j \in 1 .. WordBytes : b + j <= Len(m) => w[j] = m[b + j]
    BY <1>2, <1>4, <1>5
  <1>10. w \in Seq(Byte) /\ Len(w) = WordBytes
    BY <1>8, ArrayIsSeq DEF WordBytes
  <1> QED
    BY <1>6, <1>7, <1>9, <1>10 DEF b, w

LEMMA HeaderWord ==
    ASSUME NEW m \in Seq(Byte), NEW k \in Nat, k < HdrWords
    PROVE  Words(m)[k + 1].len = Len(m) /\ (Len(Words(m)) = HdrWords <=> Len(m) = 0)
  <1> DEFINE n == (Len(m) + WordBytes - 1) \div WordBytes
  <1>1. HdrWords \in Nat /\ Len(m) \in Nat
    BY RpmsgAssumption, LenProperties
  <1>2. n \in Nat /\ Len(m) <= WordBytes * n /\ WordBytes * n < Len(m) + WordBytes
    BY PackIs
  <1>3. /\ Len(Words(m)) = HdrWords + n
        /\ \A q \in 1 .. HdrWords : Words(m)[q].len = Len(m)
    BY WordsAre
  <1> HIDE DEF n
  <1>4. n = 0 <=> Len(m) = 0
    BY <1>1, <1>2 DEF WordBytes
  <1>5. k + 1 \in 1 .. HdrWords
    BY <1>1
  <1> QED
    BY <1>1, <1>2, <1>3, <1>4, <1>5

(***************************************************************************)
(* With the last word of message i the callback is given it, if there is   *)
(* an endpoint, and the next word begins the next message.                 *)
(***************************************************************************)
LEMMA NextMessage ==
    ASSUME NEW i \in 1 .. Len(ArmMsgs), NEW t \in Nat, t + 1 = Starts[i + 1],
           NEW d \in Seq(Seq(Byte)), Given(i, d), NEW d2,
           NEW amp \in BOOLEAN, ~amp => d = << >>,
           d2 = IF amp THEN Append(d, ArmMsgs[i]) ELSE d
    PROVE  /\ InMessage(i + 1, t + 1, Fresh, d2)
           /\ d2 \in Seq(Seq(Byte)) /\ (~amp => d2 = << >>)
  <1>1. /\ Len(ArmMsgs) \in Nat /\ HdrWords \in Nat \ {0} /\ ArmMsgs[i] \in Seq(Byte)
        /\ Starts[Len(ArmMsgs) + 1] = Len(ArmStream)
        /\ i + 1 \in 1 .. Len(ArmMsgs) =>
             /\ Starts[i + 2] = Starts[i + 1] + Len(Words(ArmMsgs[i + 1]))
             /\ Len(Words(ArmMsgs[i + 1])) \in Nat
             /\ Len(Words(ArmMsgs[i + 1])) >= HdrWords
    BY Streamed
  <1>2. /\ i + 1 <= Len(ArmMsgs) => t + 1 < Starts[i + 2]
        /\ t + 1 - Starts[i + 1] = 0
    <2>1. ASSUME i + 1 <= Len(ArmMsgs) PROVE t + 1 < Starts[i + 2]
      <3> DEFINE l == Len(Words(ArmMsgs[i + 1]))
      <3>1. i + 1 \in 1 .. Len(ArmMsgs)
        BY <2>1, <1>1
      <3>2. Starts[i + 2] = (t + 1) + l /\ l \in Nat /\ l >= HdrWords
        BY <3>1, <1>1
      <3> HIDE DEF l
      <3> QED
        BY <3>2, <1>1
    <2> QED
      BY <2>1
  <1>3. Reading(i + 1, 0, Fresh)
    BY <1>1 DEF Reading, Fresh
  <1>4. i \in Nat /\ i >= 1 /\ Len(d) \in Nat /\ Len(d) <= i - 1
    BY <1>1, LenProperties DEF Given
  <1>5. d2 \in Seq(Seq(Byte)) /\ Given(i + 1, d2)
    <2>1. CASE amp
      <3>1. /\ d2 \in Seq(Seq(Byte)) /\ Len(d2) = Len(d) + 1
            /\ \A j \in 1 .. Len(d) : d2[j] = d[j]
            /\ d2[Len(d) + 1] = ArmMsgs[i]
        BY <2>1, <1>1, AppendProperties
      <3>2. ASSUME NEW j \in 1 .. Len(d2) PROVE d2[j] = ArmMsgs[(i + 1) - 1 - Len(d2) + j]
        <4>1. j \in Nat /\ j >= 1 /\ j <= Len(d) + 1
          BY <3>1, <1>4
        <4>2. (i + 1) - 1 - Len(d2) + j = i - 1 - Len(d) + j
          <5>1. Len(d2) = Len(d) + 1
            BY <3>1
          <5>2. (i + 1) - 1 - (Len(d) + 1) + j = i - 1 - Len(d) + j
            BY <4>1, <1>4
          <5> QED
            BY <5>1, <5>2
        <4>3. CASE j = Len(d) + 1
          <5>1. i - 1 - Len(d) + j = i
            BY <4>3, <1>4
          <5> QED
            BY <3>1, <4>2, <4>3, <5>1
        <4>4. CASE j # Len(d) + 1
          <5>1. j \in 1 .. Len(d)
            BY <4>1, <4>4, <1>4
          <5>2. d2[j] = ArmMsgs[i - 1 - Len(d) + j]
            BY <3>1, <5>1 DEF Given
          <5> QED
            BY <4>2, <5>2
        <4> QED
          BY <4>3, <4>4
      <3>3. Len(d2) <= (i + 1) - 1
        BY <3>1, <1>4
      <3> QED
        BY <3>1, <3>2, <3>3 DEF Given
    <2>2. CASE ~amp
      <3>1. d2 = d /\ d2 = << >> /\ Len(d2) = 0
        BY <2>2
      <3>2. Len(d2) <= (i + 1) - 1 /\ 1 .. Len(d2) = {}
        BY <3>1, <1>4
      <3> QED
        BY <3>1, <3>2 DEF Given
    <2> QED
      BY <2>1, <2>2
  <1>6. InMessage(i + 1, t + 1, Fresh, d2)
    <2>1. i + 1 = Len(ArmMsgs) + 1 => t + 1 = Starts[i + 1]
      OBVIOUS
    <2>2. (i + 1) + 1 = i + 2 /\ Starts[i + 1] <= t + 1
      OBVIOUS
    <2> QED
      BY <1>2, <1>3, <1>5, <2>1, <2>2 DEF InMessage
  <1> QED
    BY <1>5, <1>6

ReType == re \in [header : BOOLEAN, got : Nat, len : Nat, buf : Seq(Byte)]

(***************************************************************************)
(* The handler takes a word of a header.                                   *)
(***************************************************************************)
LEMMA HeaderStep ==
    ASSUME NEW i \in 1 .. Len(ArmMsgs), NEW t \in Nat,
           ReType, delivered \in Seq(Seq(Byte)), amp_endpoint \in BOOLEAN, EarlyDropped,
           InMessage(i, t, re, delivered), t - Starts[i] < HdrWords,
           RxHeader(Words(ArmMsgs[i])[t - Starts[i] + 1])
    PROVE  /\ ReType' /\ delivered' \in Seq(Seq(Byte))
           /\ ~amp_endpoint => delivered' = << >>
           /\ \E n \in 1 .. Len(ArmMsgs) + 1 : InMessage(n, t + 1, re', delivered')
  <1> DEFINE k == t - Starts[i]
             m == ArmMsgs[i]
             w == Words(m)[k + 1]
  <1>1. /\ Len(ArmMsgs) \in Nat /\ HdrWords \in Nat \ {0} /\ m \in Seq(Byte)
        /\ Starts[i] \in Nat /\ Len(Words(m)) \in Nat /\ Len(Words(m)) >= HdrWords
        /\ Starts[i + 1] = Starts[i] + Len(Words(m))
    BY Streamed
  <1>2. i \in Nat /\ i + 1 \in 1 .. Len(ArmMsgs) + 1 /\ i \in 1 .. Len(ArmMsgs) + 1
        /\ i <= Len(ArmMsgs)
    BY <1>1
  <1>3. k \in Nat /\ k < HdrWords /\ Starts[i] <= t /\ t = Starts[i] + k
    <2>1. Starts[i] <= t /\ t - Starts[i] < HdrWords
      BY DEF InMessage
    <2>2. t - Starts[i] \in Nat /\ t = Starts[i] + (t - Starts[i])
      <3> DEFINE s == Starts[i]
      <3>1. s \in Nat /\ s <= t
        BY <2>1, <1>1
      <3> HIDE DEF s
      <3>2. t - s \in Nat /\ t = s + (t - s)
        BY <3>1
      <3> QED
        BY <3>2 DEF s
    <2> QED
      BY <2>1, <2>2
  <1>p. /\ (t + 1) - Starts[i] = k + 1 /\ Starts[i] <= t + 1 /\ i # Len(ArmMsgs) + 1
        /\ k + 1 < Len(Words(m)) <=> t + 1 < Starts[i + 1]
        /\ k + 1 = Len(Words(m)) <=> t + 1 = Starts[i + 1]
    <2> HIDE DEF k, m
    <2>1. i # Len(ArmMsgs) + 1
      BY <1>1, <1>2
    <2> QED
      <3> DEFINE s == Starts[i]
                 l == Len(Words(m))
                 e == Starts[i + 1]
      <3>1. s \in Nat /\ l \in Nat /\ e = s + l /\ t = s + k /\ k \in Nat
        BY <1>1, <1>3
      <3> HIDE DEF s, l, e
      <3>2. /\ (t + 1) - s = k + 1 /\ s <= t + 1
            /\ k + 1 < l <=> t + 1 < e
            /\ k + 1 = l <=> t + 1 = e
        BY <3>1
      <3> QED
        BY <2>1, <3>2 DEF s, l, e
  <1>4. re.header /\ re.got = k /\ re.buf = << >> /\ Given(i, delivered)
    BY <1>3 DEF InMessage, Reading
  <1> HIDE DEF m, k
  <1>5. w.len = Len(m) /\ (Len(Words(m)) = HdrWords <=> Len(m) = 0)
    BY <1>1, <1>3, HeaderWord
  <1>6. RxHeader(w)
    BY DEF m, k
  <1>7. Len(m) \in Nat /\ (Len(m) = 0 => m = << >>)
    BY <1>1, LenProperties, EmptySeq
  <1> HIDE DEF w
  <1>8. CASE k + 1 < HdrWords
    <2>1. re' = [re EXCEPT !.got = k + 1, !.len = Len(m)] /\ delivered' = delivered
      BY <1>4, <1>5, <1>6, <1>8 DEF RxHeader
    <2>2. /\ re'.header /\ re'.got = k + 1 /\ re'.buf = << >> /\ ReType'
      <3>1. /\ re'.header = re.header /\ re'.got = k + 1 /\ re'.len = Len(m)
            /\ re'.buf = re.buf
            /\ re' = [header |-> re.header, got |-> k + 1, len |-> Len(m), buf |-> re.buf]
        BY <2>1 DEF ReType
      <3>2. ReType'
        <4>1. re.header \in BOOLEAN /\ re.buf \in Seq(Byte) /\ k + 1 \in Nat
          BY <1>3 DEF ReType
        <4> QED
          BY <3>1, <4>1, <1>7 DEF ReType
      <3> QED
        BY <3>1, <3>2, <1>4
    <2>3. (t + 1) - Starts[i] = k + 1 /\ t + 1 < Starts[i + 1]
      <3>1. k + 1 < Len(Words(m))
        BY <1>1, <1>3, <1>8
      <3> QED
        BY <3>1, <1>p
    <2>4. Reading(i, k + 1, re')
      BY <2>2, <1>8 DEF Reading
    <2>5. InMessage(i, t + 1, re', delivered')
      BY <1>4, <1>p, <2>1, <2>3, <2>4 DEF InMessage
    <2> QED
      BY <2>1, <2>2, <2>5, <1>2 DEF EarlyDropped
  <1>9. CASE ~(k + 1 < HdrWords) /\ Len(m) = 0
    <2>1. re' = Fresh /\ delivered' = IF amp_endpoint THEN Append(delivered, m) ELSE delivered
      BY <1>4, <1>5, <1>6, <1>7, <1>9 DEF RxHeader, Deliver
    <2>2. t + 1 = Starts[i + 1]
      <3>1. k + 1 = Len(Words(m))
        BY <1>1, <1>3, <1>5, <1>9
      <3> QED
        BY <3>1, <1>p
    <2>3. /\ InMessage(i + 1, t + 1, Fresh, delivered')
          /\ delivered' \in Seq(Seq(Byte)) /\ (~amp_endpoint => delivered' = << >>)
      BY <1>4, <2>1, <2>2, NextMessage DEF m, EarlyDropped
    <2>4. ReType'
      BY <2>1, EmptySeq DEF ReType, Fresh
    <2> QED
      BY <2>1, <2>3, <2>4, <1>2
  <1>10. CASE ~(k + 1 < HdrWords) /\ Len(m) # 0
    <2>1. /\ re' = [re EXCEPT !.header = FALSE, !.got = 0, !.len = Len(m)]
          /\ delivered' = delivered
      BY <1>4, <1>5, <1>6, <1>10 DEF RxHeader
    <2>2. /\ ~re'.header /\ re'.len = Len(m) /\ re'.buf = << >> /\ ReType'
      BY <2>1, <1>4, <1>7 DEF ReType
    <2>3. k + 1 = HdrWords /\ (t + 1) - Starts[i] = HdrWords /\ t + 1 < Starts[i + 1]
      <3>1. k + 1 = HdrWords
        BY <1>1, <1>3, <1>10
      <3>2. k + 1 < Len(Words(m))
        BY <3>1, <1>1, <1>5, <1>10
      <3> QED
        BY <3>1, <3>2, <1>p
    <2>4. Reading(i, HdrWords, re')
      <3>1. WordBytes * (HdrWords - HdrWords) = 0 /\ Len(<< >>) = 0
        BY <1>1 DEF WordBytes
      <3> QED
        BY <2>2, <3>1, <1>1 DEF Reading, m
    <2>5. InMessage(i, t + 1, re', delivered')
      BY <1>4, <1>p, <2>1, <2>3, <2>4 DEF InMessage
    <2> QED
      BY <2>1, <2>2, <2>5, <1>2 DEF EarlyDropped
  <1> QED
    BY <1>8, <1>9, <1>10

(***************************************************************************)
(* The handler takes a word of a payload.                                  *)
(***************************************************************************)
LEMMA PayloadStep ==
    ASSUME NEW i \in 1 .. Len(ArmMsgs), NEW t \in Nat,
           ReType, delivered \in Seq(Seq(Byte)), amp_endpoint \in BOOLEAN, EarlyDropped,
           InMessage(i, t, re, delivered), t - Starts[i] >= HdrWords,
           RxStored(re.buf \o Words(ArmMsgs[i])[t - Starts[i] + 1])
    PROVE  /\ ReType' /\ delivered' \in Seq(Seq(Byte))
           /\ ~amp_endpoint => delivered' = << >>
           /\ \E n \in 1 .. Len(ArmMsgs) + 1 : InMessage(n, t + 1, re', delivered')
  <1> DEFINE k == t - Starts[i]
             m == ArmMsgs[i]
             w == Words(m)[k + 1]
             b == WordBytes * (k - HdrWords)
             buf == re.buf \o w
  <1>1. /\ Len(ArmMsgs) \in Nat /\ HdrWords \in Nat \ {0} /\ m \in Seq(Byte)
        /\ Starts[i] \in Nat /\ Len(Words(m)) \in Nat
        /\ Starts[i + 1] = Starts[i] + Len(Words(m))
    BY Streamed
  <1>2. i \in Nat /\ i + 1 \in 1 .. Len(ArmMsgs) + 1 /\ i \in 1 .. Len(ArmMsgs) + 1
        /\ i <= Len(ArmMsgs)
    BY <1>1
  <1>3. k \in Nat /\ k >= HdrWords /\ ~(k < HdrWords) /\ Starts[i] <= t /\ t = Starts[i] + k
        /\ k < Len(Words(m))
    <2>1. Starts[i] <= t /\ t < Starts[i + 1]
      BY <1>2 DEF InMessage
    <2>2. k >= HdrWords
      OBVIOUS
    <2>3. k \in Nat /\ t = Starts[i] + k /\ k < Len(Words(m))
      <3> DEFINE s == Starts[i]
                 l == Len(Words(m))
      <3>1. s \in Nat /\ l \in Nat /\ s <= t /\ t < s + l
        BY <2>1, <1>1
      <3>2. t - s \in Nat /\ t = s + (t - s) /\ t - s < l
        <4> HIDE DEF s, l
        <4> QED
          BY <3>1
      <3> QED
        BY <3>2
    <2> HIDE DEF k, m
    <2> QED
      BY <2>1, <2>2, <2>3, <1>1
  <1>p. /\ (t + 1) - Starts[i] = k + 1 /\ Starts[i] <= t + 1 /\ i # Len(ArmMsgs) + 1
        /\ k + 1 < Len(Words(m)) <=> t + 1 < Starts[i + 1]
        /\ k + 1 = Len(Words(m)) <=> t + 1 = Starts[i + 1]
    <2> HIDE DEF k, m
    <2>1. i # Len(ArmMsgs) + 1
      BY <1>1, <1>2
    <2> QED
      <3> DEFINE s == Starts[i]
                 l == Len(Words(m))
                 e == Starts[i + 1]
      <3>1. s \in Nat /\ l \in Nat /\ e = s + l /\ t = s + k /\ k \in Nat
        BY <1>1, <1>3
      <3> HIDE DEF s, l, e
      <3>2. /\ (t + 1) - s = k + 1 /\ s <= t + 1
            /\ k + 1 < l <=> t + 1 < e
            /\ k + 1 = l <=> t + 1 = e
        BY <3>1
      <3> QED
        BY <2>1, <3>2 DEF s, l, e
  <1>4. /\ ~re.header /\ re.len = Len(m) /\ Len(re.buf) = b /\ re.buf \in Seq(Byte)
        /\ \A j \in 1 .. b : re.buf[j] = m[j]
        /\ Given(i, delivered)
    BY <1>3 DEF InMessage, Reading, ReType
  <1> HIDE DEF m, k
  <1>5. /\ w \in Seq(Byte) /\ Len(w) = WordBytes
        /\ b \in Nat /\ b < Len(m)
        /\ \A j \in 1 .. WordBytes : b + j <= Len(m) => w[j] = m[b + j]
        /\ Len(Words(m)) = k + 1 <=> b + WordBytes >= Len(m)
    BY <1>1, <1>3, PayloadWord
  <1>6. RxStored(buf)
    BY DEF m, k
  <1>7. Len(m) \in Nat /\ WordBytes \in Nat
    BY <1>1, LenProperties DEF WordBytes
  <1>b. Len(Words(m)) = k + 1 <=> b + WordBytes >= Len(m)
    BY <1>5
  <1>a. WordBytes * ((k + 1) - HdrWords) = b + WordBytes
    BY <1>1, <1>3 DEF WordBytes
  <1> HIDE DEF w, b
  <1>8. /\ buf \in Seq(Byte) /\ Len(buf) = b + WordBytes
        /\ \A j \in 1 .. b + WordBytes : j <= Len(m) => buf[j] = m[j]
    <2>1. /\ buf \in Seq(Byte) /\ Len(buf) = b + WordBytes
          /\ \A j \in 1 .. b + WordBytes : buf[j] = IF j <= b THEN re.buf[j] ELSE w[j - b]
      <3> DEFINE o == re.buf
      <3>1. o \in Seq(Byte) /\ Len(o) = b
        BY <1>4
      <3> HIDE DEF o
      <3>2. IsJoin(Byte, o, w, o \o w)
        BY <3>1, <1>5, JoinIs
      <3> QED
        BY <3>1, <3>2, <1>5 DEF o, IsJoin
    <2> HIDE DEF buf
    <2>2. ASSUME NEW j \in 1 .. b + WordBytes, j <= Len(m) PROVE buf[j] = m[j]
      <3>1. CASE j <= b
        <4>1. j \in 1 .. b
          BY <3>1, <1>5, <1>7
        <4>2. buf[j] = re.buf[j]
          BY <3>1, <2>1
        <4> QED
          BY <4>1, <4>2, <1>4
      <3>2. CASE ~(j <= b)
        <4>1. j - b \in 1 .. WordBytes /\ b + (j - b) = j
          BY <3>2, <1>5, <1>7
        <4>2. w[j - b] = m[j]
          BY <2>2, <4>1, <1>5
        <4> QED
          BY <2>1, <3>2, <4>2
      <3> QED
        BY <3>1, <3>2
    <2> QED
      BY <2>1, <2>2
  <1>9. IF Len(buf) >= Len(m)
          THEN re' = Fresh /\ delivered' = IF amp_endpoint THEN Append(delivered, SubSeq(buf, 1, Len(m)))
                                           ELSE delivered
          ELSE re' = [re EXCEPT !.buf = buf] /\ delivered' = delivered
    BY <1>4, <1>6 DEF RxStored, Deliver
  <1> HIDE DEF buf
  <1>10. CASE b + WordBytes >= Len(m)
    <2>1. SubSeq(buf, 1, Len(m)) = m
      <3>1. /\ SubSeq(buf, 1, Len(m)) \in Seq(Byte) /\ Len(SubSeq(buf, 1, Len(m))) = Len(m)
            /\ \A j \in 1 .. Len(m) : SubSeq(buf, 1, Len(m))[j] = m[j]
        <4>1. 1 \in 1 .. Len(buf) + 1 /\ Len(m) \in 0 .. Len(buf) /\ Len(m) >= 1
          BY <1>5, <1>7, <1>8, <1>10
        <4>2. /\ SubSeq(buf, 1, Len(m)) \in Seq(Byte) /\ Len(SubSeq(buf, 1, Len(m))) = Len(m)
              /\ \A j \in 1 .. Len(m) : SubSeq(buf, 1, Len(m))[j] = buf[j]
          BY <4>1, <1>7, <1>8
        <4> QED
          BY <4>1, <4>2, <1>5, <1>7, <1>8, <1>10
      <3> QED
        BY <3>1, <1>1, SeqEqual
    <2>2. re' = Fresh /\ delivered' = IF amp_endpoint THEN Append(delivered, m) ELSE delivered
      BY <2>1, <1>8, <1>9, <1>10
    <2>3. t + 1 = Starts[i + 1]
      <3>1. Len(Words(m)) = k + 1
        BY <1>b, <1>10
      <3> QED
        BY <3>1, <1>p
    <2>4. /\ InMessage(i + 1, t + 1, Fresh, delivered')
          /\ delivered' \in Seq(Seq(Byte)) /\ (~amp_endpoint => delivered' = << >>)
      BY <1>4, <2>2, <2>3, NextMessage DEF m, EarlyDropped
    <2>5. ReType'
      BY <2>2, EmptySeq DEF ReType, Fresh
    <2> QED
      BY <2>2, <2>4, <2>5, <1>2
  <1>11. CASE ~(b + WordBytes >= Len(m))
    <2>1. re' = [re EXCEPT !.buf = buf] /\ delivered' = delivered
      BY <1>8, <1>9, <1>11
    <2>2. ~re'.header /\ re'.len = Len(m) /\ re'.buf = buf /\ ReType'
      BY <2>1, <1>4, <1>8 DEF ReType
    <2>3. (t + 1) - Starts[i] = k + 1 /\ t + 1 < Starts[i + 1] /\ ~(k + 1 < HdrWords)
      <3>1. k + 1 < Len(Words(m)) /\ ~(k + 1 < HdrWords)
        BY <1>1, <1>3, <1>b, <1>11
      <3> QED
        BY <3>1, <1>p
    <2>4. Reading(i, k + 1, re')
      <3>1. \A j \in 1 .. Len(buf) : buf[j] = m[j]
        BY <1>5, <1>7, <1>8, <1>11
      <3> QED
        BY <2>2, <2>3, <3>1, <1>8, <1>a DEF Reading, m
    <2>5. InMessage(i, t + 1, re', delivered')
      <3>1. Given(i, delivered') /\ Reading(i, (t + 1) - Starts[i], re')
        BY <1>4, <2>1, <2>3, <2>4
      <3> QED
        BY <3>1, <1>p, <2>3 DEF InMessage
    <2> QED
      BY <2>1, <2>2, <2>5, <1>2 DEF EarlyDropped
  <1> QED
    BY <1>10, <1>11

(***************************************************************************)
(* A word that does not fit in the buffer is one of a message that is      *)
(* longer than the buffer, the words before having filled it.              *)
(***************************************************************************)
LEMMA OverrunStep ==
    ASSUME NEW i \in 1 .. Len(ArmMsgs), NEW t \in Nat,
           ReType, InMessage(i, t, re, delivered), t - Starts[i] >= HdrWords,
           Len(re.buf \o Words(ArmMsgs[i])[t - Starts[i] + 1]) > RPMSG_MAX_MSG_SIZE
    PROVE  OverrunAt(t + 1)
  <1> DEFINE s == Starts[i]
             k == t - s
             m == ArmMsgs[i]
             l == Len(Words(m))
             b == WordBytes * (k - HdrWords)
             w == Words(m)[k + 1]
             o == re.buf
  <1>1. /\ Len(ArmMsgs) \in Nat /\ HdrWords \in Nat \ {0} /\ m \in Seq(Byte)
        /\ s \in Nat /\ l \in Nat /\ Starts[i + 1] = s + l
    BY Streamed
  <1>2. RPMSG_MAX_MSG_SIZE \in Nat /\ RPMSG_MAX_MSG_SIZE % WordBytes = 0
    BY RpmsgAssumption
  <1>3. s <= t /\ t < s + l
    BY <1>1 DEF InMessage
  <1>4. k >= HdrWords /\ k \in Nat /\ k < l /\ ~(k < HdrWords)
    <2> HIDE DEF s, l
    <2> QED
      BY <1>1, <1>3 DEF s
  <1>5. o \in Seq(Byte) /\ Len(o) = b
    BY <1>4 DEF InMessage, Reading, ReType
  <1> HIDE DEF k, l, m
  <1>6. w \in Seq(Byte) /\ Len(w) = WordBytes /\ b \in Nat /\ b < Len(m)
    BY <1>1, <1>4, PayloadWord DEF l
  <1>7. Len(o \o w) > RPMSG_MAX_MSG_SIZE
    BY DEF k, m
  <1> HIDE DEF o, w
  <1>8. Len(o \o w) = b + WordBytes
    BY <1>5, <1>6, JoinIs DEF IsJoin
  <1>9. b = WordBytes * (k - HdrWords) /\ b + WordBytes = WordBytes * ((k + 1) - HdrWords)
    BY <1>1, <1>4 DEF WordBytes
  <1>10. Len(m) > RPMSG_MAX_MSG_SIZE
    <2>1. Len(m) \in Nat
      BY <1>1, LenProperties
    <2>2. b + WordBytes > RPMSG_MAX_MSG_SIZE
      BY <1>7, <1>8
    <2>3. b >= RPMSG_MAX_MSG_SIZE
      <3> HIDE DEF b
      <3>1. k - HdrWords \in Nat /\ b = WordBytes * (k - HdrWords)
        BY <1>1, <1>4, <1>9
      <3> QED
        BY <1>2, <2>2, <3>1 DEF WordBytes
    <2> QED
      BY <1>2, <1>6, <2>1, <2>3
  <1>11. WordBytes * ((t + 1) - s - HdrWords) > RPMSG_MAX_MSG_SIZE
    <2>1. (t + 1) - s - HdrWords = (k + 1) - HdrWords
      <3> HIDE DEF s
      <3> QED
        BY <1>1 DEF k
    <2> QED
      BY <1>7, <1>8, <1>9, <2>1
  <1> QED
    BY <1>10, <1>11 DEF OverrunAt, m

LEMMA OverrunStays ==
    ASSUME NEW t \in Nat, OverrunAt(t)
    PROVE  OverrunAt(t + 1)
  <1>1. PICK i \in 1 .. Len(ArmMsgs) :
           /\ Len(ArmMsgs[i]) > RPMSG_MAX_MSG_SIZE
           /\ WordBytes * (t - Starts[i] - HdrWords) > RPMSG_MAX_MSG_SIZE
    BY DEF OverrunAt
  <1> DEFINE s == Starts[i]
  <1>2. s \in Nat /\ HdrWords \in Nat /\ RPMSG_MAX_MSG_SIZE \in Nat
    BY Streamed, RpmsgAssumption
  <1>3. WordBytes * (t - s - HdrWords) > RPMSG_MAX_MSG_SIZE
    BY <1>1
  <1> HIDE DEF s
  <1>4. WordBytes * ((t + 1) - s - HdrWords) > RPMSG_MAX_MSG_SIZE
    BY <1>2, <1>3 DEF WordBytes
  <1> QED
    BY <1>1, <1>4 DEF s, OverrunAt

-----------------------------------------------------------------------------
LEMMA RInvInit == Init => RInv
  <1> SUFFICES ASSUME Init PROVE RInv
    OBVIOUS
  <1>1. /\ rx = [ch \in Channel |-> << >>] /\ pending = {}
        /\ isr = [pc |-> "idle", ch |-> 0] /\ re = Fresh /\ delivered = << >>
        /\ armSent = 0 /\ amp_endpoint = FALSE /\ damaged = FALSE
    BY DEF Init
  <1>2. ArmChannel \in Channel
    BY RpmsgAssumption DEF Channel
  <1>3. rx[ArmChannel] = << >> /\ Len(rx[ArmChannel]) = 0 /\ Taken = 0
    <2>1. Len(<< >>) = 0
      BY EmptySeq
    <2>2. rx[ArmChannel] = << >>
      BY <1>1, <1>2
    <2>3. Taken = 0 - Len(rx[ArmChannel])
      BY <1>1 DEF Taken
    <2>4. Len(rx[ArmChannel]) = 0
      BY <2>1, <2>2
    <2>5. Taken = 0 - 0
      BY <2>3, <2>4, Zenon
    <2>6. Taken = 0
      BY <2>5
    <2> QED
      BY <2>2, <2>4, <2>6, Zenon
  <1>4. /\ Len(ArmMsgs) \in Nat /\ Len(ArmStream) \in Nat /\ HdrWords \in Nat \ {0}
        /\ Starts[1] = 0 /\ Starts[Len(ArmMsgs) + 1] = Len(ArmStream)
        /\ 1 \in 1 .. Len(ArmMsgs) => /\ Starts[2] = Starts[1] + Len(Words(ArmMsgs[1]))
                                      /\ Len(Words(ArmMsgs[1])) \in Nat
                                      /\ Len(Words(ArmMsgs[1])) >= HdrWords
    <2>1. 1 + 1 = 2
      OBVIOUS
    <2> QED
      BY <2>1, Streamed, Zenon
  <1>5. ReceiveType
    <2>1. << >> \in Seq(StreamWord) /\ << >> \in Seq(Byte) /\ << >> \in Seq(Seq(Byte))
      BY EmptySeq
    <2>2. re \in [header : BOOLEAN, got : Nat, len : Nat, buf : Seq(Byte)]
      BY <1>1, <2>1 DEF Fresh
    <2>3. isr \in [pc : IsrPc, ch : Nat] /\ isr.pc = "idle"
      BY <1>1 DEF IsrPc
    <2>4. rx \in [Channel -> Seq(StreamWord)]
      BY <1>1, <2>1
    <2>5. armSent \in 0 .. Len(ArmStream) /\ pending \subseteq Channel
      BY <1>1, <1>4
    <2>6. amp_endpoint \in BOOLEAN /\ delivered \in Seq(Seq(Byte))
      BY <1>1, <2>1
    <2> QED
      BY <2>2, <2>3, <2>4, <2>5, <2>6 DEF ReceiveType
  <1>6. Queued
    BY <1>1, <1>3, <1>4 DEF Queued
  <1>7. InMessage(1, Taken, re, delivered)
    <2>1. Reading(1, 0, re)
      BY <1>1, <1>4 DEF Reading, Fresh
    <2>2. Given(1, delivered)
      BY <1>1 DEF Given
    <2>3. 0 - Starts[1] = 0 /\ Starts[1] <= 0 /\ (1 <= Len(ArmMsgs) => 0 < Starts[1 + 1])
      BY <1>4
    <2> QED
      BY <1>3, <1>4, <2>1, <2>2, <2>3 DEF InMessage
  <1>8. 1 \in 1 .. Len(ArmMsgs) + 1
    BY <1>4
  <1> QED
    BY <1>1, <1>5, <1>6, <1>7, <1>8 DEF RInv, Reassembled, InStep, EarlyDropped

(***************************************************************************)
(* What the handler finds at the head of a FIFO is the next word that the  *)
(* ARM has sent and it has not yet taken.                                  *)
(***************************************************************************)
LEMMA NextWord ==
    ASSUME ReceiveType, Queued, NEW ch \in Channel, rx[ch] # << >>
    PROVE  /\ ch = ArmChannel
           /\ Len(rx[ch]) \in Nat \ {0} /\ Taken \in Nat /\ Tail(rx[ch]) \in Seq(StreamWord)
           /\ Len(Tail(rx[ch])) = Len(rx[ch]) - 1
           /\ \A j \in 1 .. Len(rx[ch]) - 1 : Tail(rx[ch])[j] = rx[ch][j + 1]
           /\ InStep =>
                \E i \in 1 .. Len(ArmMsgs) :
                  /\ InMessage(i, Taken, re, delivered)
                  /\ Head(rx[ch]) = Words(ArmMsgs[i])[Taken - Starts[i] + 1]
  <1>1. ch = ArmChannel
    BY DEF Queued
  <1>2. rx[ch] \in Seq(StreamWord)
    BY DEF ReceiveType
  <1>3. /\ Len(rx[ch]) \in Nat \ {0} /\ Tail(rx[ch]) \in Seq(StreamWord)
        /\ Len(Tail(rx[ch])) = Len(rx[ch]) - 1
        /\ \A j \in 1 .. Len(rx[ch]) - 1 : Tail(rx[ch])[j] = rx[ch][j + 1]
        /\ Head(rx[ch]) = rx[ch][1]
    <2> DEFINE s == rx[ch]
    <2>1. s \in Seq(StreamWord) /\ s # << >>
      BY <1>2
    <2> HIDE DEF s
    <2>2. /\ Len(s) \in Nat \ {0} /\ Tail(s) \in Seq(StreamWord) /\ Len(Tail(s)) = Len(s) - 1
          /\ \A j \in 1 .. Len(s) - 1 : Tail(s)[j] = s[j + 1]
          /\ Head(s) = s[1]
      BY <2>1, HeadTailProperties, EmptySeq
    <2> QED
      BY <2>2 DEF s
  <1>4. /\ armSent \in Nat /\ armSent <= Len(ArmStream)
        /\ Len(rx[ch]) <= armSent /\ Taken = armSent - Len(rx[ch])
        /\ \A j \in 1 .. Len(rx[ch]) : rx[ch][j] = ArmStream[Taken + j]
    BY <1>1, Streamed DEF ReceiveType, Queued, Taken
  <1>5. Taken \in Nat /\ Taken < Len(ArmStream) /\ rx[ch][1] = ArmStream[Taken + 1]
    BY <1>3, <1>4, Streamed
  <1> SUFFICES ASSUME InStep
               PROVE  \E i \in 1 .. Len(ArmMsgs) :
                        /\ InMessage(i, Taken, re, delivered)
                        /\ Head(rx[ch]) = Words(ArmMsgs[i])[Taken - Starts[i] + 1]
    BY <1>1, <1>3, <1>5
  <1>6. PICK i \in 1 .. Len(ArmMsgs) + 1 : InMessage(i, Taken, re, delivered)
    BY DEF InStep
  <1>7. i \in 1 .. Len(ArmMsgs) /\ i <= Len(ArmMsgs)
    BY <1>5, <1>6, Streamed DEF InMessage
  <1> DEFINE k == Taken - Starts[i] + 1
  <1>8. k \in 1 .. Len(Words(ArmMsgs[i])) /\ Starts[i] + k = Taken + 1
    <2>1. /\ Starts[i] \in Nat /\ Len(Words(ArmMsgs[i])) \in Nat
          /\ Starts[i + 1] = Starts[i] + Len(Words(ArmMsgs[i]))
      BY <1>7, Streamed
    <2>2. Starts[i] <= Taken /\ Taken < Starts[i + 1]
      BY <1>6, <1>7 DEF InMessage
    <2> DEFINE s == Starts[i]
               l == Len(Words(ArmMsgs[i]))
               n == Taken
    <2>3. s \in Nat /\ l \in Nat /\ n \in Nat /\ s <= n /\ n < s + l
      BY <2>1, <2>2, <1>5
    <2> HIDE DEF s, l, n
    <2>4. (n - s) + 1 \in 1 .. l /\ s + ((n - s) + 1) = n + 1
      BY <2>3
    <2> QED
      BY <2>4 DEF s, l, n
  <1> HIDE DEF k
  <1>9. Words(ArmMsgs[i])[k] = ArmStream[Taken + 1]
    <2>1. ArmStream[Starts[i] + k] = Words(ArmMsgs[i])[k]
      BY <1>7, <1>8, Streamed
    <2> QED
      BY <2>1, <1>8
  <1>10. Head(rx[ch]) = Words(ArmMsgs[i])[Taken - Starts[i] + 1]
    BY <1>3, <1>5, <1>9 DEF k
  <1> QED
    BY <1>6, <1>7, <1>10

\* The steps that neither take a word nor send one.
LEMMA RInvKept ==
    ASSUME RInv, UNCHANGED <<rx, re, delivered, damaged, armSent>>,
           amp_endpoint' = amp_endpoint \/ amp_endpoint' = TRUE,
           pending' \subseteq pending,
           isr' \in [pc : IsrPc, ch : Nat],
           isr'.pc \in {"drain", "clear"} => isr'.ch \in Channel
    PROVE  RInv'
  <1>1. ReceiveType'
    BY DEF RInv, ReceiveType
  <1>2. Taken' = Taken /\ Queued'
    BY DEF RInv, Queued, Taken
  <1>3. ASSUME InStep, EarlyDropped PROVE InStep' /\ EarlyDropped'
    <2>1. PICK i \in 1 .. Len(ArmMsgs) + 1 : InMessage(i, Taken, re, delivered)
      BY <1>3 DEF InStep
    <2>2. InMessage(i, Taken', re', delivered')
      BY <2>1, <1>2
    <2>3. EarlyDropped'
      BY <1>3 DEF EarlyDropped
    <2> QED
      BY <2>2, <2>3 DEF InStep
  <1>4. OverrunAt(Taken) => OverrunAt(Taken)'
    BY <1>2 DEF OverrunAt
  <1> QED
    BY <1>1, <1>2, <1>3, <1>4 DEF RInv, Reassembled

LEMMA RInvDrain == RInv /\ IsrDrain => RInv'
  <1> SUFFICES ASSUME RInv, IsrDrain PROVE RInv'
    OBVIOUS
  <1> DEFINE ch == isr.ch
  <1>1. ReceiveType /\ Queued /\ Reassembled
    BY DEF RInv
  <1>2. /\ ch \in Channel /\ rx[ch] # << >>
        /\ rx' = [rx EXCEPT ![ch] = Tail(rx[ch])]
        /\ UNCHANGED <<amp_endpoint, pending, armSent>>
    BY <1>1 DEF IsrDrain, ReceiveType, thread, arm
  <1>d. \/ damaged /\ Undefined
        \/ /\ ~damaged /\ ~re.header /\ Len(re.buf \o Head(rx[ch])) > RPMSG_MAX_MSG_SIZE
           /\ Undefined
        \/ ~damaged /\ re.header /\ RxHeader(Head(rx[ch]))
        \/ ~damaged /\ ~re.header /\ RxStored(re.buf \o Head(rx[ch]))
    <2> DEFINE w == Head(rx[ch])
    <2>1. \/ damaged /\ Undefined
          \/ ~damaged /\ re.header /\ RxHeader(w)
          \/ ~damaged /\ ~re.header /\ RxPayload(w)
      BY DEF IsrDrain
    <2> HIDE DEF w
    <2>2. RxPayload(w) => \/ RxStored(re.buf \o w)
                          \/ Len(re.buf \o w) > RPMSG_MAX_MSG_SIZE /\ Undefined
      BY DEF RxPayload
    <2>3. \/ damaged /\ Undefined
          \/ ~damaged /\ ~re.header /\ Len(re.buf \o w) > RPMSG_MAX_MSG_SIZE /\ Undefined
          \/ ~damaged /\ re.header /\ RxHeader(w)
          \/ ~damaged /\ ~re.header /\ RxStored(re.buf \o w)
      BY <2>1, <2>2, Zenon
    <2> QED
      BY <2>3 DEF w
  <1> HIDE DEF ch
  <1>3. /\ ch = ArmChannel
        /\ Len(rx[ch]) \in Nat \ {0} /\ Taken \in Nat /\ Tail(rx[ch]) \in Seq(StreamWord)
        /\ Len(Tail(rx[ch])) = Len(rx[ch]) - 1
        /\ \A j \in 1 .. Len(rx[ch]) - 1 : Tail(rx[ch])[j] = rx[ch][j + 1]
    BY <1>1, <1>2, NextWord
  <1>5. /\ rx' \in [Channel -> Seq(StreamWord)]
        /\ rx'[ArmChannel] = Tail(rx[ch])
        /\ \A c \in Channel : c # ArmChannel => rx'[c] = rx[c]
    BY <1>1, <1>2, <1>3 DEF ReceiveType
  <1>6. armSent \in Nat /\ Taken = armSent - Len(rx[ch]) /\ Taken' = Taken + 1
        /\ Len(rx'[ArmChannel]) = Len(rx[ch]) - 1 /\ Len(rx[ch]) <= armSent
    BY <1>1, <1>2, <1>3, <1>5 DEF Taken, ReceiveType, Queued
  <1>7. Queued'
    <2>1. ASSUME NEW j \in 1 .. Len(rx'[ArmChannel])
          PROVE  rx'[ArmChannel][j] = ArmStream[(Taken + 1) + j]
      <3>1. j \in 1 .. Len(rx[ch]) - 1 /\ j + 1 \in 1 .. Len(rx[ch])
        BY <1>3, <1>6
      <3>2. rx'[ArmChannel][j] = rx[ch][j + 1]
        BY <1>3, <1>5, <3>1
      <3>3. rx[ch][j + 1] = ArmStream[Taken + (j + 1)]
        BY <1>1, <1>3, <3>1 DEF Queued
      <3>4. Taken + (j + 1) = (Taken + 1) + j
        BY <1>3, <3>1
      <3> QED
        BY <3>2, <3>3, <3>4
    <2>2. \A c \in Channel : c # ArmChannel => rx'[c] = << >>
      BY <1>1, <1>5 DEF Queued
    <2>3. Len(rx'[ArmChannel]) <= armSent
      BY <1>3, <1>6
    <2> QED
      BY <1>2, <1>6, <2>1, <2>2, <2>3 DEF Queued
  <1>t. ReType /\ delivered \in Seq(Seq(Byte)) /\ amp_endpoint \in BOOLEAN
    BY <1>1 DEF ReType, ReceiveType
  <1>8. CASE Undefined
    <2>1. /\ damaged' = TRUE /\ re' = re
          /\ delivered' \in {delivered, Append(delivered, << >>), Append(delivered, re.buf)}
          /\ isr' \in {isr, [isr EXCEPT !.pc = "lost"]}
      BY <1>8 DEF Undefined
    <2>2. delivered' \in Seq(Seq(Byte))
      <3>1. << >> \in Seq(Byte) /\ re.buf \in Seq(Byte)
        BY <1>t, EmptySeq DEF ReType
      <3>2. Append(delivered, << >>) \in Seq(Seq(Byte)) /\ Append(delivered, re.buf) \in Seq(Seq(Byte))
        BY <1>t, <3>1, AppendProperties
      <3> QED
        BY <1>t, <2>1, <3>2
    <2>3. isr' \in [pc : IsrPc, ch : Nat] /\ (isr'.pc \in {"drain", "clear"} => isr'.ch \in Channel)
      BY <1>1, <2>1 DEF ReceiveType, IsrPc
    <2>4. ReceiveType'
      BY <1>1, <1>2, <1>5, <2>1, <2>2, <2>3 DEF ReceiveType
    <2>5. OverrunAt(Taken + 1)
      <3>1. CASE damaged
        BY <1>1, <1>3, <3>1, OverrunStays DEF Reassembled
      <3>2. CASE ~damaged
        <4>1. InStep /\ ~re.header /\ Len(re.buf \o Head(rx[ch])) > RPMSG_MAX_MSG_SIZE
          BY <1>1, <1>8, <1>d, <3>2, <2>1 DEF Reassembled, RxHeader, RxStored
        <4>2. PICK i \in 1 .. Len(ArmMsgs) :
                 /\ InMessage(i, Taken, re, delivered)
                 /\ Head(rx[ch]) = Words(ArmMsgs[i])[Taken - Starts[i] + 1]
          BY <1>1, <1>2, <4>1, NextWord
        <4>3. Taken - Starts[i] >= HdrWords
          <5>1. Reading(i, Taken - Starts[i], re)
            BY <4>2, Zenon DEF InMessage
          <5>2. ~(Taken - Starts[i] < HdrWords)
            BY <4>1, <5>1, Zenon DEF Reading
          <5>3. Starts[i] \in Nat /\ HdrWords \in Nat
            BY Streamed
          <5> QED
            BY <1>3, <5>2, <5>3
        <4>4. Len(re.buf \o Words(ArmMsgs[i])[Taken - Starts[i] + 1]) > RPMSG_MAX_MSG_SIZE
          BY <4>1, <4>2, Zenon
        <4> QED
          BY <1>3, <1>t, <4>2, <4>3, <4>4, OverrunStep, Zenon
      <3> QED
        BY <3>1, <3>2
    <2>6. Reassembled'
      BY <1>6, <2>1, <2>5 DEF Reassembled, OverrunAt
    <2> QED
      BY <1>7, <2>4, <2>6 DEF RInv
  <1>9. CASE /\ ~damaged
             /\ \/ re.header /\ RxHeader(Head(rx[ch]))
                \/ ~re.header /\ RxStored(re.buf \o Head(rx[ch]))
    <2>1. ~damaged' /\ isr' = isr /\ InStep /\ EarlyDropped
      <3>1. UNCHANGED <<isr, damaged>>
        BY <1>9, Zenon DEF RxHeader, RxStored
      <3> QED
        BY <1>1, <1>9, <3>1, Zenon DEF Reassembled
    <2>2. PICK i \in 1 .. Len(ArmMsgs) :
             /\ InMessage(i, Taken, re, delivered)
             /\ Head(rx[ch]) = Words(ArmMsgs[i])[Taken - Starts[i] + 1]
      BY <1>1, <1>2, <2>1, NextWord
    <2>3. /\ Starts[i] \in Nat /\ HdrWords \in Nat
          /\ re.header <=> Taken - Starts[i] < HdrWords
      BY <1>3, <2>2, Streamed DEF InMessage, Reading
    <2>4. /\ ReType' /\ delivered' \in Seq(Seq(Byte))
          /\ ~amp_endpoint => delivered' = << >>
          /\ \E n \in 1 .. Len(ArmMsgs) + 1 : InMessage(n, Taken + 1, re', delivered')
      <3>1. CASE re.header
        <4>1. RxHeader(Words(ArmMsgs[i])[Taken - Starts[i] + 1])
          BY <1>9, <2>2, <3>1
        <4> QED
          BY <1>3, <1>t, <2>1, <2>2, <2>3, <3>1, <4>1, HeaderStep
      <3>2. CASE ~re.header
        <4>1. RxStored(re.buf \o Words(ArmMsgs[i])[Taken - Starts[i] + 1])
          BY <1>9, <2>2, <3>2
        <4>2. Taken - Starts[i] >= HdrWords
          BY <1>3, <2>3, <3>2
        <4> QED
          BY <1>3, <1>t, <2>1, <2>2, <4>1, <4>2, PayloadStep
      <3> QED
        BY <3>1, <3>2
    <2>5. ReceiveType'
      BY <1>1, <1>2, <1>5, <2>1, <2>4 DEF ReceiveType, ReType
    <2>6. InStep' /\ EarlyDropped'
      BY <1>2, <1>6, <2>4 DEF InStep, EarlyDropped
    <2> QED
      BY <1>7, <2>1, <2>5, <2>6 DEF RInv, Reassembled
  <1> QED
    BY <1>d, <1>8, <1>9

LEMMA RInvArmSend == RInv /\ ArmSend => RInv'
  <1> SUFFICES ASSUME RInv, ArmSend PROVE RInv'
    OBVIOUS
  <1> DEFINE q == rx[ArmChannel]
             w == ArmStream[armSent + 1]
  <1>1. ReceiveType /\ Queued /\ Reassembled
    BY DEF RInv
  <1>2. /\ armSent < Len(ArmStream)
        /\ rx' = [rx EXCEPT ![ArmChannel] = Append(q, w)]
        /\ pending' = pending \cup {ArmChannel} /\ armSent' = armSent + 1
        /\ UNCHANGED <<amp_endpoint, isr, re, delivered, damaged>>
    BY DEF ArmSend, thread, handler, reassembly
  <1>3. ArmChannel \in Channel
    BY RpmsgAssumption DEF Channel
  <1>4. /\ armSent \in Nat /\ armSent + 1 \in 1 .. Len(ArmStream) /\ w \in StreamWord
        /\ q \in Seq(StreamWord) /\ Len(q) \in Nat /\ Len(q) <= armSent
    <2>1. armSent \in Nat /\ armSent + 1 \in 1 .. Len(ArmStream)
      BY <1>1, <1>2, Streamed DEF ReceiveType
    <2>2. w \in StreamWord
      BY <2>1 DEF StreamWord
    <2>3. q \in Seq(StreamWord) /\ Len(q) <= armSent
      BY <1>1, <1>3 DEF ReceiveType, Queued
    <2> QED
      BY <2>1, <2>2, <2>3, LenProperties
  <1> HIDE DEF q, w
  <1>5. /\ Append(q, w) \in Seq(StreamWord) /\ Len(Append(q, w)) = Len(q) + 1
        /\ \A j \in 1 .. Len(q) : Append(q, w)[j] = q[j]
        /\ Append(q, w)[Len(q) + 1] = w
    BY <1>4, AppendProperties
  <1>6. /\ rx' \in [Channel -> Seq(StreamWord)] /\ rx'[ArmChannel] = Append(q, w)
        /\ \A c \in Channel : c # ArmChannel => rx'[c] = rx[c]
    BY <1>1, <1>2, <1>3, <1>5 DEF ReceiveType
  <1>7. Taken = armSent - Len(q) /\ Taken \in Nat /\ Taken' = Taken
    BY <1>2, <1>4, <1>5, <1>6 DEF Taken, q
  <1>8. ReceiveType'
    BY <1>1, <1>2, <1>3, <1>4, <1>6 DEF ReceiveType
  <1>9. Queued'
    <2>1. ASSUME NEW j \in 1 .. Len(q) + 1
          PROVE  rx'[ArmChannel][j] = ArmStream[Taken + j]
      <3>1. CASE j \in 1 .. Len(q)
        BY <1>1, <1>5, <1>6, <3>1 DEF Queued, q
      <3>2. CASE j = Len(q) + 1
        <4>1. Taken + j = armSent + 1
          BY <1>4, <1>7, <3>2
        <4> QED
          BY <1>5, <1>6, <3>2, <4>1 DEF w
      <3> QED
        BY <1>4, <3>1, <3>2
    <2>2. Len(rx'[ArmChannel]) = Len(q) + 1 /\ Len(rx'[ArmChannel]) <= armSent'
      BY <1>2, <1>4, <1>5, <1>6
    <2>3. \A c \in Channel : c # ArmChannel => rx'[c] = << >>
      BY <1>1, <1>6 DEF Queued
    <2> QED
      BY <1>7, <2>1, <2>2, <2>3 DEF Queued
  <1>10. ASSUME InStep, EarlyDropped PROVE InStep' /\ EarlyDropped'
    <2>1. PICK i \in 1 .. Len(ArmMsgs) + 1 : InMessage(i, Taken, re, delivered)
      BY <1>10 DEF InStep
    <2>2. InMessage(i, Taken', re', delivered')
      BY <2>1, <1>2, <1>7
    <2>3. EarlyDropped'
      BY <1>2, <1>10 DEF EarlyDropped
    <2> QED
      BY <2>2, <2>3 DEF InStep
  <1>11. OverrunAt(Taken) => OverrunAt(Taken)'
    BY <1>7 DEF OverrunAt
  <1> QED
    BY <1>1, <1>2, <1>8, <1>9, <1>10, <1>11 DEF RInv, Reassembled

LEMMA RInvNext == RInv /\ [Next]_vars => RInv'
  <1> SUFFICES ASSUME RInv, [Next]_vars PROVE RInv'
    OBVIOUS
  <1>1. /\ isr \in [pc : IsrPc, ch : Nat]
        /\ isr.pc \in {"drain", "clear"} => isr.ch \in Channel
        /\ pending \subseteq Channel
    BY DEF RInv, ReceiveType
  <1>2. CASE Thread
    <2>1. /\ UNCHANGED <<rx, re, delivered, damaged, armSent, pending, isr>>
          /\ amp_endpoint' = amp_endpoint \/ amp_endpoint' = TRUE
      BY <1>2 DEF Thread, EnableIrq, CreateEndpoint, SendReady, SendWord, Sent, handler, reassembly, arm
    <2> QED
      BY <1>1, <2>1, RInvKept
  <1>3. CASE IsrEnter
    <2>1. /\ UNCHANGED <<rx, re, delivered, damaged, armSent, pending, amp_endpoint>>
          /\ isr' = [pc |-> "test", ch |-> 0]
      BY <1>3 DEF IsrEnter, thread, reassembly, arm
    <2>2. isr' \in [pc : IsrPc, ch : Nat] /\ isr'.pc = "test"
      BY <2>1 DEF IsrPc
    <2> QED
      BY <2>1, <2>2, RInvKept
  <1>4. CASE IsrTest
    <2>1. UNCHANGED <<rx, re, delivered, damaged, armSent, pending, amp_endpoint>>
      BY <1>4 DEF IsrTest, thread, reassembly, arm
    <2>2. /\ isr' \in [pc : IsrPc, ch : Nat]
          /\ isr'.pc \in {"drain", "clear"} => isr'.ch \in Channel
      <3>1. CASE isr' = [pc |-> "idle", ch |-> 0]
        BY <3>1 DEF IsrPc
      <3>2. CASE isr' = [isr EXCEPT !.pc = "drain"] /\ isr.ch \in pending
        BY <1>1, <3>2 DEF IsrPc
      <3>3. CASE isr' = [isr EXCEPT !.ch = isr.ch + 1]
        BY <1>1, <1>4, <3>3 DEF IsrTest
      <3> QED
        BY <1>4, <3>1, <3>2, <3>3 DEF IsrTest
    <2> QED
      BY <2>1, <2>2, RInvKept
  <1>5. CASE IsrDrain
    BY <1>5, RInvDrain
  <1>6. CASE IsrEmpty
    <2>1. /\ UNCHANGED <<rx, re, delivered, damaged, armSent, pending, amp_endpoint>>
          /\ isr' = [isr EXCEPT !.pc = "clear"] /\ isr.pc = "drain"
      BY <1>6 DEF IsrEmpty, thread, reassembly, arm
    <2>2. /\ isr' \in [pc : IsrPc, ch : Nat]
          /\ isr'.ch = isr.ch
      BY <1>1, <2>1 DEF IsrPc
    <2> QED
      BY <1>1, <2>1, <2>2, RInvKept
  <1>7. CASE IsrClear
    <2>1. /\ UNCHANGED <<rx, re, delivered, damaged, armSent, amp_endpoint>> /\ pending' \subseteq pending
          /\ isr' = [pc |-> "test", ch |-> isr.ch + 1]
      BY <1>7 DEF IsrClear, thread, reassembly, arm
    <2>2. isr' \in [pc : IsrPc, ch : Nat] /\ isr'.pc = "test"
      BY <1>1, <2>1 DEF IsrPc
    <2> QED
      BY <2>1, <2>2, RInvKept
  <1>8. CASE ArmSend
    BY <1>8, RInvArmSend
  <1>9. CASE ArmReceive
    <2>1. UNCHANGED <<rx, re, delivered, damaged, armSent, pending, isr, amp_endpoint>>
      BY <1>9 DEF ArmReceive, handler, reassembly
    <2> QED
      BY <1>1, <2>1, RInvKept
  <1>10. CASE UNCHANGED vars
    <2>1. UNCHANGED <<rx, re, delivered, damaged, armSent, pending, isr, amp_endpoint>>
      BY <1>10 DEF vars
    <2> QED
      BY <1>1, <2>1, RInvKept
  <1> QED
    BY <1>2, <1>3, <1>4, <1>5, <1>6, <1>7, <1>8, <1>9, <1>10 DEF Next, Isr

(***************************************************************************)
(* The callback's messages are the ones before the message whose words the *)
(* handler is taking; when all the words are taken, that is past the last. *)
(***************************************************************************)
LEMMA RInvIntact == RInv => ReceivesIntact
  <1>o. damaged /\ RInv => Overrun
    BY DEF RInv, Reassembled, OverrunAt, Overrun, Taken
  <1> SUFFICES ASSUME RInv, ~damaged PROVE InOrder
    BY <1>o DEF ReceivesIntact
  <1>1. PICK i \in 1 .. Len(ArmMsgs) + 1 : InMessage(i, Taken, re, delivered)
    BY DEF RInv, Reassembled, InStep
  <1> DEFINE n == Len(delivered)
             k == i - 1 - n
  <1>2. delivered \in Seq(Seq(Byte)) /\ ArmMsgs \in Seq(Seq(Byte)) /\ Len(ArmMsgs) \in Nat
    BY RpmsgAssumption, LenProperties DEF RInv, ReceiveType, Byte
  <1>3. n \in Nat /\ i \in Nat /\ n <= i - 1 /\ i - 1 <= Len(ArmMsgs)
        /\ \A j \in 1 .. n : delivered[j] = ArmMsgs[i - 1 - n + j]
    BY <1>1, <1>2, LenProperties DEF InMessage, Given
  <1> HIDE DEF n
  <1>4. k \in 0 .. Len(ArmMsgs) - n /\ k + n = i - 1
    BY <1>2, <1>3
  <1>5. delivered = SubSeq(ArmMsgs, k + 1, k + n)
    <2> DEFINE s == SubSeq(ArmMsgs, k + 1, k + n)
    <2>1. k + 1 \in 1 .. Len(ArmMsgs) + 1 /\ k + n \in (k + 1) - 1 .. Len(ArmMsgs)
      BY <1>2, <1>3, <1>4
    <2>2. /\ s \in Seq(Seq(Byte)) /\ Len(s) = n
          /\ \A j \in 1 .. n : s[j] = ArmMsgs[k + j]
      BY <1>2, <1>3, <1>4, <2>1
    <2> HIDE DEF s
    <2>3. \A j \in 1 .. n : delivered[j] = s[j]
      BY <1>3, <2>2
    <2>4. delivered = s
      BY <1>2, <2>2, <2>3, SeqEqual DEF n
    <2> QED
      BY <2>4 DEF s
  <1>6. ASSUME armSent = Len(ArmStream), rx[ArmChannel] = << >>
        PROVE  k + n = Len(ArmMsgs)
    <2>1. Taken = Len(ArmStream)
      BY <1>6, EmptySeq, Streamed DEF Taken
    <2>2. ~(i <= Len(ArmMsgs))
      BY <1>1, <1>3, <2>1, Streamed DEF InMessage
    <2> QED
      BY <1>2, <1>3, <1>4, <2>2
  <1> QED
    BY <1>4, <1>5, <1>6 DEF InOrder, n

(***************************************************************************)
(* Reassembly never gets out of step: whatever the lengths of the messages *)
(* and whenever the handler runs, the callback is given whole messages, in *)
(* order, and none that completes after the endpoint exists is missing -   *)
(* unless memory behind the buffer has been overwritten, which only the    *)
(* words of a message longer than the buffer do, past its end.             *)
(***************************************************************************)
THEOREM MessagesAreWhole == Spec => []ReceivesIntact
  BY RInvInit, RInvNext, RInvIntact, PTL DEF Spec

\* No message is longer than the buffer.
AllFit == \A i \in 1 .. Len(ArmMsgs) : Len(ArmMsgs[i]) <= RPMSG_MAX_MSG_SIZE

LEMMA FitsIntact == AllFit => (RInv => ~damaged /\ InOrder)
  <1> SUFFICES ASSUME AllFit, RInv PROVE ~damaged /\ InOrder
    OBVIOUS
  <1>1. RPMSG_MAX_MSG_SIZE \in Nat /\ ArmMsgs \in Seq(Seq(0 .. 255))
    BY RpmsgAssumption
  <1>2. \A i \in 1 .. Len(ArmMsgs) : Len(ArmMsgs[i]) \in Nat
    BY <1>1, ElementOfSeq, LenProperties
  <1>3. ~Overrun
    BY <1>1, <1>2 DEF AllFit, Overrun
  <1> QED
    BY <1>3, RInvIntact DEF ReceivesIntact

(***************************************************************************)
(* An ARM that keeps its messages to the size of the buffer gets them to   *)
(* the callback whole and in order, and no memory is damaged.              *)
(***************************************************************************)
THEOREM FittingMessagesAreWhole ==
    ASSUME AllFit
    PROVE  Spec => [](~damaged /\ InOrder)
  <1>1. RInv => ~damaged /\ InOrder
    BY FitsIntact
  <1> QED
    BY <1>1, RInvInit, RInvNext, PTL DEF Spec

=============================================================================
