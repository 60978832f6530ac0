------------------------------ MODULE BusProofs ------------------------------
(***************************************************************************)
(* The bus port keeps its promises for frames of any length, any number of *)
(* them, a ring of any size, and bytes lost, cut and overrun at any time.  *)
(***************************************************************************)
EXTENDS BusReceiver, IntervalLemmas, TLAPS

Bytes == Nat \X Nat
Kinds == {"heartbeat", "packet"}

LineInv ==
  /\ kinds \in Seq(Kinds) /\ off \in Nat
  /\ kinds # << >> => off \in 1..FrameLen(kinds[Len(kinds)])

QueueInv ==
  /\ rxRead \in RxBufs /\ rxCount \in 0..QueueDepth /\ rxWrite = (rxRead + rxCount) % 3
  /\ rxCount > 0 => recvPtr = rxRead
  /\ bufs \in [RxBufs -> Seq(Bytes)]
  /\ \A i \in 0..(rxCount - 1) : bufs[(rxRead + i) % 3] # << >>

TxInv ==
  /\ idle \in BOOLEAN /\ sendPending \in BOOLEAN
  /\ txSel \in TxBufs /\ txBuf \in TxBufs /\ DOMAIN txData = TxBufs
  /\ ~idle => txSel # txBuf

\* The bytes that are still to be dealt with: those of the ring, and the first ones of
\* what the parser has taken and of the packets that wait.
InRing  == {ring[i] : i \in 1..Len(ring)}
InTaken == IF taken = << >> THEN {} ELSE {taken[1]}
InQueue == {bufs[(rxRead + i) % 3][1] : i \in 0..(rxCount - 1)}
ToCome  == InRing \cup InTaken \cup InQueue

Sent(b) ==
  /\ b[1] \in 1..Len(kinds) /\ b[2] < FrameLen(kinds[b[1]])
  /\ b[1] = Len(kinds) => b[2] < off

Before(a, b) == a[1] < b[1] \/ (a[1] = b[1] /\ a[2] < b[2])

RingInv ==
  /\ ring \in Seq(Bytes) /\ taken \in Seq(Bytes)
  /\ \A b \in ToCome : b \in Bytes /\ Sent(b)
  /\ \A i, j \in 1..Len(ring) : i < j => Before(ring[i], ring[j])
  /\ \A a \in InTaken, b \in InRing : Before(a, b)
  /\ \A a \in InQueue, b \in InRing \cup InTaken : Before(a, b)
  /\ rxCount = 2 => Before(bufs[rxRead][1], bufs[(rxRead + 1) % 3][1])

\* No frame up to f begins in what is still to come.
Done(f) == f \in 0..Len(kinds) /\ \A b \in ToCome : b[2] = 0 => f < b[1]

AnswerInv ==
  /\ Done(answered)
  /\ sendPending => Done(txData[txSel]) /\ answered < txData[txSel]

StreamInv == LineInv /\ QueueInv /\ TxInv /\ RingInv /\ AnswerInv

\* A drain takes no more than the ring holds.
PollInv ==
  /\ pc \in {"poll", "drain", "take", "send"} /\ left \in Nat
  /\ pc = "drain" => left <= Len(ring)

PortInv == StreamInv /\ PollInv

-----------------------------------------------------------------------------
LEMMA Lengths ==
  /\ HeartbeatLen \in Nat /\ PacketLen \in Nat /\ HeartbeatLen > 2 /\ PacketLen > 2 /\ HeadLen = 2
  /\ \A k : FrameLen(k) \in Nat /\ FrameLen(k) > 2 /\ FrameLen(k) \in {HeartbeatLen, PacketLen}
  /\ RingSize \in Nat \ {0}
  BY BusAssumption DEF HeadLen, FrameLen

\* The bytes left when the first n are taken.
LEMMA Taken ==
  ASSUME NEW s \in Seq(Bytes), NEW n \in 0..Len(s)
  PROVE  LET t == SubSeq(s, n + 1, Len(s))
         IN  t \in Seq(Bytes) /\ Len(t) = Len(s) - n /\ \A i \in 1..Len(t) : t[i] = s[i + n]
  OBVIOUS

LEMMA MoreThanOne == ASSUME NEW n \in Nat, n >= 1, n # 1 PROVE n > 1
  OBVIOUS

LEMMA FirstOnes ==
  ASSUME NEW s \in Seq(Bytes), NEW n \in 0..Len(s)
  PROVE  LET t == SubSeq(s, 1, n)
         IN  t \in Seq(Bytes) /\ Len(t) = n /\ \A i \in 1..n : t[i] = s[i]
  OBVIOUS

LEMMA Appended ==
  ASSUME NEW S, NEW s \in Seq(S), NEW b \in S
  PROVE  LET t == Append(s, b)
         IN  /\ t \in Seq(S) /\ Len(t) = Len(s) + 1 /\ t # << >>
             /\ \A i \in 1..Len(s) : t[i] = s[i]
             /\ t[Len(s) + 1] = b
  OBVIOUS

\* A sequence and the same with one more, or one less.
LEMMA OneMore ==
  ASSUME NEW S, NEW s \in Seq(S), NEW t \in Seq(S), Len(t) = Len(s) + 1, \A i \in 1..Len(s) : t[i] = s[i]
  PROVE  SubSeq(t, 1, Len(s)) = s
<1>1. /\ SubSeq(t, 1, Len(s)) \in Seq(S) /\ Len(SubSeq(t, 1, Len(s))) = Len(s)
      /\ \A i \in 1..Len(s) : SubSeq(t, 1, Len(s))[i] = s[i]
  OBVIOUS
<1> QED BY <1>1

LEMMA OneLess ==
  ASSUME NEW S, NEW s \in Seq(S), NEW t \in Seq(S), s # << >>, Len(t) = Len(s) - 1,
         \A i \in 1..(Len(s) - 1) : t[i] = s[i + 1]
  PROVE  t = Tail(s)
<1>1. /\ Tail(s) \in Seq(S) /\ Len(Tail(s)) = Len(s) - 1
      /\ \A i \in 1..(Len(s) - 1) : Tail(s)[i] = s[i + 1]
  OBVIOUS
<1> QED BY <1>1

\* The three receive buffers in turn.
LEMMA InTurn ==
  ASSUME NEW r \in 0..2
  PROVE  /\ (r + 0) % 3 = r
         /\ \A n \in 0..2 : (r + n) % 3 \in 0..2
         /\ \A n, m \in 0..2 : n # m => (r + n) % 3 # (r + m) % 3
  BY SMT

\* The order of the bytes in the ring.
LEMMA RingOrder ==
  ASSUME RingInv
  PROVE  /\ ring \in Seq(Bytes) /\ Len(ring) \in Nat
         /\ \A i, j \in 1..Len(ring) : i < j => Before(ring[i], ring[j])
  BY DEF RingInv

-----------------------------------------------------------------------------
(* Steps.  The parser takes the first n bytes of the ring, joins the first *)
(* of them to what it has or drops that, and writes only its own buffer.   *)
LEMMA ParserStream ==
  ASSUME StreamInv, UNCHANGED <<kinds, off, idle, sendPending, txSel, txBuf, txData, answered>>,
         UNCHANGED <<rxRead, rxWrite, rxCount, recvPtr>>,
         NEW n \in 0..Len(ring), ring' = SubSeq(ring, n + 1, Len(ring)),
         taken' \in Seq(Bytes),
         taken' # << >> => \/ taken # << >> /\ taken'[1] = taken[1]
                           \/ n >= 1 /\ taken = << >> /\ taken'[1] = ring[1],
         NEW s \in Seq(Bytes), bufs' = [bufs EXCEPT ![rxWrite] = s] \/ bufs' = bufs
  PROVE  StreamInv'
<1> USE DEF StreamInv
<1>1. ring' \in Seq(Bytes) /\ Len(ring') = Len(ring) - n /\ \A i \in 1..Len(ring') : ring'[i] = ring[i + n]
  BY Taken DEF RingInv
<1>2. /\ rxWrite \in RxBufs /\ bufs' \in [RxBufs -> Seq(Bytes)]
      /\ \A i \in 0..(rxCount - 1) : bufs'[(rxRead + i) % 3] = bufs[(rxRead + i) % 3]
  <2>1. rxRead \in 0..2 /\ rxCount \in 0..2 /\ rxWrite = (rxRead + rxCount) % 3 /\ bufs \in [RxBufs -> Seq(Bytes)]
    BY DEF QueueInv, RxBufs, QueueDepth
  <2>2. rxWrite \in RxBufs /\ bufs' \in [RxBufs -> Seq(Bytes)]
    BY <2>1, InTurn DEF RxBufs
  <2>3. ASSUME NEW i \in 0..(rxCount - 1) PROVE (rxRead + i) % 3 # rxWrite
    <3>1. i \in 0..2 /\ i # rxCount
      BY <2>1
    <3> QED BY <2>1, <3>1, InTurn
  <2>4. bufs' = bufs \/ \A b \in RxBufs : b # rxWrite => bufs'[b] = bufs[b]
    BY <2>1, <2>2
  <2>5. \A i \in 0..(rxCount - 1) : i \in 0..2 /\ (rxRead + i) % 3 \in RxBufs
    BY <2>1, InTurn DEF RxBufs
  <2> QED BY <2>2, <2>3, <2>4, <2>5
<1>3. InQueue' = InQueue
  BY <1>2 DEF InQueue
<1>4. InRing' \subseteq InRing
  BY <1>1 DEF InRing, RingInv
<1>5. InTaken' \subseteq InTaken \cup (IF n >= 1 THEN {ring[1]} ELSE {})
  BY DEF InTaken
<1>6. n >= 1 => ring[1] \in InRing /\ \A b \in InRing' : Before(ring[1], b)
  <2> SUFFICES ASSUME n >= 1 PROVE ring[1] \in InRing /\ \A b \in InRing' : Before(ring[1], b)
    OBVIOUS
  <2>1. ring[1] \in InRing
    BY DEF InRing, RingInv
  <2>2. ASSUME NEW i \in 1..Len(ring') PROVE Before(ring[1], ring'[i])
    <3>1. 1 \in 1..Len(ring) /\ i + n \in 1..Len(ring) /\ 1 < i + n
      BY <1>1, RingOrder
    <3> QED BY <1>1, <3>1, RingOrder
  <2> QED BY <2>1, <2>2 DEF InRing
<1>7. ToCome' \subseteq ToCome
  BY <1>3, <1>4, <1>5, <1>6 DEF ToCome
<1>8. LineInv' /\ TxInv'
  BY DEF LineInv, TxInv
<1>9. QueueInv'
  BY <1>2 DEF QueueInv
<1>10. AnswerInv'
  BY <1>7 DEF AnswerInv, Done
<1>11. RingInv'
  <2>1. \A b \in ToCome' : b \in Bytes /\ Sent(b)'
    BY <1>7 DEF RingInv, Sent
  <2>2. \A i, j \in 1..Len(ring') : i < j => Before(ring'[i], ring'[j])
    BY <1>1 DEF RingInv
  <2>3. \A a \in InTaken', b \in InRing' : Before(a, b)
    BY <1>4, <1>5, <1>6 DEF RingInv
  <2>4. \A a \in InQueue', b \in InRing' \cup InTaken' : Before(a, b)
    BY <1>3, <1>4, <1>5, <1>6 DEF RingInv
  <2>5. rxCount' = 2 => Before(bufs'[rxRead'][1], bufs'[(rxRead' + 1) % 3][1])
    <3> SUFFICES ASSUME rxCount = 2 PROVE Before(bufs'[rxRead][1], bufs'[(rxRead + 1) % 3][1])
      OBVIOUS
    <3>1. 0 \in 0..(rxCount - 1) /\ 1 \in 0..(rxCount - 1)
      OBVIOUS
    <3>3. (rxRead + 0) % 3 = rxRead
      BY InTurn DEF QueueInv, RxBufs
    <3>2. bufs'[rxRead] = bufs[rxRead] /\ bufs'[(rxRead + 1) % 3] = bufs[(rxRead + 1) % 3]
      BY <1>2, <3>1, <3>3
    <3> QED BY <3>2 DEF RingInv
  <2> QED BY <1>1, <2>1, <2>2, <2>3, <2>4, <2>5 DEF RingInv, Before
<1> QED BY <1>8, <1>9, <1>10, <1>11


\* The packet that is complete joins the queue.
LEMMA FrameEndStream ==
  ASSUME PortInv, IrqFrameEnd PROVE StreamInv'
<1> USE DEF PortInv, StreamInv
<1>1. /\ left > 0 /\ ring' = SubSeq(ring, 1 + 1, Len(ring)) /\ taken' = << >> /\ pc = "drain"
      /\ UNCHANGED <<kinds, off, idle, sendPending, txSel, txBuf, txData, answered, rxRead>>
  BY DEF IrqFrameEnd, TakesByte, Consume, Draining, line, tx
<1>2. 1 \in 0..Len(ring) /\ ring # << >>
  BY <1>1 DEF PollInv, RingInv
<1>3. CASE ~HasRoom
  <2>1. bufs' = [bufs EXCEPT ![rxWrite] = << >>] /\ UNCHANGED <<rxWrite, rxCount, recvPtr>> /\ << >> \in Seq(Bytes)
    BY <1>3 DEF IrqFrameEnd, EmptyBuf
  <2> QED BY <1>1, <1>2, <2>1, ParserStream
<1>4. CASE HasRoom
  <2> DEFINE w == Append(taken, Head(ring))
  <2>1. /\ bufs' = [bufs EXCEPT ![rxWrite] = w] /\ recvPtr' = (IF rxCount = 0 THEN rxWrite ELSE recvPtr)
        /\ rxCount' = rxCount + 1 /\ rxWrite' = (rxWrite + 1) % 3 /\ rxCount < 2
    BY <1>4 DEF IrqFrameEnd, KeepByte, WithByte, HasRoom, QueueDepth
  <2>2. /\ Head(ring) = ring[1] /\ ring[1] \in InRing /\ ring[1] \in Bytes
    BY <1>2 DEF InRing, RingInv
  <2>3. w \in Seq(Bytes) /\ w # << >> /\ w[1] = IF taken = << >> THEN ring[1] ELSE taken[1]
    BY <2>2, Appended DEF RingInv
  <2> HIDE DEF w
  <2>4. ring' \in Seq(Bytes) /\ Len(ring') = Len(ring) - 1 /\ \A i \in 1..Len(ring') : ring'[i] = ring[i + 1]
    BY <1>1, <1>2, Taken DEF RingInv
  <2>5. InRing' \subseteq InRing /\ InTaken' = {}
    BY <1>1, <2>4 DEF InRing, InTaken, RingInv
  <2>6. \A b \in InRing' : Before(ring[1], b)
    <3>1. ASSUME NEW i \in 1..Len(ring') PROVE Before(ring[1], ring'[i])
      BY <1>2, <2>4 DEF RingInv
    <3> QED BY <3>1 DEF InRing
  <2>7. w[1] \in InTaken \cup InRing /\ \A b \in InRing' : Before(w[1], b)
    BY <2>2, <2>3, <2>5, <2>6 DEF InTaken, RingInv
  <2>8. /\ rxRead \in 0..2 /\ rxWrite \in 0..2 /\ rxCount \in 0..1
        /\ rxCount = 0 => rxWrite = rxRead
        /\ rxCount = 1 => rxWrite = (rxRead + 1) % 3 /\ rxWrite # rxRead
        /\ (rxRead + 0) % 3 = rxRead
    <3>1. rxRead \in 0..2 /\ rxCount \in 0..1 /\ rxWrite = (rxRead + rxCount) % 3
      BY <2>1 DEF QueueInv, RxBufs, QueueDepth
    <3>2. (rxRead + 0) % 3 = rxRead /\ (rxRead + 1) % 3 \in 0..2 /\ (rxRead + 1) % 3 # rxRead
      BY <3>1, SMT
    <3> QED BY <3>1, <3>2
  <2>9. bufs' \in [RxBufs -> Seq(Bytes)] /\ bufs'[rxWrite] = w /\ (rxCount = 1 => bufs'[rxRead] = bufs[rxRead])
    BY <2>1, <2>3, <2>8 DEF QueueInv, RxBufs
  <2>10. QueueInv'
    <3>1. rxRead' \in RxBufs /\ rxCount' \in 0..QueueDepth /\ rxWrite' = (rxRead' + rxCount') % 3 /\ recvPtr' = rxRead'
      BY <1>1, <2>1, <2>8 DEF QueueInv, RxBufs, QueueDepth
    <3>2. ASSUME NEW i \in 0..(rxCount' - 1) PROVE bufs'[(rxRead' + i) % 3] # << >>
      <4>1. CASE i = rxCount
        BY <1>1, <2>3, <2>8, <2>9, <4>1
      <4>2. CASE i # rxCount
        <5>1. rxCount = 1 /\ i = 0
          BY <2>1, <2>8, <4>2
        <5>2. bufs[(rxRead + i) % 3] # << >>
          <6>1. i \in 0..(rxCount - 1)
            BY <5>1
          <6> QED BY <6>1 DEF QueueInv
        <5> QED BY <1>1, <2>8, <2>9, <5>1, <5>2
      <4> QED BY <4>1, <4>2
    <3> QED BY <2>9, <3>1, <3>2 DEF QueueInv
  <2>11. InQueue' = InQueue \cup {w[1]}
    <3>1. CASE rxCount = 0
      <4>1. InQueue = {} /\ InQueue' = {bufs'[rxRead][1]}
        <5>1. InQueue' = {bufs'[(rxRead + i) % 3][1] : i \in {0}}
          <6>1. 0..(rxCount' - 1) = {0}
            BY <2>1, <3>1
          <6> QED BY <1>1, <6>1 DEF InQueue
        <5>2. 0..(rxCount - 1) = {}
          BY <3>1
        <5> QED BY <1>1, <2>8, <5>1, <5>2 DEF InQueue
      <4> QED BY <2>8, <2>9, <3>1, <4>1
    <3>2. CASE rxCount = 1
      <4>1. 0..(rxCount - 1) = {0} /\ 0..(rxCount' - 1) = {0, 1}
        BY <2>1, <3>2
      <4>2. InQueue = {bufs[rxRead][1]} /\ InQueue' = {bufs'[rxRead][1], bufs'[(rxRead + 1) % 3][1]}
        BY <1>1, <2>8, <4>1 DEF InQueue
      <4> QED BY <2>8, <2>9, <3>2, <4>2
    <3> QED BY <2>8, <3>1, <3>2
  <2>12. ToCome' \subseteq ToCome
    BY <2>5, <2>7, <2>11 DEF ToCome
  <2>13. LineInv' /\ TxInv'
    BY <1>1 DEF LineInv, TxInv
  <2>14. AnswerInv'
    BY <1>1, <2>12 DEF AnswerInv, Done
  <2>15. RingInv'
    <3>1. \A b \in ToCome' : b \in Bytes /\ Sent(b)'
      BY <1>1, <2>12 DEF RingInv, Sent
    <3>2. \A i, j \in 1..Len(ring') : i < j => Before(ring'[i], ring'[j])
      BY <2>4, RingOrder
    <3>3. \A a \in InQueue', b \in InRing' \cup InTaken' : Before(a, b)
      BY <2>5, <2>7, <2>11 DEF RingInv
    <3>4. rxCount' = 2 => Before(bufs'[rxRead'][1], bufs'[(rxRead' + 1) % 3][1])
      <4> SUFFICES ASSUME rxCount = 1 PROVE Before(bufs[rxRead][1], w[1])
        BY <1>1, <2>1, <2>8, <2>9
      <4>1. bufs[rxRead][1] \in InQueue
        BY <2>8 DEF InQueue
      <4> QED BY <2>7, <4>1 DEF RingInv
    <3> QED BY <1>1, <2>4, <2>5, <3>1, <3>2, <3>3, <3>4 DEF RingInv, Before
  <2> QED BY <2>10, <2>13, <2>14, <2>15
<1> QED BY <1>3, <1>4

\* A byte that joins the ring comes after all that is to be dealt with.
LEMMA ArriveStream ==
  ASSUME StreamInv, UNCHANGED <<taken, bufs, rxRead, rxWrite, rxCount, recvPtr>>,
         UNCHANGED <<idle, sendPending, txSel, txBuf, txData, answered>>,
         LineInv', Len(kinds) <= Len(kinds'),
         \A b \in Bytes : Sent(b) => Sent(b)',
         NEW c \in Bytes, Sent(c)', ~Sent(c), Len(kinds) <= c[1], c[1] = Len(kinds) => off <= c[2],
         c[2] = 0 => Len(kinds) < c[1],
         ring' = Append(ring, c) \/ ring' = ring
  PROVE  StreamInv'
<1> USE DEF StreamInv
<1>1. /\ ring' \in Seq(Bytes) /\ \A i \in 1..Len(ring) : ring'[i] = ring[i]
      /\ \/ ring' = ring
         \/ Len(ring') = Len(ring) + 1 /\ ring'[Len(ring) + 1] = c
  <2>1. CASE ring' = Append(ring, c)
    BY <2>1, RingOrder, Appended
  <2>2. CASE ring' = ring
    BY <2>2, RingOrder
  <2> QED BY <2>1, <2>2
<1>2. InRing' \subseteq InRing \cup {c} /\ InTaken' = InTaken /\ InQueue' = InQueue
  BY <1>1 DEF InRing, InTaken, InQueue, RingInv
<1>3. \A b \in ToCome : Before(b, c)
  BY DEF RingInv, Sent, Before, Bytes, LineInv
<1>4. QueueInv' /\ TxInv'
  BY DEF QueueInv, TxInv
<1>5. \A f : Done(f) => Done(f)'
  <2> SUFFICES ASSUME NEW f, Done(f) PROVE Done(f)'
    OBVIOUS
  <2>1. f \in 0..Len(kinds')
    BY DEF Done, LineInv
  <2>2. ASSUME NEW b \in ToCome', b[2] = 0 PROVE f < b[1]
    <3>1. b \in ToCome \/ b = c
      BY <1>2 DEF ToCome
    <3> QED BY <2>2, <3>1 DEF Done, LineInv, Bytes
  <2> QED BY <2>1, <2>2 DEF Done
<1>6. AnswerInv'
  BY <1>5 DEF AnswerInv
<1>7. RingInv'
  <2>1. \A b \in ToCome' : b \in Bytes /\ Sent(b)'
    BY <1>2 DEF RingInv, ToCome
  <2>2. ASSUME NEW i \in 1..Len(ring'), NEW j \in 1..Len(ring'), i < j PROVE Before(ring'[i], ring'[j])
    <3>1. i \in 1..Len(ring) /\ (j \in 1..Len(ring) \/ ring'[j] = c)
      BY <1>1, <2>2, RingOrder
    <3>2. ring[i] \in ToCome
      BY <3>1 DEF ToCome, InRing
    <3> QED BY <1>1, <1>3, <2>2, <3>1, <3>2, RingOrder
  <2>3. \A a \in InTaken', b \in InRing' : Before(a, b)
    BY <1>2, <1>3 DEF RingInv, ToCome
  <2>4. \A a \in InQueue', b \in InRing' \cup InTaken' : Before(a, b)
    BY <1>2, <1>3 DEF RingInv, ToCome
  <2> QED BY <1>1, <2>1, <2>2, <2>3, <2>4 DEF RingInv, Before
<1> QED BY <1>4, <1>6, <1>7

LEMMA PrinterStream ==
  ASSUME StreamInv, NEW k \in Kinds, PrinterByte \/ PrinterStart(k) PROVE StreamInv'
<1> USE Lengths DEF StreamInv
<1>0. kinds \in Seq(Kinds) /\ off \in Nat /\ Len(kinds) \in Nat
  BY DEF LineInv
<1>1. CASE PrinterByte
  <2>0. PICK c : c = <<Len(kinds), off>>
    OBVIOUS
  <2>1. /\ kinds # << >> /\ off < FrameLen(kinds[Len(kinds)]) /\ off' = off + 1 /\ kinds' = kinds
        /\ ring' = Append(ring, c) \/ ring' = ring
        /\ UNCHANGED <<taken, bufs, rxRead, rxWrite, rxCount, recvPtr, idle, sendPending, txSel, txBuf, txData, answered>>
    BY <1>1, <2>0 DEF PrinterByte, Arrive, parser, queue, tx
  <2>2. c \in Bytes /\ c[1] = Len(kinds) /\ c[2] = off /\ off >= 1 /\ Len(kinds) >= 1
    BY <1>0, <2>0, <2>1 DEF LineInv, Bytes
  <2>3. Sent(c)' /\ ~Sent(c) /\ \A b \in Bytes : Sent(b) => Sent(b)'
    BY <1>0, <2>1, <2>2 DEF Sent, Bytes
  <2>4. LineInv'
    BY <1>0, <2>1, <2>2 DEF LineInv
  <2> QED BY <1>0, <2>1, <2>2, <2>3, <2>4, ArriveStream
<1>2. CASE PrinterStart(k)
  <2>0. PICK c : c = <<Len(kinds) + 1, 0>>
    OBVIOUS
  <2>1. /\ kinds # << >> => off = FrameLen(kinds[Len(kinds)])
        /\ off' = 1 /\ kinds' = Append(kinds, k)
        /\ ring' = Append(ring, c) \/ ring' = ring
        /\ UNCHANGED <<taken, bufs, rxRead, rxWrite, rxCount, recvPtr, idle, sendPending, txSel, txBuf, txData, answered>>
    BY <1>2, <2>0 DEF PrinterStart, Arrive, parser, queue, tx
  <2>2. c \in Bytes /\ c[1] = Len(kinds) + 1 /\ c[2] = 0
    BY <1>0, <2>0 DEF Bytes
  <2>3. /\ kinds' \in Seq(Kinds) /\ Len(kinds') = Len(kinds) + 1 /\ kinds' # << >>
        /\ \A i \in 1..Len(kinds) : kinds'[i] = kinds[i]
    BY <1>0, <2>1, Appended
  <2>4. Sent(c)' /\ ~Sent(c)
    BY <1>0, <2>1, <2>2, <2>3 DEF Sent
  <2>5. \A b \in Bytes : Sent(b) => Sent(b)'
    BY <1>0, <2>1, <2>3 DEF Sent, Bytes
  <2>6. LineInv'
    BY <2>1, <2>3 DEF LineInv
  <2> QED BY <1>0, <2>1, <2>2, <2>3, <2>4, <2>5, <2>6, ArriveStream
<1> QED BY <1>1, <1>2

\* A transmission ends, and leaves alone the buffer the next answer waits in.
LEMMA TxEndStream ==
  ASSUME StreamInv, TxEnd, UNCHANGED <<kinds, off, ring, parser, queue>> PROVE StreamInv'
<1> USE DEF StreamInv, TxEnd, parser, queue
<1>1. ToCome' = ToCome
  BY DEF ToCome, InRing, InTaken, InQueue
<1>2. DOMAIN txData' = TxBufs /\ txData'[txSel] = txData[txSel] /\ txSel \in TxBufs
  BY DEF TxInv
<1>3. TxInv'
  BY <1>2 DEF TxInv, TxBufs
<1>4. AnswerInv'
  BY <1>1, <1>2 DEF AnswerInv, Done
<1>5. LineInv' /\ QueueInv'
  BY DEF LineInv, QueueInv
<1>6. RingInv'
  BY <1>1 DEF RingInv, Sent, Before, InRing, InTaken, InQueue
<1> QED BY <1>3, <1>4, <1>5, <1>6

LEMMA SendStream ==
  ASSUME StreamInv, Send PROVE StreamInv' /\ answered' > answered
<1> USE DEF StreamInv, Send, StartTx, line, poll, parser, queue
<1>1. ToCome' = ToCome
  BY DEF ToCome, InRing, InTaken, InQueue
<1>2. TxInv'
  <2>1. txSel \in 0..1 /\ 1 - txSel \in 0..1 /\ 1 - txSel # txSel
    BY DEF TxInv, TxBufs
  <2> QED BY <2>1 DEF TxInv, TxBufs
<1>3. AnswerInv' /\ answered' > answered
  BY <1>1 DEF AnswerInv, Done, LineInv
<1>4. LineInv' /\ QueueInv'
  BY DEF LineInv, QueueInv
<1>5. RingInv'
  BY <1>1 DEF RingInv, Sent, Before, InRing, InTaken, InQueue
<1> QED BY <1>2, <1>3, <1>4, <1>5

\* The first packet leaves the queue; its answer comes after the ones before.
LEMMA TakePacketStream ==
  ASSUME StreamInv, NEW reply \in BOOLEAN, NEW arrange \in BOOLEAN, TakePacket(reply, arrange) PROVE StreamInv'
<1> USE DEF StreamInv
<1>1. /\ rxCount > 0
      /\ reply => bufs[recvPtr] # << >> /\ bufs[recvPtr][1][2] = 0
      /\ sendPending' = reply /\ txData' = IF reply THEN [txData EXCEPT ![txSel] = bufs[recvPtr][1][1]] ELSE txData
      /\ rxRead' = (rxRead + 1) % 3 /\ recvPtr' = (rxRead + 1) % 3 /\ rxCount' = rxCount - 1
      /\ bufs' = [bufs EXCEPT ![rxRead] = << >>]
      /\ UNCHANGED <<kinds, off, ring, taken, rxWrite, idle, txSel, txBuf, answered>>
  BY DEF TakePacket, release_packet, IsWhole, Packet, line, rx, poll, parser
<1>2. /\ rxRead \in 0..2 /\ rxCount \in 1..2 /\ recvPtr = rxRead /\ (rxRead + 0) % 3 = rxRead
      /\ bufs \in [RxBufs -> Seq(Bytes)] /\ (rxRead + 1) % 3 \in 0..2 /\ (rxRead + 1) % 3 # rxRead
      /\ (((rxRead + 1) % 3) + 0) % 3 = (rxRead + 1) % 3
      /\ (((rxRead + 1) % 3) + (rxCount - 1)) % 3 = (rxRead + rxCount) % 3
  <2>0. rxCount > 0
    BY <1>1
  <2>1. rxRead \in 0..2 /\ rxCount \in 1..2 /\ recvPtr = rxRead /\ bufs \in [RxBufs -> Seq(Bytes)]
    BY <2>0 DEF QueueInv, RxBufs, QueueDepth
  <2>2. (rxRead + 0) % 3 = rxRead /\ (rxRead + 1) % 3 \in 0..2 /\ (rxRead + 1) % 3 # rxRead
    BY <2>1, SMT
  <2>3. (((rxRead + 1) % 3) + 0) % 3 = (rxRead + 1) % 3
    BY <2>1, SMT
  <2>4. (((rxRead + 1) % 3) + 1) % 3 = (rxRead + 2) % 3
    BY <2>1, SMT
  <2>5. (((rxRead + 1) % 3) + (rxCount - 1)) % 3 = (rxRead + rxCount) % 3
    <3>1. CASE rxCount = 1
      BY <2>3, <3>1
    <3>2. CASE rxCount = 2
      BY <2>4, <3>2
    <3> QED BY <2>1, <3>1, <3>2
  <2> QED BY <2>1, <2>2, <2>3, <2>5
<1> DEFINE h == bufs[rxRead][1]
           g == bufs[(rxRead + 1) % 3][1]
<1>3. /\ bufs' \in [RxBufs -> Seq(Bytes)] /\ bufs'[(rxRead + 1) % 3] = bufs[(rxRead + 1) % 3]
      /\ h \in InQueue
  BY <1>1, <1>2 DEF RxBufs, InQueue
<1>4. /\ rxCount = 1 => InQueue' = {} /\ InQueue = {h}
      /\ rxCount = 2 => InQueue' = {g} /\ InQueue = {h, g} /\ Before(h, g)
  <2>1. CASE rxCount = 1
    <3>1. 0..(rxCount - 1) = {0} /\ 0..(rxCount' - 1) = {}
      BY <1>1, <2>1
    <3> QED BY <1>2, <2>1, <3>1 DEF InQueue
  <2>2. CASE rxCount = 2
    <3>1. 0..(rxCount - 1) = {0, 1} /\ 0..(rxCount' - 1) = {0}
      BY <1>1, <2>2
    <3>2. InQueue = {h, g}
      BY <1>2, <3>1 DEF InQueue
    <3>3. InQueue' = {g}
      BY <1>1, <1>2, <1>3, <3>1 DEF InQueue
    <3> QED BY <2>2, <3>2, <3>3 DEF RingInv
  <2> QED BY <1>2, <2>1, <2>2
<1>5. InRing' = InRing /\ InTaken' = InTaken /\ InQueue' \subseteq InQueue
  BY <1>1, <1>2, <1>4 DEF InRing, InTaken
<1> HIDE DEF h, g
<1>6. ToCome' \subseteq ToCome /\ h \in ToCome /\ \A b \in ToCome' : Before(h, b)
  <2>1. \A b \in InQueue' : Before(h, b)
    BY <1>2, <1>4
  <2>2. \A b \in InRing \cup InTaken : Before(h, b)
    BY <1>3 DEF RingInv
  <2> QED BY <1>3, <1>5, <2>1, <2>2 DEF ToCome
<1>7. QueueInv'
  <2>1. /\ rxRead' \in RxBufs /\ rxCount' \in 0..QueueDepth /\ rxWrite' = (rxRead' + rxCount') % 3
        /\ recvPtr' = rxRead'
    BY <1>1, <1>2 DEF QueueInv, RxBufs, QueueDepth
  <2>2. ASSUME NEW i \in 0..(rxCount' - 1) PROVE bufs'[(rxRead' + i) % 3] # << >>
    <3>1. i = 0 /\ 1 \in 0..(rxCount - 1)
      BY <1>1, <1>2
    <3>2. bufs[(rxRead + 1) % 3] # << >>
      BY <3>1 DEF QueueInv
    <3> QED BY <1>1, <1>2, <1>3, <3>1, <3>2
  <2> QED BY <1>3, <2>1, <2>2 DEF QueueInv
<1>8. LineInv' /\ TxInv'
  BY <1>1 DEF LineInv, TxInv
<1>9. AnswerInv'
  <2>1. Done(answered)'
    BY <1>1, <1>6 DEF AnswerInv, Done
  <2>2. CASE reply
    <3>0. PICK f : f = h[1]
      OBVIOUS
    <3>1. txData'[txSel'] = f /\ h[2] = 0
      BY <1>1, <1>2, <2>2, <3>0 DEF TxInv, h
    <3>2. h \in Bytes /\ Sent(h) /\ answered < f
      BY <1>6, <3>0, <3>1 DEF RingInv, AnswerInv, Done
    <3>3. Done(f)'
      <4>1. f \in 0..Len(kinds')
        BY <1>1, <3>0, <3>2 DEF Sent, LineInv
      <4>2. ASSUME NEW b \in ToCome', b[2] = 0 PROVE f < b[1]
        <5>1. b \in Bytes /\ Before(h, b)
          BY <1>6 DEF RingInv
        <5> QED BY <3>0, <3>1, <3>2, <4>2, <5>1 DEF Before, Bytes
      <4> QED BY <4>1, <4>2 DEF Done
    <3> QED BY <1>1, <2>1, <3>1, <3>2, <3>3 DEF AnswerInv
  <2> QED BY <1>1, <2>1, <2>2 DEF AnswerInv
<1>10. RingInv'
  <2>1. \A b \in ToCome' : b \in Bytes /\ Sent(b)'
    BY <1>1, <1>6 DEF RingInv, Sent
  <2>2. /\ \A a \in InTaken', b \in InRing' : Before(a, b)
        /\ \A a \in InQueue', b \in InRing' \cup InTaken' : Before(a, b)
    BY <1>5 DEF RingInv
  <2>3. rxCount' # 2
    <3>1. rxCount' = rxCount - 1
      BY <1>1
    <3>2. rxCount \in 1..2
      BY <1>2
    <3> QED BY <3>1, <3>2
  <2> QED BY <1>1, <2>1, <2>2, <2>3 DEF RingInv, Before
<1> QED BY <1>7, <1>8, <1>9, <1>10

\* The parser takes a byte that is not the last of a packet.
LEMMA IrqStream ==
  ASSUME PortInv, IrqSkip \/ IrqStart \/ IrqNoStart \/ IrqHeader \/ IrqPayload PROVE StreamInv'
<1> USE DEF PortInv
<1>1. /\ left > 0 /\ pc = "drain" /\ ring' = SubSeq(ring, 1 + 1, Len(ring))
      /\ UNCHANGED <<kinds, off, idle, sendPending, txSel, txBuf, txData, answered>>
      /\ UNCHANGED <<rxRead, rxWrite, rxCount, recvPtr>>
  <2>1. TakesByte
    BY DEF IrqSkip, IrqStart, IrqNoStart, IrqHeader, IrqPayload
  <2>2. UNCHANGED <<rxRead, rxWrite, rxCount, recvPtr>>
    BY DEF IrqSkip, IrqStart, IrqNoStart, IrqHeader, IrqPayload, queue
  <2> QED BY <2>1, <2>2 DEF TakesByte, Consume, Draining, line, tx
<1>2. ring \in Seq(Bytes) /\ taken \in Seq(Bytes) /\ 1 \in 0..Len(ring)
  BY <1>1 DEF PollInv, StreamInv, RingInv
<1>3. /\ << >> \in Seq(Bytes) /\ WithByte \in Seq(Bytes) /\ WithByte # << >>
      /\ WithByte[1] = IF taken = << >> THEN ring[1] ELSE taken[1]
  <2>1. Head(ring) = ring[1] /\ ring[1] \in Bytes
    BY <1>2
  <2> QED BY <1>2, <2>1, Appended DEF WithByte
<1>4. taken' \in {taken, << >>, WithByte} /\ (bufs' = bufs \/ bufs' = [bufs EXCEPT ![rxWrite] = << >>]
                                               \/ bufs' = [bufs EXCEPT ![rxWrite] = WithByte])
  BY DEF IrqSkip, IrqStart, IrqNoStart, IrqHeader, IrqPayload, parser, queue, EmptyBuf, KeepByte
<1> HIDE DEF PortInv
<1>5. /\ taken' \in Seq(Bytes)
      /\ taken' # << >> => \/ taken # << >> /\ taken'[1] = taken[1]
                           \/ 1 >= 1 /\ taken = << >> /\ taken'[1] = ring[1]
  <2>1. CASE taken' = taken
    BY <1>2, <2>1
  <2>2. CASE taken' = << >>
    BY <1>3, <2>2
  <2>3. CASE taken' = WithByte
    BY <1>3, <2>3
  <2> QED BY <1>4, <2>1, <2>2, <2>3
<1>6. StreamInv
  BY DEF PortInv
<1>7. PICK s \in Seq(Bytes) : bufs' = [bufs EXCEPT ![rxWrite] = s] \/ bufs' = bufs
  BY <1>3, <1>4
<1> QED BY <1>1, <1>2, <1>5, <1>6, <1>7, ParserStream

\* The receiver is restarted, or gives up the open frame.
LEMMA ResetStream ==
  ASSUME PortInv, PollRestart \/ StallReset \/ rx_reached PROVE StreamInv'
<1>1. StreamInv /\ ring \in Seq(Bytes) /\ Len(ring) \in Nat /\ taken \in Seq(Bytes) /\ << >> \in Seq(Bytes)
  BY DEF PortInv, StreamInv, RingInv
<1>2. UNCHANGED <<kinds, off, idle, sendPending, txSel, txBuf, txData, answered, rxRead, rxWrite, rxCount, recvPtr>>
  BY DEF PollRestart, StallReset, rx_reached, line, tx
<1>3. (taken' = taken \/ taken' = << >>) /\ (bufs' = bufs \/ bufs' = [bufs EXCEPT ![rxWrite] = << >>])
  BY DEF PollRestart, StallReset, rx_reached, ResetRx, EmptyBuf, parser
<1>4. CASE PollRestart
  <2>1. ring' = << >> /\ taken' = << >> /\ Len(ring) \in 0..Len(ring)
    BY <1>1, <1>4 DEF PollRestart, ResetRx
  <2>2. SubSeq(ring, Len(ring) + 1, Len(ring)) = << >>
    BY <1>1
  <2> QED BY <1>1, <1>2, <1>3, <2>1, <2>2, ParserStream
<1>5. CASE StallReset \/ rx_reached
  <2>1. ring' = ring /\ 0 \in 0..Len(ring)
    BY <1>1, <1>5 DEF StallReset, rx_reached
  <2>2. SubSeq(ring, 0 + 1, Len(ring)) = ring
    BY <1>1
  <2> QED BY <1>1, <1>2, <1>3, <2>1, <2>2, ParserStream
<1> QED BY <1>4, <1>5

\* The fast path skips n bytes: a heartbeat, or what looks like one and is lost to its frames.
FalseBeats == \E n \in FalseLens : FalseBeat(n)

Skips(n) ==
  /\ Draining /\ ~MarkReached /\ n >= 1 /\ n <= left /\ ~MarkInside(n)
  /\ Consume(n)
  /\ UNCHANGED <<parser, queue>>
  /\ spoiled \subseteq spoiled'
  /\ ring[1][2] = 0 \/ ring[1][1] \in spoiled'

LEMMA BeatSkips == ASSUME PortInv, FastBeat \/ FalseBeats PROVE \E n \in Nat : Skips(n)
<1>1. CASE FastBeat
  <2>1. HeartbeatLen \in Nat /\ HeartbeatLen >= 1
    BY Lengths
  <2>2. Skips(HeartbeatLen)
    BY <1>1, <2>1 DEF FastBeat, FastBeatNow, IsHeartbeatHead, RealHead, PortInv, PollInv, Skips
  <2> QED BY <2>1, <2>2
<1>2. CASE FalseBeats
  <2>1. PICK n \in FalseLens : FalseBeat(n)
    BY <1>2 DEF FalseBeats
  <2>2. n \in Nat /\ n >= 1
    BY Lengths DEF FalseLens, MaxLen
  <2>3. left \in Nat /\ n <= left
    BY <2>1, <2>2 DEF FalseBeat, PortInv, PollInv
  <2>4. ring[1][1] \in spoiled'
    <3>1. 1 \in 1..n
      BY <2>2
    <3> QED BY <2>1, <3>1 DEF FalseBeat
  <2>5. Skips(n)
    BY <2>1, <2>2, <2>3, <2>4 DEF FalseBeat, Skips
  <2> QED BY <2>2, <2>5
<1> QED BY <1>1, <1>2

LEMMA BeatStream == ASSUME PortInv, FastBeat \/ FalseBeats PROVE StreamInv'
<1>1. StreamInv /\ ring \in Seq(Bytes) /\ taken \in Seq(Bytes) /\ << >> \in Seq(Bytes)
  BY DEF PortInv, StreamInv, RingInv
<1>2. PICK n \in Nat : Skips(n)
  BY BeatSkips
<1>3. /\ ring' = SubSeq(ring, n + 1, Len(ring))
      /\ UNCHANGED <<kinds, off, idle, sendPending, txSel, txBuf, txData, answered>>
      /\ UNCHANGED <<rxRead, rxWrite, rxCount, recvPtr>> /\ taken' = taken /\ bufs' = bufs
  BY <1>2 DEF Skips, Consume, tx, parser, queue
<1>4. n \in 0..Len(ring)
  BY <1>1, <1>2 DEF Skips, Draining, PortInv, PollInv
<1> QED BY <1>1, <1>3, <1>4, ParserStream

\* The steps that touch no byte.
Elsewhere == \/ RxDmaError \/ PollWaits \/ PollOverflow \/ PollSnapshot \/ DrainOverflow \/ LoseByte
             \/ MainPollEnd \/ BackgroundPollEnd \/ TakeNothing \/ SendNothing \/ UNCHANGED vars

LEMMA ElsewhereStream ==
  ASSUME StreamInv, Elsewhere
  PROVE  StreamInv' /\ UNCHANGED <<idle, txData, answered, bufs, rxRead, rxWrite, rxCount, recvPtr>>
<1> USE DEF StreamInv
<1>1. /\ UNCHANGED <<kinds, ring, parser, queue, tx>>
      /\ off' = off \/ (kinds # << >> /\ off < FrameLen(kinds[Len(kinds)]) /\ off' = off + 1)
  <2>1. CASE LoseByte
    BY <2>1 DEF LoseByte, rx
  <2>2. CASE RxDmaError \/ PollWaits \/ PollOverflow \/ PollSnapshot \/ DrainOverflow
    BY <2>2 DEF RxDmaError, PollWaits, PollOverflow, PollSnapshot, DrainOverflow, line, rx
  <2>3. CASE MainPollEnd \/ BackgroundPollEnd \/ TakeNothing \/ SendNothing \/ UNCHANGED vars
    BY <2>3 DEF MainPollEnd, BackgroundPollEnd, PollEnd, TakeNothing, SendNothing, vars, line, rx
  <2> QED BY <2>1, <2>2, <2>3 DEF Elsewhere
<1>2. ToCome' = ToCome
  BY <1>1 DEF ToCome, InRing, InTaken, InQueue, parser, queue
<1>3. LineInv'
  BY <1>1, Lengths DEF LineInv
<1>4. QueueInv' /\ TxInv'
  BY <1>1 DEF QueueInv, TxInv, queue, tx
<1>5. AnswerInv'
  BY <1>1, <1>2 DEF AnswerInv, Done, tx
<1>6. RingInv'
  <2>1. \A b \in Bytes : Sent(b) => Sent(b)'
    BY <1>1 DEF Sent, Bytes, LineInv
  <2>2. \A b \in ToCome' : b \in Bytes /\ Sent(b)'
    BY <1>2, <2>1 DEF RingInv
  <2> QED BY <1>1, <2>2 DEF RingInv, Before, InRing, InTaken, InQueue, parser, queue
<1> QED BY <1>1, <1>3, <1>4, <1>5, <1>6 DEF tx, queue

-----------------------------------------------------------------------------
LEMMA StreamNext == ASSUME PortInv, [Next]_vars PROVE StreamInv'
<1>0. StreamInv
  BY DEF PortInv
<1>1. CASE \E k \in Kinds : PrinterStart(k)
  BY <1>0, <1>1, PrinterStream
<1>2. CASE PrinterByte
  <2>1. "packet" \in Kinds
    BY DEF Kinds
  <2> QED BY <1>0, <1>2, <2>1, PrinterStream
<1>3. CASE TxDone \/ TxAbort
  <2>1. TxEnd /\ UNCHANGED <<kinds, off, ring, parser, queue>>
    BY <1>3 DEF TxDone, TxAbort, line, rx
  <2> QED BY <1>0, <2>1, TxEndStream
<1>4. CASE PollRestart \/ StallReset \/ rx_reached
  BY <1>4, ResetStream
<1>5. CASE FastBeat \/ FalseBeats
  BY <1>5, BeatStream
<1>6. CASE IrqFrameEnd
  BY <1>6, FrameEndStream
<1>7. CASE IrqSkip \/ IrqStart \/ IrqNoStart \/ IrqHeader \/ IrqPayload
  BY <1>7, IrqStream
<1>8. CASE \E reply, arrange \in BOOLEAN : TakePacket(reply, arrange)
  BY <1>0, <1>8, TakePacketStream
<1>9. CASE Send
  BY <1>0, <1>9, SendStream
<1>10. CASE Elsewhere
  BY <1>0, <1>10, ElsewhereStream
<1> QED BY <1>1, <1>2, <1>3, <1>4, <1>5, <1>6, <1>7, <1>8, <1>9, <1>10
        DEF Next, Environment, MainLoop, Irq, Elsewhere, Kinds, FalseBeats

LEMMA PollNext == ASSUME PortInv, [Next]_vars PROVE PollInv'
<1>0. /\ pc \in {"poll", "drain", "take", "send"} /\ left \in Nat /\ ring \in Seq(Bytes) /\ Len(ring) \in Nat
      /\ pc = "drain" => left <= Len(ring)
  BY DEF PortInv, PollInv, StreamInv, RingInv
<1>1. CASE PrinterByte \/ \E k \in Kinds : PrinterStart(k)
  <2>1. PICK c \in Bytes : Arrive(c)
    <3>1. CASE PrinterByte
      <4>1. <<Len(kinds), off>> \in Bytes
        BY DEF PortInv, StreamInv, LineInv, Bytes
      <4> QED BY <3>1, <4>1 DEF PrinterByte
    <3>2. CASE \E k \in Kinds : PrinterStart(k)
      <4>1. <<Len(kinds) + 1, 0>> \in Bytes
        BY DEF PortInv, StreamInv, LineInv, Bytes
      <4> QED BY <3>2, <4>1 DEF PrinterStart
    <3> QED BY <1>1, <3>1, <3>2
  <2>2. pc' = pc /\ left' = left /\ (ring' = ring \/ Len(ring') = Len(ring) + 1)
    BY <1>0, <2>1, Appended DEF Arrive, poll
  <2> QED BY <1>0, <2>2 DEF PollInv
<1>2. CASE TxDone \/ TxAbort \/ RxDmaError \/ LoseByte \/ DrainOverflow \/ StallReset \/ rx_reached \/ UNCHANGED vars
  <2>1. UNCHANGED <<pc, left, ring>>
    BY <1>2 DEF TxDone, TxAbort, RxDmaError, LoseByte, DrainOverflow, StallReset, rx_reached, vars, poll, rx
  <2> QED BY <1>0, <2>1 DEF PollInv
<1>3. CASE PollWaits \/ PollOverflow \/ TakeNothing \/ SendNothing \/ Send
           \/ \E reply, arrange \in BOOLEAN : TakePacket(reply, arrange)
  <2>1. pc' \in {"poll", "take", "send"} /\ left' = left
    BY <1>3 DEF PollWaits, PollOverflow, TakeNothing, SendNothing, Send, TakePacket, poll
  <2> QED BY <1>0, <2>1 DEF PollInv
<1>4. CASE PollSnapshot
  <2>1. pc' = "drain" /\ left' = Len(ring) /\ ring' = ring
    BY <1>4 DEF PollSnapshot, rx
  <2> QED BY <1>0, <2>1 DEF PollInv
<1>5. CASE PollRestart
  <2>1. pc' = "drain" /\ left' = 0 /\ ring' = << >>
    BY <1>5 DEF PollRestart
  <2> QED BY <2>1 DEF PollInv
<1>6. CASE MainPollEnd \/ BackgroundPollEnd
  <2>1. pc' \in {"take", "poll"} /\ left' = 0
    BY <1>6 DEF MainPollEnd, BackgroundPollEnd, PollEnd
  <2> QED BY <2>1 DEF PollInv
<1>7. CASE FastBeat \/ FalseBeats \/ Irq
  <2>1. PICK n \in Nat : Consume(n) /\ n <= left /\ pc = "drain"
    <3>1. CASE FastBeat \/ FalseBeats
      BY <3>1, BeatSkips DEF Skips, Draining
    <3>2. CASE Irq
      <4>1. Consume(1) /\ left > 0 /\ pc = "drain"
        BY <3>2 DEF Irq, IrqSkip, IrqStart, IrqNoStart, IrqHeader, IrqPayload, IrqFrameEnd, TakesByte, Draining
      <4> QED BY <1>0, <4>1
    <3> QED BY <1>7, <3>1, <3>2
  <2>2. pc' = "drain" /\ left' = left - n /\ ring' = SubSeq(ring, n + 1, Len(ring))
    BY <2>1 DEF Consume
  <2>3. n \in 0..Len(ring)
    BY <1>0, <2>1
  <2>4. Len(ring') = Len(ring) - n
    BY <1>0, <2>2, <2>3, Taken
  <2> QED BY <1>0, <2>1, <2>2, <2>3, <2>4 DEF PollInv
<1> QED BY <1>1, <1>2, <1>3, <1>4, <1>5, <1>6, <1>7
        DEF Next, Environment, MainLoop, Kinds, FalseBeats

LEMMA PortInit == Init => PortInv
<1> SUFFICES ASSUME Init PROVE PortInv
  OBVIOUS
<1> USE DEF Init
<1>1. LineInv /\ TxInv /\ PollInv
  BY DEF LineInv, TxInv, TxBufs, PollInv
<1>2. QueueInv
  BY DEF QueueInv, RxBufs, QueueDepth
<1>3. ToCome = {} /\ InTaken = {} /\ InQueue = {} /\ InRing = {}
  <2>1. 0..(rxCount - 1) = {} /\ 1..Len(ring) = {}
    OBVIOUS
  <2> QED BY <2>1 DEF ToCome, InRing, InTaken, InQueue
<1>4. RingInv
  <2>1. \A i, j \in 1..Len(ring) : i < j => Before(ring[i], ring[j])
    OBVIOUS
  <2> QED BY <1>3, <2>1 DEF RingInv
<1>5. AnswerInv
  BY <1>3 DEF AnswerInv, Done, NoFrame
<1> QED BY <1>1, <1>2, <1>4, <1>5 DEF PortInv, StreamInv

LEMMA PortAlways == Spec => []PortInv
<1>1. PortInv /\ [Next]_vars => PortInv'
  BY StreamNext, PollNext DEF PortInv
<1> QED BY PortInit, <1>1, PTL DEF Spec

-----------------------------------------------------------------------------
(* Of the answers: the transmission that DMA reads byte by byte is never   *)
(* written again, and the next one answers a later request (tx_build_sel,  *)
(* send_package() and bus_uart1_dma_send()), however requests, handlers    *)
(* and aborted transmissions interleave.                                   *)
THEOREM AnswersWholeAlways == Spec => AnswersAreWhole
<1>1. ASSUME PortInv, [Next]_vars
      PROVE  /\ ~idle /\ ~idle' => txData'[txBuf] = txData[txBuf]
             /\ idle /\ ~idle' => answered' > answered
  <2>1. CASE Send
    <3>1. idle /\ answered' > answered
      BY <1>1, <2>1, SendStream DEF PortInv, Send
    <3> QED BY <3>1
  <2>2. CASE TxDone \/ TxAbort
    BY <2>2 DEF TxDone, TxAbort, TxEnd
  <2>3. CASE \E reply, arrange \in BOOLEAN : TakePacket(reply, arrange)
    <3>1. /\ idle' = idle
          /\ \/ txData' = txData
             \/ txData' = [txData EXCEPT ![txSel] = Packet[1][1]]
      BY <2>3 DEF TakePacket
    <3>2. /\ ~idle => txSel # txBuf
          /\ txBuf \in TxBufs /\ DOMAIN txData = TxBufs
      BY <1>1 DEF PortInv, StreamInv, TxInv
    <3> QED BY <3>1, <3>2
  <2>4. CASE ~(Send \/ TxDone \/ TxAbort \/ \E reply, arrange \in BOOLEAN : TakePacket(reply, arrange))
    <3>1. UNCHANGED <<idle, txData>>
      <4>1. CASE Elsewhere
        BY <1>1, <4>1, ElsewhereStream DEF PortInv
      <4>2. CASE PollRestart \/ StallReset \/ rx_reached \/ FastBeat \/ FalseBeats \/ Irq
        BY <4>2 DEF PollRestart, StallReset, rx_reached, FastBeat, FalseBeats, FalseBeat, Irq, IrqSkip, IrqStart, IrqNoStart, IrqHeader,
                    IrqPayload, IrqFrameEnd, TakesByte, Consume, tx
      <4>3. CASE PrinterByte \/ \E k \in Kinds : PrinterStart(k)
        BY <4>3 DEF PrinterByte, PrinterStart, Arrive, tx
      <4> QED BY <1>1, <2>4, <4>1, <4>2, <4>3 DEF Next, Environment, MainLoop, Elsewhere, Kinds, FalseBeats
    <3> QED BY <3>1
  <2> QED BY <2>1, <2>2, <2>3, <2>4
<1>2. Spec => WireIsStable
  <2>1. PortInv /\ [Next]_vars => [~idle /\ ~idle' => txData'[txBuf] = txData[txBuf]]_vars
    BY <1>1
  <2> QED BY PortAlways, <2>1, PTL DEF Spec, WireIsStable
<1>3. Spec => AnswersInOrder
  <2>1. PortInv /\ [Next]_vars => [idle /\ ~idle' => answered' > answered]_vars
    BY <1>1
  <2> QED BY PortAlways, <2>1, PTL DEF Spec, AnswersInOrder
<1> QED BY <1>2, <1>3 DEF AnswersAreWhole

-----------------------------------------------------------------------------
\* The packets that wait, oldest first, lie in the buffers in turn.
InOrder ==
  /\ Waiting \in Seq(Seq(Bytes)) /\ Len(Waiting) = rxCount
  /\ Waiting = [i \in 1..rxCount |-> bufs[(rxRead + (i - 1)) % 3]]

LEMMA WaitingIs == QueueInv => InOrder
<1> SUFFICES ASSUME QueueInv PROVE InOrder
  OBVIOUS
<1> USE DEF InOrder
<1>1. /\ rxRead \in 0..2 /\ rxCount \in 0..2 /\ bufs \in [RxBufs -> Seq(Bytes)]
      /\ rxCount > 0 => recvPtr = rxRead
  BY DEF QueueInv, RxBufs, QueueDepth
<1>2. (rxRead + 0) % 3 = rxRead /\ \A n \in 0..2 : (rxRead + n) % 3 \in 0..2
  BY <1>1, InTurn
<1>3. \A i \in 1..rxCount : /\ i - 1 \in 0..2 /\ rxRead + i - 1 = rxRead + (i - 1) /\ rxCount > 0
                            /\ i = 1 => i - 1 = 0
  BY <1>1
<1>4. Waiting = [i \in 1..rxCount |-> bufs[(rxRead + (i - 1)) % 3]]
  BY <1>1, <1>2, <1>3 DEF Waiting, Packet
<1>5. \A i \in 1..rxCount : bufs[(rxRead + (i - 1)) % 3] \in Seq(Bytes)
  BY <1>1, <1>2, <1>3 DEF RxBufs
<1>6. Waiting \in [1..rxCount -> Seq(Bytes)] /\ rxCount \in Nat
  <2>1. [i \in 1..rxCount |-> bufs[(rxRead + (i - 1)) % 3]] \in [1..rxCount -> Seq(Bytes)]
    BY <1>5, Zenon
  <2>2. rxCount \in Nat
    BY <1>1
  <2> QED BY <1>4, <2>1, <2>2, Zenon
<1> HIDE DEF Waiting
<1> QED BY <1>4, <1>6

\* What the parser writes is not in the queue.
LEMMA WaitingStays ==
  ASSUME QueueInv, QueueInv', UNCHANGED <<rxRead, rxCount, rxWrite>>,
         bufs' = bufs \/ \E s \in Seq(Bytes) : bufs' = [bufs EXCEPT ![rxWrite] = s]
  PROVE  Waiting' = Waiting
<1>1. /\ rxRead \in 0..2 /\ rxCount \in 0..2 /\ rxWrite = (rxRead + rxCount) % 3 /\ bufs \in [RxBufs -> Seq(Bytes)]
  BY DEF QueueInv, RxBufs, QueueDepth
<1>2. \A n \in 0..2 : (rxRead + n) % 3 \in RxBufs /\ (n # rxCount => (rxRead + n) % 3 # rxWrite)
  BY <1>1, InTurn DEF RxBufs
<1>3. \A b \in RxBufs : b # rxWrite => bufs'[b] = bufs[b]
  BY <1>1
<1>4. \A i \in 1..rxCount : bufs'[(rxRead + (i - 1)) % 3] = bufs[(rxRead + (i - 1)) % 3]
  <2>1. \A i \in 1..rxCount : i - 1 \in 0..2 /\ i - 1 # rxCount
    BY <1>1
  <2> QED BY <1>2, <1>3, <2>1
<1>5. QueueInv' => InOrder'
  BY WaitingIs, PTL
<1>6. Waiting' = [i \in 1..rxCount |-> bufs'[(rxRead + (i - 1)) % 3]]
  BY <1>5 DEF InOrder
<1>7. Waiting = [i \in 1..rxCount |-> bufs[(rxRead + (i - 1)) % 3]]
  BY WaitingIs DEF InOrder
<1> QED BY <1>4, <1>6, <1>7

LEMMA PacketJoins == ASSUME PortInv, QueueInv', IrqFrameEnd, HasRoom PROVE Queue!Put
<1>1. /\ rxRead \in 0..2 /\ rxCount \in 0..1 /\ rxWrite = (rxRead + rxCount) % 3 /\ bufs \in [RxBufs -> Seq(Bytes)]
      /\ rxRead' = rxRead /\ rxCount' = rxCount + 1 /\ bufs' = [bufs EXCEPT ![rxWrite] = WithByte]
  BY DEF PortInv, StreamInv, QueueInv, RxBufs, QueueDepth, IrqFrameEnd, HasRoom, KeepByte
<1>2. /\ Waiting \in Seq(Seq(Bytes)) /\ Len(Waiting) = rxCount
      /\ Waiting = [i \in 1..rxCount |-> bufs[(rxRead + (i - 1)) % 3]]
  BY WaitingIs DEF PortInv, StreamInv, InOrder
<1>0. QueueInv' => InOrder'
  BY WaitingIs, PTL
<1>3. /\ Waiting' \in Seq(Seq(Bytes)) /\ Len(Waiting') = rxCount + 1
      /\ Waiting' = [i \in 1..(rxCount + 1) |-> bufs'[(rxRead + (i - 1)) % 3]]
  BY <1>0, <1>1 DEF InOrder
<1>4. ASSUME NEW i \in 1..rxCount PROVE Waiting'[i] = Waiting[i]
  <2>1. rxCount = 1 /\ i = 1 /\ i - 1 = 0
    BY <1>1
  <2>2. (rxRead + 0) % 3 \in RxBufs /\ (rxRead + 0) % 3 # rxWrite
    BY <1>1, <2>1, InTurn DEF RxBufs
  <2>3. Waiting'[i] = bufs'[(rxRead + 0) % 3] /\ Waiting[i] = bufs[(rxRead + 0) % 3]
    BY <1>1, <1>2, <1>3, <2>1
  <2> QED BY <1>1, <2>2, <2>3
<1> HIDE DEF Waiting
<1>5. SubSeq(Waiting', 1, Len(Waiting)) = Waiting
  BY <1>2, <1>3, <1>4, OneMore
<1>6. rxCount < 2 /\ Len(Waiting) = rxCount /\ Len(Waiting') = Len(Waiting) + 1
  BY <1>1, <1>2, <1>3
<1> QED BY <1>5, <1>6, Zenon DEF Queue!Put, QueueDepth

LEMMA PacketLeaves ==
  ASSUME PortInv, QueueInv', NEW reply, NEW arrange, TakePacket(reply, arrange) PROVE Queue!Get
<1>1. /\ rxRead \in 0..2 /\ rxCount \in 1..2 /\ bufs \in [RxBufs -> Seq(Bytes)]
      /\ rxRead' = (rxRead + 1) % 3 /\ rxCount' = rxCount - 1 /\ bufs' = [bufs EXCEPT ![rxRead] = << >>]
  BY DEF PortInv, StreamInv, QueueInv, RxBufs, QueueDepth, TakePacket, release_packet
<1>2. /\ Waiting \in Seq(Seq(Bytes)) /\ Len(Waiting) = rxCount
      /\ Waiting = [i \in 1..rxCount |-> bufs[(rxRead + (i - 1)) % 3]]
  BY WaitingIs DEF PortInv, StreamInv, InOrder
<1>0. QueueInv' => InOrder'
  BY WaitingIs, PTL
<1>3. /\ Waiting' \in Seq(Seq(Bytes)) /\ Len(Waiting') = rxCount - 1
      /\ Waiting' = [i \in 1..rxCount' |-> bufs'[(rxRead' + (i - 1)) % 3]]
  BY <1>0, <1>1 DEF InOrder
<1>4. ASSUME NEW i \in 1..(rxCount - 1) PROVE Waiting'[i] = Waiting[i + 1]
  <2>1. rxCount = 2 /\ i = 1 /\ i - 1 = 0 /\ i + 1 \in 1..2 /\ (i + 1) - 1 = 1
    BY <1>1
  <2>2. (((rxRead + 1) % 3) + 0) % 3 = (rxRead + 1) % 3 /\ (rxRead + 1) % 3 \in 0..2 /\ (rxRead + 1) % 3 # rxRead
    <3>1. (((rxRead + 1) % 3) + 0) % 3 = (rxRead + 1) % 3
      BY <1>1, SMT
    <3>2. (rxRead + 1) % 3 \in 0..2 /\ (rxRead + 1) % 3 # rxRead
      BY <1>1, SMT
    <3> QED BY <3>1, <3>2
  <2>3. Waiting'[i] = bufs'[(rxRead' + 0) % 3] /\ Waiting[i + 1] = bufs[(rxRead + 1) % 3]
    BY <1>1, <1>2, <1>3, <2>1
  <2> QED BY <1>1, <2>2, <2>3 DEF RxBufs
<1> HIDE DEF Waiting
<1>5. Waiting # << >>
  BY <1>1, <1>2
<1>6. Waiting' = Tail(Waiting)
  BY <1>2, <1>3, <1>4, <1>5, OneLess
<1> QED BY <1>5, <1>6 DEF Queue!Get

(* Of the queue: bus_recv_data_ptr, rx_queue_read, rx_queue_write and      *)
(* rx_queue_count are an implementation of a queue of two frames.  A frame *)
(* accepted is handed over once, in order and unchanged: the parser, which *)
(* writes meanwhile, has the third buffer.                                 *)
THEOREM QueueRefined == Spec => QueueOfTwo
<1>1. Init => Queue!Init
  <2>1. ASSUME Init PROVE Queue!Init
    <3>1. rxCount = 0 /\ QueueInv
      BY <2>1, PortInit DEF PortInv, StreamInv, Init
    <3>2. Waiting \in Seq(Seq(Bytes)) /\ Len(Waiting) = 0
      BY <3>1, WaitingIs DEF InOrder
    <3> HIDE DEF Waiting
    <3> QED BY <3>2 DEF Queue!Init
  <2> QED BY <2>1
<1>2. ASSUME PortInv, [Next]_vars PROVE [Queue!Next]_Waiting
  <2>1. QueueInv /\ QueueInv'
    BY <1>2, StreamNext DEF PortInv, StreamInv
  <2>2. CASE IrqFrameEnd /\ HasRoom
    BY <1>2, <2>1, <2>2, PacketJoins DEF Queue!Next
  <2>3. CASE \E reply, arrange \in BOOLEAN : TakePacket(reply, arrange)
    BY <1>2, <2>1, <2>3, PacketLeaves DEF Queue!Next
  <2>4. CASE ~(IrqFrameEnd /\ HasRoom) /\ ~\E reply, arrange \in BOOLEAN : TakePacket(reply, arrange)
    <3>1. /\ UNCHANGED <<rxRead, rxCount, rxWrite>>
          /\ bufs' = bufs \/ \E s : bufs' = [bufs EXCEPT ![rxWrite] = s]
      <4>1. CASE Elsewhere
        BY <1>2, <4>1, ElsewhereStream DEF PortInv
      <4>2. CASE PollRestart \/ StallReset \/ rx_reached \/ FastBeat \/ FalseBeats
        BY <4>2 DEF PollRestart, StallReset, rx_reached, ResetRx, EmptyBuf, FastBeat, FalseBeats, FalseBeat, queue
      <4>3. CASE IrqSkip \/ IrqStart \/ IrqNoStart \/ IrqHeader \/ IrqPayload
        BY <4>3 DEF IrqSkip, IrqStart, IrqNoStart, IrqHeader, IrqPayload, KeepByte, EmptyBuf, queue
      <4>4. CASE IrqFrameEnd /\ ~HasRoom
        BY <4>4 DEF IrqFrameEnd, EmptyBuf
      <4>5. CASE PrinterByte \/ \E k \in Kinds : PrinterStart(k)
        BY <4>5 DEF PrinterByte, PrinterStart, Arrive, queue
      <4>6. CASE TxDone \/ TxAbort \/ Send
        BY <4>6 DEF TxDone, TxAbort, Send, queue
      <4> QED BY <1>2, <2>4, <4>1, <4>2, <4>3, <4>4, <4>5, <4>6
              DEF Next, Environment, MainLoop, Irq, Elsewhere, Kinds, FalseBeats
    <3>2. bufs' = bufs \/ \E s \in Seq(Bytes) : bufs' = [bufs EXCEPT ![rxWrite] = s]
      <4>1. bufs' \in [RxBufs -> Seq(Bytes)] /\ bufs \in [RxBufs -> Seq(Bytes)] /\ rxWrite \in RxBufs
        BY <2>1, InTurn DEF QueueInv, RxBufs, QueueDepth
      <4> QED BY <3>1, <4>1
    <3>3. Waiting' = Waiting
      BY <2>1, <3>1, <3>2, WaitingStays
    <3> QED BY <3>3
  <2> QED BY <2>2, <2>3, <2>4
<1>3. PortInv /\ [Next]_vars => [Queue!Next]_Waiting
  BY <1>2
<1> QED BY <1>1, <1>3, PortAlways, PTL DEF Spec, Queue!Spec, QueueOfTwo

-----------------------------------------------------------------------------
(* Frames are taken whole.  Counted from byte a, the k-th byte that came   *)
(* down the line is the k-th of a's frame, unless a's frame lost a byte or *)
(* is over before.                                                         *)
Follows(a, k, b) ==
  a[1] \in spoiled \/ b = <<a[1], a[2] + k>> \/ a[2] + k >= FrameLen(kinds[a[1]])

\* The next byte to come down the line will be the k-th from a, in the same way.
Reaches(a, k) ==
  \/ a[1] \in spoiled
  \/ a[2] + k >= FrameLen(kinds[a[1]])
  \/ a[1] = Len(kinds) /\ a[2] + k = off

\* Our transmission began between the i-th and the j-th byte of the ring.
Cut(i, j) == markPending /\ i <= mark /\ mark < j

\* A full ring holds no more, and the poll that finds it so restarts the receiver.
Overrun == Len(ring) >= RingSize /\ pc # "drain"

MarkInv ==
  /\ markPending \in BOOLEAN /\ mark \in Nat /\ (markPending => mark <= Len(ring))
  /\ pc = "drain" /\ markPending => mark <= left
  /\ pc \in {"take", "send"} => ~markPending
  /\ ~idle => IF markPending THEN mark = Len(ring) ELSE ring = << >> /\ taken = << >>

\* Bytes with no cut between them followed each other on the line.
RingRuns ==
  /\ \A i, j \in 1..Len(ring) : i < j => Cut(i, j) \/ Follows(ring[i], j - i, ring[j])
  /\ Overrun \/ \A i \in 1..Len(ring) :
       (markPending /\ i <= mark) \/ Reaches(ring[i], Len(ring) + 1 - i)

TakenRuns ==
  taken # << >> =>
    /\ \A j \in 1..Len(ring) : Cut(0, j) \/ Follows(taken[1], Len(taken) + j - 1, ring[j])
    /\ Overrun \/ markPending \/ Reaches(taken[1], Len(taken) + Len(ring))

CutInv == ~rxFault => MarkInv /\ RingRuns /\ TakenRuns

\* What the parser has taken of an undamaged frame, and what it still expects of it.
HeadInv ==
  /\ taken # << >> <=> receiving
  /\ drop > 0 => index = 0
  /\ index = 1 => Len(taken) = 1
  /\ index \in Nat /\ drop \in Nat
  /\ Sound(taken) =>
       LET f == taken[1][1]  n == Len(taken)
       IN  /\ \A i \in 1..n : taken[i] = <<f, i - 1>>
           /\ n = 1 => index = 1
           /\ n > 1 => IF kinds[f] = "heartbeat"
                       THEN index = 0 /\ drop = HeartbeatLen - n /\ n < HeartbeatLen
                       ELSE index = n /\ length = PacketLen /\ n < PacketLen

WholeInv == PortInv /\ CutInv /\ HeadInv

LEMMA BytesSent ==
  ASSUME StreamInv
  PROVE  /\ ring \in Seq(Bytes) /\ taken \in Seq(Bytes) /\ kinds \in Seq(Kinds) /\ off \in Nat
         /\ Len(ring) \in Nat /\ Len(taken) \in Nat /\ Len(kinds) \in Nat
         /\ \A i \in 1..Len(ring) : ring[i] \in Bytes /\ ring[i][1] \in 1..Len(kinds) /\ ring[i][2] \in Nat
         /\ taken # << >> => taken[1] \in Bytes /\ taken[1][1] \in 1..Len(kinds) /\ taken[1][2] \in Nat
<1>1. ring \in Seq(Bytes) /\ taken \in Seq(Bytes) /\ kinds \in Seq(Kinds) /\ off \in Nat
  BY DEF StreamInv, RingInv, LineInv
<1>2. \A b \in ToCome : b \in Bytes /\ b[1] \in 1..Len(kinds) /\ b[2] \in Nat
  BY DEF StreamInv, RingInv, Sent, Bytes
<1>3. \A i \in 1..Len(ring) : ring[i] \in ToCome
  BY DEF ToCome, InRing
<1>4. taken # << >> => taken[1] \in ToCome
  BY DEF ToCome, InTaken
<1> QED BY <1>1, <1>2, <1>3, <1>4

\* Bytes that followed each other still do when the line only loses one.
LEMMA RunsKept ==
  ASSUME UNCHANGED kinds, UNCHANGED <<off, spoiled>> \/ LoseByte
  PROVE  /\ \A a, k, b : Follows(a, k, b) => Follows(a, k, b)'
         /\ \A a, k : Reaches(a, k) => Reaches(a, k)'
<1>1. spoiled' = spoiled \cup {Len(kinds)} \/ (spoiled' = spoiled /\ off' = off)
  BY DEF LoseByte
<1> QED BY <1>1 DEF Follows, Reaches, FrameLen

\* Nothing is taken and nothing arrives.
LEMMA RestRuns ==
  ASSUME RingRuns, TakenRuns, UNCHANGED <<kinds, ring, markPending, mark>>,
         UNCHANGED <<off, spoiled>> \/ LoseByte,
         taken' = taken \/ taken' = << >>, Overrun => Overrun'
  PROVE  RingRuns' /\ TakenRuns'
<1>1. \A i, j : Cut(i, j)' <=> Cut(i, j)
  BY DEF Cut
<1>2. RingRuns'
  BY <1>1, RunsKept DEF RingRuns
<1>3. TakenRuns'
  BY <1>1, RunsKept DEF TakenRuns
<1> QED BY <1>2, <1>3

\* The cut has been passed, and what was open before it is given up.
LEMMA ReachedRuns ==
  ASSUME StreamInv, RingRuns, UNCHANGED <<line, ring, pc>>, markPending => mark <= 0, mark \in Nat,
         ~markPending', taken' = << >>
  PROVE  RingRuns' /\ TakenRuns'
<1>1. ring \in Seq(Bytes) /\ Len(ring) \in Nat
  BY BytesSent
<1>2. UNCHANGED <<kinds, off, spoiled, ring, pc>>
  BY DEF line
<1>3. /\ \A a, k, b : Follows(a, k, b) => Follows(a, k, b)'
      /\ \A a, k : Reaches(a, k) => Reaches(a, k)'
  BY <1>2, RunsKept
<1>4. Overrun => Overrun'
  BY <1>2 DEF Overrun
<1>5. \A i \in 1..Len(ring) : ~(markPending /\ i <= mark)
  BY <1>1
<1>6. \A i \in 1..Len(ring) : \A j : ~Cut(i, j)
  BY <1>5 DEF Cut
<1>7. RingRuns'
  BY <1>2, <1>3, <1>4, <1>5, <1>6 DEF RingRuns
<1> QED BY <1>7 DEF TakenRuns

\* The first n bytes of the ring are taken, and the cut is not among them.
LEMMA TakesRuns ==
  ASSUME PortInv, MarkInv, RingRuns, pc = "drain", NEW n \in 1..Len(ring), n <= left, Consume(n),
         spoiled \subseteq spoiled', markPending => mark >= n
  PROVE  /\ MarkInv' /\ RingRuns'
         /\ Len(ring') = Len(ring) - n /\ \A j \in 1..Len(ring') : ring'[j] = ring[j + n]
         /\ \A i, j \in Nat : Cut(i, j)' <=> Cut(i + n, j + n)
         /\ \A a, k, b : Follows(a, k, b) => Follows(a, k, b)'
         /\ \A a, k : Reaches(a, k) => Reaches(a, k)'
         /\ ~Overrun /\ ~Overrun'
<1>1. /\ ring' = SubSeq(ring, n + 1, Len(ring)) /\ left' = left - n
      /\ mark' = (IF markPending THEN mark - n ELSE mark)
      /\ UNCHANGED <<kinds, off, markPending, pc, idle>>
  BY DEF Consume, tx
<1>2. ring \in Seq(Bytes) /\ Len(ring) \in Nat /\ left \in Nat /\ mark \in Nat /\ markPending \in BOOLEAN
  BY BytesSent DEF PortInv, PollInv, MarkInv
<1>3. Len(ring') = Len(ring) - n /\ \A j \in 1..Len(ring') : ring'[j] = ring[j + n]
  BY <1>1, <1>2, Taken
<1>4. \A i, j \in Nat : Cut(i, j)' <=> Cut(i + n, j + n)
  BY <1>1, <1>2 DEF Cut
<1>5. /\ \A a, k, b : Follows(a, k, b) => Follows(a, k, b)'
      /\ \A a, k : Reaches(a, k) => Reaches(a, k)'
  BY <1>1 DEF Follows, Reaches, FrameLen
<1>6. ~Overrun /\ ~Overrun'
  BY <1>1 DEF Overrun
<1>7. MarkInv'
  <2>1. mark' \in Nat /\ (markPending' => mark' <= Len(ring'))
    BY <1>1, <1>2, <1>3 DEF MarkInv
  <2>2. markPending' => mark' <= left'
    BY <1>1, <1>2 DEF MarkInv
  <2>3. ~idle' => markPending' /\ mark' = Len(ring')
    BY <1>1, <1>2, <1>3 DEF MarkInv
  <2> QED BY <1>1, <1>2, <2>1, <2>2, <2>3 DEF MarkInv
<1>8. RingRuns'
  <2>1. ASSUME NEW i \in 1..Len(ring'), NEW j \in 1..Len(ring'), i < j
        PROVE  Cut(i, j)' \/ Follows(ring'[i], j - i, ring'[j])
    <3>1. /\ i + n \in 1..Len(ring) /\ j + n \in 1..Len(ring) /\ i + n < j + n /\ (j + n) - (i + n) = j - i
          /\ i \in Nat /\ j \in Nat
      BY <1>2, <1>3, <2>1
    <3>2. Cut(i + n, j + n) \/ Follows(ring[i + n], j - i, ring[j + n])
      BY <3>1 DEF RingRuns
    <3> QED BY <1>3, <1>4, <3>1, <3>2
  <2>2. ASSUME NEW i \in 1..Len(ring')
        PROVE  (markPending' /\ i <= mark') \/ Reaches(ring'[i], Len(ring') + 1 - i)
    <3>1. i + n \in 1..Len(ring) /\ Len(ring) + 1 - (i + n) = Len(ring') + 1 - i
      BY <1>2, <1>3
    <3>2. (markPending /\ i + n <= mark) \/ Reaches(ring[i + n], Len(ring') + 1 - i)
      BY <1>6, <3>1 DEF RingRuns
    <3>3. ring'[i] = ring[i + n]
      BY <1>3
    <3>4. markPending /\ i + n <= mark => markPending' /\ i <= mark'
      BY <1>1, <1>2, <3>1
    <3> QED BY <3>2, <3>3, <3>4
  <2>3. \A i, j \in 1..Len(ring') : i < j => Cut(i, j)' \/ Follows(ring[i], j - i, ring[j])'
    BY <1>5, <2>1
  <2>4. \A i \in 1..Len(ring') : (markPending' /\ i <= mark') \/ Reaches(ring[i], Len(ring) + 1 - i)'
    BY <1>5, <2>2
  <2> QED BY <2>3, <2>4 DEF RingRuns
<1> QED BY <1>3, <1>4, <1>5, <1>6, <1>7, <1>8

\* The byte the parser takes goes on where it left off.
LEMMA ByteFits ==
  ASSUME PortInv, CutInv, TakesByte, Sound(taken), taken[1][2] + Len(taken) < FrameLen(kinds[taken[1][1]])
  PROVE  Head(ring) = <<taken[1][1], Len(taken)>>
<1>1. /\ ring \in Seq(Bytes) /\ Len(ring) \in Nat /\ Len(taken) \in Nat /\ taken # << >>
      /\ taken[1][1] \notin spoiled /\ taken[1][2] = 0
  BY BytesSent DEF PortInv, Sound
<1>2. 1 \in 1..Len(ring) /\ Head(ring) = ring[1]
  BY <1>1 DEF TakesByte, Draining, PortInv, PollInv
<1>3. mark \in Nat /\ ~(markPending /\ mark <= 0) /\ TakenRuns
  BY DEF TakesByte, Draining, MarkReached, CutInv, MarkInv
<1>4. ~Cut(0, 1)
  BY <1>3 DEF Cut
<1>5. Follows(taken[1], Len(taken), ring[1])
  <2>1. Len(taken) + 1 - 1 = Len(taken)
    BY <1>1
  <2>2. Cut(0, 1) \/ Follows(taken[1], Len(taken) + 1 - 1, ring[1])
    BY <1>1, <1>2, <1>3 DEF TakenRuns
  <2> QED BY <1>4, <2>1, <2>2
<1>6. ring[1] = <<taken[1][1], taken[1][2] + Len(taken)>>
  BY <1>1, <1>5, Lengths DEF Follows
<1> QED BY <1>1, <1>2, <1>6

\* One byte is taken.
LEMMA ByteRuns ==
  ASSUME PortInv, CutInv, HeadInv, TakesByte, taken' \in {<< >>, WithByte}
  PROVE  MarkInv' /\ RingRuns' /\ TakenRuns'
<1>1. /\ pc = "drain" /\ left > 0 /\ ~rxFault /\ Consume(1) /\ MarkInv /\ RingRuns /\ TakenRuns
      /\ ~(markPending /\ mark <= 0) /\ spoiled \subseteq spoiled'
  BY DEF TakesByte, Draining, MarkReached, CutInv
<1>2. /\ ring \in Seq(Bytes) /\ taken \in Seq(Bytes) /\ Len(ring) \in Nat /\ Len(taken) \in Nat /\ left \in Nat
      /\ left <= Len(ring) /\ mark \in Nat /\ markPending \in BOOLEAN
  BY <1>1, BytesSent DEF PortInv, PollInv, MarkInv
<1>3. 1 \in 1..Len(ring) /\ 1 <= left /\ (markPending => mark >= 1)
  BY <1>1, <1>2
<1>4. /\ MarkInv' /\ RingRuns'
      /\ Len(ring') = Len(ring) - 1 /\ \A j \in 1..Len(ring') : ring'[j] = ring[j + 1]
      /\ \A i, j \in Nat : Cut(i, j)' <=> Cut(i + 1, j + 1)
      /\ \A a, k, b : Follows(a, k, b) => Follows(a, k, b)'
      /\ \A a, k : Reaches(a, k) => Reaches(a, k)'
      /\ ~Overrun /\ ~Overrun'
  BY <1>1, <1>3, TakesRuns
<1>5. markPending' = markPending /\ mark' = IF markPending THEN mark - 1 ELSE mark
  BY <1>1 DEF Consume
<1>6. CASE taken' = << >>
  BY <1>4, <1>6 DEF TakenRuns
<1>7. CASE taken' = WithByte
  <2>1. /\ taken' \in Seq(Bytes) /\ Len(taken') = Len(taken) + 1 /\ taken' # << >>
        /\ taken'[1] = IF taken = << >> THEN ring[1] ELSE taken[1]
    <3>1. Head(ring) = ring[1] /\ ring[1] \in Bytes
      BY <1>2, <1>3
    <3> QED BY <1>2, <1>7, <3>1, Appended DEF WithByte
  <2>2. PICK a : a = taken'[1]
    OBVIOUS
  <2>3. ASSUME NEW j \in 1..Len(ring')
        PROVE  Cut(0, j)' \/ Follows(a, Len(taken') + j - 1, ring'[j])
    <3>1. j \in Nat /\ j + 1 \in 1..Len(ring) /\ 0 \in Nat /\ 0 + 1 = 1 /\ 1 < j + 1 /\ (j + 1) - 1 = j
      BY <1>2, <1>4
    <3>2. Cut(0, j)' <=> Cut(1, j + 1)
      BY <1>4, <3>1
    <3>3. CASE taken = << >>
      <4>1. Cut(1, j + 1) \/ Follows(ring[1], (j + 1) - 1, ring[j + 1])
        BY <1>1, <1>3, <3>1 DEF RingRuns
      <4>2. Len(taken') + j - 1 = j
        BY <2>1, <3>1, <3>3
      <4> QED BY <1>4, <2>1, <2>2, <3>1, <3>2, <3>3, <4>1, <4>2
    <3>4. CASE taken # << >>
      <4>1. Cut(0, j + 1) \/ Follows(taken[1], Len(taken) + (j + 1) - 1, ring[j + 1])
        BY <1>1, <3>1, <3>4 DEF TakenRuns
      <4>2. Len(taken) + (j + 1) - 1 = Len(taken') + j - 1
        BY <1>2, <2>1, <3>1
      <4>3. Cut(0, j + 1) => Cut(1, j + 1)
        BY <1>2, <1>3 DEF Cut
      <4> QED BY <1>4, <2>1, <2>2, <3>2, <3>4, <4>1, <4>2, <4>3
    <3> QED BY <3>3, <3>4
  <2>4. markPending' \/ Reaches(a, Len(taken') + Len(ring'))
    <3>1. CASE taken = << >>
      <4>1. markPending \/ Reaches(ring[1], Len(ring) + 1 - 1)
        BY <1>1, <1>3, <1>4 DEF RingRuns
      <4>2. Len(ring) + 1 - 1 = Len(taken') + Len(ring')
        BY <1>2, <1>4, <2>1, <3>1
      <4> QED BY <1>5, <2>1, <2>2, <3>1, <4>1, <4>2
    <3>2. CASE taken # << >>
      <4>1. markPending \/ Reaches(taken[1], Len(taken) + Len(ring))
        BY <1>1, <1>4, <3>2 DEF TakenRuns
      <4>2. Len(taken) + Len(ring) = Len(taken') + Len(ring')
        BY <1>2, <1>4, <2>1
      <4> QED BY <1>5, <2>1, <2>2, <3>2, <4>1, <4>2
    <3> QED BY <3>1, <3>2
  <2>5. \A j \in 1..Len(ring') : Cut(0, j)' \/ Follows(taken[1], Len(taken) + j - 1, ring[j])'
    BY <1>4, <2>2, <2>3
  <2>6. markPending' \/ Reaches(taken[1], Len(taken) + Len(ring))'
    BY <1>4, <2>2, <2>4
  <2> QED BY <1>4, <2>5, <2>6 DEF TakenRuns
<1> QED BY <1>4, <1>6, <1>7

\* The fast path skips bytes; a frame that was open before them is over or damaged.
LEMMA BeatRuns ==
  ASSUME PortInv, CutInv, FastBeat \/ FalseBeats
  PROVE  MarkInv' /\ RingRuns' /\ TakenRuns'
<1>0. PICK n \in Nat : Skips(n)
  BY BeatSkips
<1>1. /\ pc = "drain" /\ ~rxFault /\ Consume(n) /\ MarkInv /\ RingRuns /\ TakenRuns
      /\ ~(markPending /\ mark <= 0) /\ n >= 1 /\ n <= left /\ spoiled \subseteq spoiled'
      /\ ring[1][2] = 0 \/ ring[1][1] \in spoiled'
      /\ ~MarkInside(n) /\ taken' = taken /\ kinds' = kinds
  BY <1>0 DEF Skips, Draining, MarkReached, CutInv, parser, Consume
<1>2. /\ ring \in Seq(Bytes) /\ taken \in Seq(Bytes) /\ Len(ring) \in Nat /\ Len(taken) \in Nat /\ left \in Nat
      /\ left <= Len(ring) /\ mark \in Nat /\ markPending \in BOOLEAN
  BY <1>1, BytesSent DEF PortInv, PollInv, MarkInv
<1>4. n \in 1..Len(ring) /\ n <= left /\ (markPending => mark >= n) /\ 1 \in 1..Len(ring)
  BY <1>1, <1>2 DEF MarkInside
<1>5. /\ MarkInv' /\ RingRuns'
      /\ Len(ring') = Len(ring) - n /\ \A j \in 1..Len(ring') : ring'[j] = ring[j + n]
      /\ \A i, j \in Nat : Cut(i, j)' <=> Cut(i + n, j + n)
      /\ \A a, k, b : Follows(a, k, b) => Follows(a, k, b)'
      /\ \A a, k : Reaches(a, k) => Reaches(a, k)'
      /\ ~Overrun /\ ~Overrun'
  BY <1>1, <1>4, TakesRuns
<1>6. ASSUME taken # << >>
      PROVE  taken[1][1] \in spoiled' \/ taken[1][2] + Len(taken) >= FrameLen(kinds[taken[1][1]])
  <2>1. taken[1][2] \in Nat /\ Len(taken) >= 1
    BY <1>2, <1>6, BytesSent DEF PortInv
  <2>2. ~Cut(0, 1)
    BY <1>1, <1>2 DEF Cut
  <2>3. Len(taken) + 1 - 1 = Len(taken)
    BY <1>2
  <2>4. Follows(taken[1], Len(taken), ring[1])
    <3>1. Cut(0, 1) \/ Follows(taken[1], Len(taken) + 1 - 1, ring[1])
      BY <1>1, <1>4, <1>6 DEF TakenRuns
    <3> QED BY <2>2, <2>3, <3>1
  <2>5. ring[1] = <<taken[1][1], taken[1][2] + Len(taken)>> => taken[1][1] \in spoiled'
    BY <1>1, <1>2, <2>1
  <2> QED BY <1>1, <2>4, <2>5 DEF Follows
<1>7. TakenRuns'
  <2> SUFFICES ASSUME taken # << >>
               PROVE  \A k \in Nat : /\ \A b : Follows(taken[1], Len(taken) + k, b)'
                                     /\ Reaches(taken[1], Len(taken) + k)'
    <3>1. \A j \in 1..Len(ring') : j - 1 \in Nat /\ Len(taken) + (j - 1) = Len(taken) + j - 1
      BY <1>2, <1>5
    <3>2. Len(ring') \in Nat
      BY <1>2, <1>4, <1>5
    <3> QED BY <1>1, <3>1, <3>2 DEF TakenRuns
  <2>1. PICK a : a = taken[1]
    OBVIOUS
  <2>2. a[2] \in Nat /\ FrameLen(kinds[a[1]]) \in Nat
    BY <1>2, <2>1, BytesSent, Lengths DEF PortInv
  <2>3. \A k \in Nat : a[1] \in spoiled' \/ a[2] + (Len(taken) + k) >= FrameLen(kinds[a[1]])
    BY <1>2, <1>6, <2>1, <2>2
  <2>4. \A k \in Nat : (\A b : Follows(a, Len(taken) + k, b)') /\ Reaches(a, Len(taken) + k)'
    BY <1>1, <2>3 DEF Follows, Reaches, FrameLen
  <2> QED BY <1>1, <1>5, <2>1, <2>4
<1> QED BY <1>5, <1>7

\* A byte comes down the line, and joins the ring unless reception is off.
LEMMA ArriveRuns ==
  ASSUME StreamInv, CutInv, NEW c \in Bytes, Arrive(c),
         spoiled' = spoiled, \A f \in 1..Len(kinds) : kinds'[f] = kinds[f],
         c[1] = Len(kinds'), off' = c[2] + 1,
         \A a \in Bytes, k \in Nat :
           a[1] \in 1..Len(kinds) /\ Reaches(a, k) => Follows(a, k, c)' /\ Reaches(a, k + 1)'
  PROVE  CutInv'
<1> SUFFICES ASSUME ~rxFault' PROVE MarkInv' /\ RingRuns' /\ TakenRuns'
  BY DEF CutInv
<1>1. /\ UNCHANGED <<rxFault, markPending, mark, pc, left, taken, idle>>
      /\ pc = "drain" => Len(ring) < RingSize
      /\ ring' = IF idle /\ ~rxFault /\ Len(ring) < RingSize THEN Append(ring, c) ELSE ring
  BY DEF Arrive, poll, parser, tx
<1>2. MarkInv /\ RingRuns /\ TakenRuns /\ ~rxFault
  BY <1>1 DEF CutInv
<1>3. /\ ring \in Seq(Bytes) /\ taken \in Seq(Bytes) /\ Len(ring) \in Nat /\ Len(taken) \in Nat
      /\ \A i \in 1..Len(ring) : ring[i] \in Bytes /\ ring[i][1] \in 1..Len(kinds)
      /\ taken # << >> => taken[1] \in Bytes /\ taken[1][1] \in 1..Len(kinds)
      /\ markPending \in BOOLEAN /\ mark \in Nat /\ (markPending => mark <= Len(ring))
      /\ RingSize \in Nat
  BY <1>2, BytesSent, Lengths DEF MarkInv
<1>4. \A a, k, b : a[1] \in 1..Len(kinds) /\ Follows(a, k, b) => Follows(a, k, b)'
  BY DEF Follows, FrameLen
<1>5. \A i, j : Cut(i, j)' <=> Cut(i, j)
  BY <1>1 DEF Cut
<1>6. CASE ~(idle /\ Len(ring) < RingSize)
  <2>1. ring' = ring
    BY <1>1, <1>6
  <2>2. \/ Overrun'
        \/ markPending /\ mark = Len(ring)
        \/ ring = << >> /\ taken = << >>
    <3>1. CASE idle
      BY <1>1, <1>3, <1>6, <2>1, <3>1 DEF Overrun
    <3>2. CASE ~idle
      BY <1>2, <3>2 DEF MarkInv
    <3> QED BY <3>1, <3>2
  <2>3. MarkInv'
    BY <1>1, <1>2, <2>1 DEF MarkInv
  <2>4. RingRuns'
    <3>1. \A i, j \in 1..Len(ring) : i < j => Cut(i, j)' \/ Follows(ring[i], j - i, ring[j])'
      BY <1>2, <1>3, <1>4, <1>5, <2>1 DEF RingRuns
    <3>2. \A i \in 1..Len(ring) : Overrun' \/ (markPending /\ i <= mark)
      BY <1>3, <2>2
    <3> QED BY <1>1, <2>1, <3>1, <3>2 DEF RingRuns
  <2>5. TakenRuns'
    <3> SUFFICES ASSUME taken # << >> PROVE TakenRuns'
      BY <1>1 DEF TakenRuns
    <3>1. \A j \in 1..Len(ring) : Cut(0, j)' \/ Follows(taken[1], Len(taken) + j - 1, ring[j])'
      BY <1>1, <1>2, <1>3, <1>4, <1>5, <2>1 DEF TakenRuns
    <3>2. Overrun' \/ markPending
      BY <2>2
    <3> QED BY <1>1, <2>1, <3>1, <3>2 DEF TakenRuns
  <2> QED BY <2>3, <2>4, <2>5
<1>7. CASE idle /\ Len(ring) < RingSize
  <2>1. ring' = Append(ring, c)
    BY <1>1, <1>2, <1>7
  <2>2. PICK n \in Nat : n = Len(ring)
    BY <1>3
  <2>3. Len(ring') = n + 1 /\ (\A i \in 1..n : ring'[i] = ring[i]) /\ ring'[n + 1] = c
    BY <1>3, <2>1, <2>2, Appended
  <2>4. ~Overrun
    BY <1>3, <1>7 DEF Overrun
  <2>5. MarkInv'
    <3>1. markPending' => mark' <= Len(ring')
      BY <1>1, <1>3, <2>2, <2>3
    <3> QED BY <1>1, <1>2, <1>3, <1>7, <3>1 DEF MarkInv
  <2>6. Reaches(c, 1)'
    BY <2>2 DEF Reaches, Bytes
  <2>7. ASSUME NEW i \in 1..n
        PROVE  \/ markPending /\ i <= mark /\ mark < n + 1
               \/ Follows(ring[i], n + 1 - i, c)' /\ Reaches(ring[i], n + 2 - i)'
    <3>1. i \in 1..Len(ring) /\ n + 1 - i \in Nat /\ (n + 1 - i) + 1 = n + 2 - i
      BY <2>2
    <3>2. (markPending /\ i <= mark) \/ Reaches(ring[i], n + 1 - i)
      BY <1>2, <2>2, <2>4, <3>1 DEF RingRuns
    <3>3. PICK a \in Bytes : a = ring[i] /\ a[1] \in 1..Len(kinds)
      BY <1>3, <3>1
    <3>4. Reaches(a, n + 1 - i) => Follows(a, n + 1 - i, c)' /\ Reaches(a, n + 2 - i)'
      BY <3>1, <3>3
    <3> QED BY <1>3, <2>2, <2>3, <3>2, <3>3, <3>4
  <2>8. RingRuns'
    <3>1. ASSUME NEW i \in 1..(n + 1), NEW j \in 1..(n + 1), i < j
          PROVE  Cut(i, j)' \/ Follows(ring[i], j - i, ring[j])'
      <4>1. i \in 1..n /\ ring'[i] = ring[i]
        BY <2>3, <3>1
      <4>2. CASE j \in 1..n
        <5>1. Cut(i, j) \/ Follows(ring[i], j - i, ring[j])
          BY <1>2, <2>2, <3>1, <4>1, <4>2 DEF RingRuns
        <5>2. PICK a, b : a = ring[i] /\ b = ring[j] /\ a[1] \in 1..Len(kinds)
          BY <1>3, <2>2, <4>1
        <5>3. ring'[j] = b
          BY <2>3, <4>2, <5>2
        <5> QED BY <1>4, <1>5, <4>1, <5>1, <5>2, <5>3
      <4>3. CASE j = n + 1
        <5>1. PICK a : a = ring[i]
          OBVIOUS
        <5> QED BY <1>1, <2>3, <2>7, <4>1, <4>3, <5>1 DEF Cut
      <4> QED BY <4>2, <4>3
    <3>2. ASSUME NEW i \in 1..(n + 1)
          PROVE  (markPending' /\ i <= mark') \/ Reaches(ring[i], Len(ring) + 1 - i)'
      <4>1. Len(ring') + 1 - i = n + 2 - i
        BY <2>3
      <4>2. CASE i \in 1..n
        <5>1. PICK a : a = ring[i]
          OBVIOUS
        <5> QED BY <1>1, <2>3, <2>7, <4>1, <4>2, <5>1
      <4>3. CASE i = n + 1
        <5>1. n + 2 - i = 1 /\ ring'[i] = c
          BY <2>3, <4>3
        <5> QED BY <2>6, <4>1, <5>1
      <4> QED BY <4>2, <4>3
    <3> QED BY <2>3, <3>1, <3>2 DEF RingRuns
  <2>9. TakenRuns'
    <3> SUFFICES ASSUME taken # << >> PROVE TakenRuns'
      BY <1>1 DEF TakenRuns
    <3>1. PICK a \in Bytes : a = taken[1] /\ taken'[1] = a /\ a[1] \in 1..Len(kinds)
      BY <1>1, <1>3
    <3>2. PICK m \in Nat : m = Len(taken) /\ Len(taken') = m
      BY <1>1, <1>3
    <3>3. markPending \/ (Follows(a, m + n, c)' /\ Reaches(a, m + (n + 1))')
      <4>1. markPending \/ Reaches(a, m + n)
        BY <1>2, <2>2, <2>4, <3>1, <3>2 DEF TakenRuns
      <4>2. m + n \in Nat /\ (m + n) + 1 = m + (n + 1)
        OBVIOUS
      <4> QED BY <3>1, <4>1, <4>2
    <3>4. ASSUME NEW j \in 1..(n + 1)
          PROVE  Cut(0, j)' \/ Follows(taken[1], Len(taken) + j - 1, ring[j])'
      <4>1. CASE j \in 1..n
        <5>1. Cut(0, j) \/ Follows(a, m + j - 1, ring[j])
          BY <1>2, <2>2, <3>1, <3>2, <4>1 DEF TakenRuns
        <5>2. PICK b : b = ring[j] /\ ring'[j] = b
          BY <2>3, <4>1
        <5> QED BY <1>4, <1>5, <3>1, <3>2, <5>1, <5>2
      <4>2. CASE j = n + 1
        <5>1. m + j - 1 = m + n /\ ring'[j] = c
          BY <2>3, <4>2
        <5>2. markPending => Cut(0, j)'
          BY <1>1, <1>3, <2>2, <4>2 DEF Cut
        <5> QED BY <3>1, <3>2, <3>3, <5>1, <5>2
      <4> QED BY <4>1, <4>2
    <3>5. markPending' \/ Reaches(taken[1], Len(taken) + Len(ring))'
      BY <1>1, <2>3, <3>1, <3>2, <3>3
    <3> QED BY <2>3, <3>4, <3>5 DEF TakenRuns
  <2> QED BY <2>5, <2>8, <2>9
<1> QED BY <1>6, <1>7

LEMMA PrinterRuns ==
  ASSUME StreamInv, CutInv, NEW k \in Kinds, PrinterByte \/ PrinterStart(k) PROVE CutInv'
<1>0. kinds \in Seq(Kinds) /\ off \in Nat /\ Len(kinds) \in Nat
  BY BytesSent
<1>1. CASE PrinterByte
  <2>1. PICK c : c = <<Len(kinds), off>>
    OBVIOUS
  <2>2. c \in Bytes /\ c[1] = Len(kinds) /\ c[2] = off
    BY <1>0, <2>1 DEF Bytes
  <2>3. Arrive(c) /\ kinds' = kinds /\ spoiled' = spoiled /\ off' = c[2] + 1
    BY <1>1, <2>1, <2>2 DEF PrinterByte
  <2>4. ASSUME NEW a \in Bytes, NEW m \in Nat, a[1] \in 1..Len(kinds), Reaches(a, m)
        PROVE  Follows(a, m, c)' /\ Reaches(a, m + 1)'
    <3>1. a[2] \in Nat /\ FrameLen(kinds[a[1]]) \in Nat /\ a = <<a[1], a[2]>>
      BY Lengths DEF Bytes
    <3>2. CASE a[1] \in spoiled
      BY <2>3, <3>2 DEF Follows, Reaches
    <3>3. CASE a[2] + m >= FrameLen(kinds[a[1]])
      BY <2>3, <3>1, <3>3 DEF Follows, Reaches, FrameLen
    <3>4. CASE a[1] = Len(kinds) /\ a[2] + m = off
      <4>1. c = <<a[1], a[2] + m>> /\ a[2] + (m + 1) = off'
        BY <2>1, <2>2, <2>3, <3>1, <3>4
      <4> QED BY <2>3, <3>4, <4>1 DEF Follows, Reaches
    <3> QED BY <2>4, <3>2, <3>3, <3>4 DEF Reaches
  <2> QED BY <2>2, <2>3, <2>4, ArriveRuns
<1>2. CASE PrinterStart(k)
  <2>1. PICK c : c = <<Len(kinds) + 1, 0>>
    OBVIOUS
  <2>2. /\ Arrive(c) /\ kinds' = Append(kinds, k) /\ spoiled' = spoiled /\ off' = 1
        /\ kinds # << >> => off = FrameLen(kinds[Len(kinds)])
    BY <1>2, <2>1 DEF PrinterStart
  <2>3. Len(kinds') = Len(kinds) + 1 /\ \A i \in 1..Len(kinds) : kinds'[i] = kinds[i]
    BY <1>0, <2>2, Appended
  <2>4. c \in Bytes /\ c[1] = Len(kinds') /\ off' = c[2] + 1
    BY <1>0, <2>1, <2>2, <2>3 DEF Bytes
  <2>5. ASSUME NEW a \in Bytes, NEW m \in Nat, a[1] \in 1..Len(kinds), Reaches(a, m)
        PROVE  Follows(a, m, c)' /\ Reaches(a, m + 1)'
    <3>1. a[2] \in Nat /\ FrameLen(kinds[a[1]]) \in Nat /\ kinds'[a[1]] = kinds[a[1]]
      BY <2>3, <2>5, Lengths DEF Bytes
    <3>2. CASE a[1] \in spoiled
      BY <2>2, <3>2 DEF Follows, Reaches
    <3>3. a[1] = Len(kinds) /\ a[2] + m = off => a[2] + m >= FrameLen(kinds[a[1]])
      <4>1. kinds # << >>
        BY <1>0, <2>5
      <4> QED BY <2>2, <3>1, <4>1
    <3>4. CASE a[2] + m >= FrameLen(kinds[a[1]])
      <4>1. a[2] + (m + 1) >= FrameLen(kinds[a[1]])
        BY <3>1, <3>4
      <4> QED BY <3>1, <3>4, <4>1 DEF Follows, Reaches, FrameLen
    <3> QED BY <2>5, <3>2, <3>3, <3>4 DEF Reaches
  <2> QED BY <2>2, <2>3, <2>4, <2>5, ArriveRuns
<1> QED BY <1>1, <1>2

LEMMA CutNext ==
  ASSUME PortInv, CutInv, HeadInv, [Next]_vars PROVE CutInv'
<1>0. StreamInv /\ left \in Nat /\ ring \in Seq(Bytes) /\ Len(ring) \in Nat
  BY BytesSent DEF PortInv, PollInv
<1>1. CASE PrinterByte \/ \E k \in Kinds : PrinterStart(k)
  <2>1. "packet" \in Kinds
    BY DEF Kinds
  <2> QED BY <1>0, <1>1, <2>1, PrinterRuns
<1> SUFFICES ASSUME ~rxFault', ~(PrinterByte \/ \E k \in Kinds : PrinterStart(k))
             PROVE  MarkInv' /\ RingRuns' /\ TakenRuns'
  BY <1>1 DEF CutInv
<1>2. CASE PollRestart
  <2>1. ring' = << >> /\ taken' = << >> /\ ~markPending' /\ mark' = 0 /\ markPending' = FALSE /\ pc' = "drain"
    BY <1>2 DEF PollRestart, ResetRx
  <2>2. Len(ring') = 0 /\ 1..Len(ring') = {}
    BY <2>1
  <2>3. MarkInv'
    BY <2>1, <2>2 DEF MarkInv
  <2> QED BY <2>1, <2>2, <2>3 DEF RingRuns, TakenRuns
<1>3. CASE Irq
  <2>1. TakesByte
    BY <1>3 DEF Irq, IrqSkip, IrqStart, IrqNoStart, IrqHeader, IrqPayload, IrqFrameEnd
  <2>2. taken' \in {<< >>, WithByte}
    <3>1. CASE IrqNoStart
      <4>1. taken' = taken /\ drop = 0 /\ index = 0
        BY <3>1 DEF IrqNoStart, parser
      <4> QED BY <4>1 DEF HeadInv, receiving
    <3> QED BY <1>3, <3>1 DEF Irq, IrqSkip, IrqStart, IrqHeader, IrqPayload, IrqFrameEnd
  <2> QED BY <2>1, <2>2, ByteRuns
<1>4. CASE FastBeat \/ FalseBeats
  BY <1>4, BeatRuns
<1> SUFFICES ASSUME MarkInv, RingRuns, TakenRuns, ~(PollRestart \/ Irq \/ FastBeat \/ FalseBeats)
             PROVE  MarkInv' /\ RingRuns' /\ TakenRuns'
  <2>1. ASSUME ~(PollRestart \/ Irq \/ FastBeat \/ FalseBeats) PROVE ~rxFault
    <3>1. CASE rx_reached \/ StallReset \/ Send \/ TxDone \/ LoseByte \/ UNCHANGED vars
      BY <3>1 DEF rx_reached, StallReset, Send, TxDone, LoseByte, vars, rx
    <3>2. CASE PollWaits \/ PollOverflow \/ PollSnapshot \/ DrainOverflow \/ TxAbort \/ RxDmaError
      BY <3>2 DEF PollWaits, PollOverflow, PollSnapshot, DrainOverflow, TxAbort, RxDmaError, rx
    <3>3. CASE MainPollEnd \/ BackgroundPollEnd \/ TakeNothing \/ SendNothing
               \/ \E reply, arrange \in BOOLEAN : TakePacket(reply, arrange)
      BY <3>3 DEF MainPollEnd, BackgroundPollEnd, PollEnd, TakeNothing, SendNothing, TakePacket, rx
    <3> QED BY <2>1, <3>1, <3>2, <3>3 DEF Next, Environment, MainLoop, Kinds, FalseBeats
  <2> QED BY <1>2, <1>3, <1>4, <2>1 DEF CutInv
<1>5. CASE rx_reached
  <2>1. /\ markPending /\ mark <= 0 /\ mark \in Nat /\ markPending' = FALSE /\ mark' = 0 /\ taken' = << >>
        /\ UNCHANGED <<line, ring, pc>> /\ idle' = idle
    <3>1. receiving \/ taken = << >>
      BY DEF HeadInv
    <3> QED BY <1>5, <3>1 DEF rx_reached, MarkReached, ResetRx, MarkInv, parser, tx
  <2>2. RingRuns' /\ TakenRuns'
    BY <1>0, <2>1, ReachedRuns
  <2>3. ~idle => ring = << >>
    <3>1. ~idle => Len(ring) = 0
      BY <2>1 DEF MarkInv
    <3> QED BY <1>0, <3>1
  <2> QED BY <2>1, <2>2, <2>3 DEF MarkInv
<1>6. CASE StallReset
  <2>1. /\ markPending' = FALSE /\ mark' = 0 /\ taken' = << >> /\ ring' = << >>
        /\ Len(ring') = 0 /\ 1..Len(ring') = {}
    BY <1>6 DEF StallReset, ResetRx
  <2>2. MarkInv'
    BY <2>1 DEF MarkInv
  <2> QED BY <2>1, <2>2 DEF RingRuns, TakenRuns
<1>7. CASE Send
  <2>1. /\ ~markPending /\ markPending' = TRUE /\ mark' = Len(ring) /\ pc' = "poll"
        /\ UNCHANGED <<kinds, off, spoiled, ring, taken>>
    BY <1>7 DEF Send, MarkInv, line, parser
  <2>2. /\ \A a, k, b : Follows(a, k, b) => Follows(a, k, b)'
        /\ \A i, j : ~Cut(i, j)
    BY <2>1, RunsKept DEF Cut
  <2>3. MarkInv'
    BY <1>0, <2>1 DEF MarkInv
  <2>4. \A i \in 1..Len(ring) : markPending' /\ i <= mark'
    BY <1>0, <2>1
  <2>5. RingRuns'
    <3>1. \A i, j \in 1..Len(ring') : i < j => Follows(ring[i], j - i, ring[j])'
      BY <2>1, <2>2 DEF RingRuns
    <3>2. \A i \in 1..Len(ring') : markPending' /\ i <= mark'
      BY <2>1, <2>4
    <3> QED BY <3>1, <3>2 DEF RingRuns
  <2>6. TakenRuns'
    BY <2>1, <2>2 DEF TakenRuns
  <2> QED BY <2>3, <2>5, <2>6
<1>8. CASE PollSnapshot
  <2>1. /\ UNCHANGED <<kinds, off, spoiled, ring, markPending, mark, taken, idle>>
        /\ left' = Len(ring) /\ pc' = "drain" /\ Len(ring) < RingSize
    BY <1>8 DEF PollSnapshot, line, rx, parser, tx
  <2>2. ~Overrun
    BY <1>0, <2>1, Lengths DEF Overrun
  <2>3. MarkInv'
    BY <2>1 DEF MarkInv
  <2> QED BY <2>1, <2>2, <2>3, RestRuns
<1>9. CASE MainPollEnd \/ BackgroundPollEnd
  <2>1. /\ UNCHANGED <<kinds, off, spoiled, ring, markPending, mark, taken, idle, rxFault>>
        /\ pc = "drain" /\ (rxFault \/ (left = 0 /\ ~MarkReached)) /\ left' = 0 /\ pc' \in {"take", "poll"}
    BY <1>9 DEF MainPollEnd, BackgroundPollEnd, PollEnd, DrainDone, line, rx, parser, tx
  <2>2. left = 0 /\ ~MarkReached
    BY <2>1
  <2>3. ~markPending
    BY <2>1, <2>2 DEF MarkReached, MarkInv
  <2>4. MarkInv'
    BY <2>1, <2>3 DEF MarkInv
  <2>5. ~Overrun
    BY <2>1 DEF Overrun
  <2> QED BY <2>1, <2>4, <2>5, RestRuns
<1>10. CASE TakeNothing \/ SendNothing \/ TxDone \/ LoseByte \/ UNCHANGED vars
            \/ \E reply, arrange \in BOOLEAN : TakePacket(reply, arrange)
  <2>1. /\ UNCHANGED <<kinds, ring, markPending, mark, taken, left>> /\ (idle' = idle \/ idle' = TRUE)
        /\ UNCHANGED <<off, spoiled>> \/ LoseByte
        /\ pc' = pc \/ (pc \in {"take", "send"} /\ pc' \in {"send", "poll"})
    <3>1. CASE TakeNothing \/ SendNothing
      BY <3>1 DEF TakeNothing, SendNothing, line, rx, poll, parser, tx
    <3>2. CASE TxDone \/ UNCHANGED vars
      BY <3>2 DEF TxDone, TxEnd, vars, line, rx, poll, parser, tx
    <3>3. CASE LoseByte
      BY <3>3 DEF LoseByte, rx, poll, parser, tx
    <3>4. CASE \E reply, arrange \in BOOLEAN : TakePacket(reply, arrange)
      BY <3>4 DEF TakePacket, line, rx, poll, parser
    <3> QED BY <1>10, <3>1, <3>2, <3>3, <3>4
  <2>2. Overrun => Overrun'
    BY <2>1 DEF Overrun
  <2>3. MarkInv'
    BY <2>1 DEF MarkInv
  <2> QED BY <2>1, <2>2, <2>3, RestRuns
<1>11. CASE PollWaits \/ PollOverflow \/ DrainOverflow \/ TxAbort \/ RxDmaError
  <2>1. rxFault' = TRUE \/ (rxFault' = rxFault /\ rxFault)
    BY <1>11 DEF PollWaits, PollOverflow, DrainOverflow, TxAbort, RxDmaError, rx
  <2> QED BY <2>1
<1> QED BY <1>5, <1>6, <1>7, <1>8, <1>9, <1>10, <1>11 DEF Next, Environment, MainLoop, Kinds, FalseBeats

\* The steps that change what the parser has taken, and those that leave it.
LEMMA HeadKept ==
  ASSUME StreamInv, HeadInv, UNCHANGED parser, spoiled \subseteq spoiled',
         \A f \in 1..Len(kinds) : kinds'[f] = kinds[f]
  PROVE  HeadInv'
<1>1. UNCHANGED <<index, length, drop, taken>>
  BY DEF parser
<1>2. taken # << >> => kinds'[taken[1][1]] = kinds[taken[1][1]]
  BY BytesSent
<1>3. Sound(taken)' => Sound(taken) /\ taken # << >>
  BY <1>1 DEF Sound
<1> QED BY <1>1, <1>2, <1>3 DEF HeadInv, receiving

LEMMA HeadEmpty == ASSUME taken = << >>, index = 0, drop = 0 PROVE HeadInv
  BY DEF HeadInv, receiving, Sound

LEMMA HeadIrq ==
  ASSUME PortInv, CutInv, HeadInv, Irq PROVE HeadInv'
<1>1. /\ TakesByte /\ UNCHANGED <<kinds, spoiled>>
      /\ ring # << >> /\ ring \in Seq(Bytes) /\ taken \in Seq(Bytes) /\ Len(taken) \in Nat
  <2>1. TakesByte
    BY DEF Irq, IrqSkip, IrqStart, IrqNoStart, IrqHeader, IrqPayload, IrqFrameEnd
  <2>2. left > 0 /\ pc = "drain"
    BY <2>1 DEF TakesByte, Draining
  <2> QED BY <2>1, <2>2, BytesSent DEF TakesByte, Consume, line, PortInv, PollInv
<1>2. /\ Head(ring) \in Bytes
      /\ WithByte \in Seq(Bytes) /\ Len(WithByte) = Len(taken) + 1 /\ WithByte # << >>
      /\ \A i \in 1..Len(taken) : WithByte[i] = taken[i]
      /\ WithByte[Len(taken) + 1] = Head(ring)
  BY <1>1, Appended DEF WithByte
<1>3. /\ index \in Nat /\ drop \in Nat /\ (taken # << >> <=> receiving) /\ (drop > 0 => index = 0)
      /\ (index = 1 => Len(taken) = 1)
  BY DEF HeadInv
\* The next byte of an undamaged frame.
<1>4. ASSUME Sound(taken), Len(taken) < FrameLen(kinds[taken[1][1]])
      PROVE  \A i \in 1..(Len(taken) + 1) : WithByte[i] = <<taken[1][1], i - 1>>
  <2>1. taken[1][2] = 0 /\ Head(ring) = <<taken[1][1], Len(taken)>>
    <3>1. taken[1][2] = 0
      BY <1>4 DEF Sound
    <3> QED BY <1>1, <1>4, <3>1, ByteFits
  <2>2. \A i \in 1..Len(taken) : taken[i] = <<taken[1][1], i - 1>>
    BY <1>4 DEF HeadInv
  <2>3. (Len(taken) + 1) - 1 = Len(taken)
    BY <1>1
  <2> QED BY <1>1, <1>2, <2>1, <2>2, <2>3
<1>5. CASE IrqNoStart
  BY <1>1, <1>5, HeadKept DEF IrqNoStart, PortInv
<1>6. CASE IrqFrameEnd \/ (IrqSkip /\ drop = 1)
  <2>1. taken' = << >> /\ index' = 0 /\ drop' = 0
    BY <1>3, <1>6 DEF IrqFrameEnd, IrqSkip
  <2> QED BY <2>1 DEF HeadInv, receiving, Sound
<1>7. CASE IrqStart
  <2>1. drop' = 0 /\ index' = 1 /\ taken' = WithByte /\ taken = << >> /\ Len(taken) = 0
    BY <1>3, <1>7 DEF IrqStart, receiving
  <2>2. Len(WithByte) = 1 /\ WithByte[1] = Head(ring)
    BY <1>2, <2>1
  <2>3. Sound(WithByte) => \A i \in 1..1 : WithByte[i] = <<WithByte[1][1], i - 1>>
    BY <1>2, <2>2 DEF Sound, Bytes
  <2>4. Sound(taken)' => Sound(WithByte)
    BY <1>1, <2>1 DEF Sound
  <2> QED BY <2>1, <2>2, <2>3, <2>4, <1>2 DEF HeadInv, receiving
<1>8. CASE IrqHeader
  <2>1. drop = 0 /\ index = 1 /\ Len(taken) = 1 /\ taken # << >>
    <3>1. drop = 0 /\ index = 1
      BY <1>8 DEF IrqHeader
    <3> QED BY <1>3, <3>1 DEF receiving
  <2>2. CASE taken' = << >>
    <3>1. index' = 0 /\ drop' = 0
      BY <1>2, <1>8, <2>1, <2>2 DEF IrqHeader
    <3> QED BY <2>2, <3>1 DEF HeadInv, receiving, Sound
  <2>3. CASE taken' = WithByte
    <3>1. Len(WithByte) = 2 /\ WithByte[1] = taken[1] /\ WithByte[2] = Head(ring)
      BY <1>2, <2>1
    <3>2. PICK f : f = taken[1][1]
      OBVIOUS
    <3>3. ASSUME Sound(WithByte)
          PROVE  /\ \A i \in 1..2 : WithByte[i] = <<f, i - 1>>
                 /\ RealHead(WithByte)
                 /\ IsHeartbeatHead(WithByte) <=> kinds[f] = "heartbeat"
      <4>1. Sound(taken) /\ Len(taken) < FrameLen(kinds[taken[1][1]])
        BY <2>1, <3>1, <3>3, Lengths DEF Sound
      <4>2. \A i \in 1..2 : WithByte[i] = <<f, i - 1>>
        BY <1>4, <2>1, <3>2, <4>1
      <4>3. WithByte[1] = <<f, 0>> /\ WithByte[2] = <<f, 1>>
        BY <4>2
      <4> QED BY <3>1, <4>2, <4>3 DEF RealHead, IsHeartbeatHead, HeadLen
    <3>4. /\ index' \in {0, 2} /\ drop' \in Nat /\ (index' = 0 => drop' > 0) /\ (index' # 0 => drop' = 0)
          /\ RealHead(WithByte) => IF IsHeartbeatHead(WithByte)
                                   THEN index' = 0 /\ drop' = HeartbeatLen - 2
                                   ELSE index' = 2 /\ length' = PacketLen
      <4>1. MaxLen \in Nat
        BY Lengths DEF MaxLen
      <4>2. CASE RealHead(WithByte)
        BY <1>2, <1>8, <2>1, <2>3, <4>2, Lengths DEF IrqHeader
      <4>3. CASE ~RealHead(WithByte)
        BY <1>2, <1>8, <2>1, <2>3, <4>1, <4>3, Lengths DEF IrqHeader, FalseLens
      <4> QED BY <4>2, <4>3
    <3>5. Sound(taken)' => Sound(WithByte)
      BY <1>1, <2>3 DEF Sound
    <3>6. Sound(taken)' =>
            LET g == taken'[1][1]  n == Len(taken')
            IN  /\ \A i \in 1..n : taken'[i] = <<g, i - 1>>
                /\ n = 1 => index' = 1
                /\ n > 1 => IF kinds'[g] = "heartbeat"
                            THEN index' = 0 /\ drop' = HeartbeatLen - n /\ n < HeartbeatLen
                            ELSE index' = n /\ length' = PacketLen /\ n < PacketLen
      BY <1>1, <2>3, <3>1, <3>2, <3>3, <3>4, <3>5, Lengths
    <3>7. taken' # << >> /\ Len(taken') = 2
      BY <1>2, <2>3, <3>1
    <3> QED BY <3>4, <3>6, <3>7 DEF HeadInv, receiving
  <2> QED BY <1>8, <2>2, <2>3 DEF IrqHeader
<1>9. CASE IrqPayload \/ (IrqSkip /\ drop # 1)
  <2>1. /\ taken' = WithByte /\ taken # << >> /\ Len(taken) >= 1
        /\ \/ index >= 2 /\ drop = 0 /\ index + 1 < length /\ index' = index + 1 /\ drop' = 0 /\ length' = length
           \/ index = 0 /\ drop > 1 /\ index' = 0 /\ drop' = drop - 1
    BY <1>1, <1>3, <1>9 DEF IrqPayload, IrqSkip, receiving, HeadLen
  <2>2. index' \in Nat /\ drop' \in Nat /\ (index' # 0 \/ drop' # 0) /\ (drop' > 0 => index' = 0) /\ index' # 1
    BY <1>3, <2>1
  <2>3. ASSUME Sound(WithByte)
        PROVE  /\ \A i \in 1..(Len(taken) + 1) : WithByte[i] = <<taken[1][1], i - 1>>
               /\ IF kinds[taken[1][1]] = "heartbeat"
                  THEN index' = 0 /\ drop' = HeartbeatLen - (Len(taken) + 1) /\ Len(taken) + 1 < HeartbeatLen
                  ELSE index' = Len(taken) + 1 /\ length' = PacketLen /\ Len(taken) + 1 < PacketLen
    <3>1. WithByte[1] = taken[1] /\ Sound(taken)
      BY <1>1, <1>2, <2>1, <2>3 DEF Sound
    <3>2. Len(taken) > 1 /\ (IF kinds[taken[1][1]] = "heartbeat"
                             THEN index = 0 /\ drop = HeartbeatLen - Len(taken) /\ Len(taken) < HeartbeatLen
                             ELSE index = Len(taken) /\ length = PacketLen /\ Len(taken) < PacketLen)
      <4>1. index # 1
        BY <2>1
      <4>2. Len(taken) = 1 => index = 1
        BY <3>1 DEF HeadInv
      <4>3. Len(taken) > 1
        <5>1. Len(taken) \in Nat /\ Len(taken) >= 1
          BY <1>1, <2>1
        <5>2. Len(taken) # 1
          BY <4>1, <4>2
        <5> QED BY <5>1, <5>2, MoreThanOne, Zenon
      <4> QED BY <3>1, <4>3 DEF HeadInv
    <3>3. Len(taken) < FrameLen(kinds[taken[1][1]])
      BY <3>2 DEF FrameLen
    <3>4. \A i \in 1..(Len(taken) + 1) : WithByte[i] = <<taken[1][1], i - 1>>
      BY <1>4, <3>1, <3>3
    <3>5. IF kinds[taken[1][1]] = "heartbeat"
          THEN index' = 0 /\ drop' = HeartbeatLen - (Len(taken) + 1) /\ Len(taken) + 1 < HeartbeatLen
          ELSE index' = Len(taken) + 1 /\ length' = PacketLen /\ Len(taken) + 1 < PacketLen
      BY <1>1, <2>1, <3>2, Lengths
    <3> QED BY <3>4, <3>5
  <2>4. WithByte[1] = taken[1]
    BY <1>1, <1>2, <2>1
  <2>5. Sound(taken)' => Sound(WithByte)
    BY <1>1, <2>1 DEF Sound
  <2>6. Sound(taken)' =>
          LET g == taken'[1][1]  n == Len(taken')
          IN  /\ \A i \in 1..n : taken'[i] = <<g, i - 1>>
              /\ n = 1 => index' = 1
              /\ n > 1 => IF kinds'[g] = "heartbeat"
                          THEN index' = 0 /\ drop' = HeartbeatLen - n /\ n < HeartbeatLen
                          ELSE index' = n /\ length' = PacketLen /\ n < PacketLen
    <3>1. Len(taken') = Len(taken) + 1 /\ Len(taken') # 1
      BY <1>1, <1>2, <2>1
    <3> QED BY <1>1, <2>1, <2>3, <2>4, <2>5, <3>1
  <2>7. taken' # << >>
    BY <1>2, <2>1
  <2> QED BY <2>2, <2>6, <2>7 DEF HeadInv, receiving
<1> QED BY <1>5, <1>6, <1>7, <1>8, <1>9 DEF Irq

LEMMA HeadNext ==
  ASSUME PortInv, CutInv, HeadInv, [Next]_vars PROVE HeadInv'
<1>0. StreamInv /\ Len(kinds) \in Nat /\ kinds \in Seq(Kinds)
  BY BytesSent DEF PortInv
<1>1. CASE Irq
  BY <1>1, HeadIrq
<1>2. CASE PollRestart \/ StallReset
  <2>1. taken' = << >> /\ index' = 0 /\ drop' = 0
    BY <1>2 DEF PollRestart, StallReset, ResetRx
  <2> QED BY <2>1 DEF HeadInv, receiving, Sound
<1>3. CASE rx_reached
  <2>1. CASE receiving
    <3>1. taken' = << >> /\ index' = 0 /\ drop' = 0
      BY <1>3, <2>1 DEF rx_reached, ResetRx
    <3> QED BY <3>1 DEF HeadInv, receiving, Sound
  <2>2. CASE ~receiving
    <3>1. UNCHANGED <<parser, kinds, spoiled>>
      BY <1>3, <2>2 DEF rx_reached, line
    <3> QED BY <1>0, <3>1, HeadKept
  <2> QED BY <2>1, <2>2
<1>4. CASE \E k \in Kinds : PrinterStart(k)
  <2>1. PICK k \in Kinds : PrinterStart(k)
    BY <1>4
  <2>2. UNCHANGED <<parser, spoiled>> /\ kinds' = Append(kinds, k)
    BY <2>1 DEF PrinterStart, Arrive
  <2>3. \A f \in 1..Len(kinds) : kinds'[f] = kinds[f]
    BY <1>0, <2>2, Appended
  <2> QED BY <1>0, <2>2, <2>3, HeadKept
<1>5. CASE ~(Irq \/ PollRestart \/ StallReset \/ rx_reached \/ \E k \in Kinds : PrinterStart(k))
  <2>1. UNCHANGED <<parser, kinds>> /\ spoiled \subseteq spoiled'
    <3>1. CASE PrinterByte \/ LoseByte
      BY <3>1 DEF PrinterByte, LoseByte, Arrive
    <3>2. CASE TxDone \/ TxAbort \/ RxDmaError \/ PollWaits \/ PollOverflow \/ PollSnapshot \/ DrainOverflow
      BY <3>2 DEF TxDone, TxAbort, RxDmaError, PollWaits, PollOverflow, PollSnapshot, DrainOverflow, line
    <3>3. CASE MainPollEnd \/ BackgroundPollEnd \/ TakeNothing \/ SendNothing \/ Send \/ UNCHANGED vars
      BY <3>3 DEF MainPollEnd, BackgroundPollEnd, PollEnd, TakeNothing, SendNothing, Send, vars, line
    <3>4. CASE FastBeat \/ FalseBeats \/ \E reply, arrange \in BOOLEAN : TakePacket(reply, arrange)
      BY <3>4 DEF FastBeat, FalseBeats, FalseBeat, Consume, TakePacket, line
    <3> QED BY <1>5, <3>1, <3>2, <3>3, <3>4 DEF Next, Environment, MainLoop, Kinds, FalseBeats
  <2> QED BY <1>0, <2>1, HeadKept
<1> QED BY <1>1, <1>2, <1>3, <1>4, <1>5

LEMMA WholeAlways == Spec => []WholeInv
<1>1. Init => WholeInv
  <2> SUFFICES ASSUME Init PROVE WholeInv
    OBVIOUS
  <2>1. ring = << >> /\ taken = << >> /\ Len(ring) = 0 /\ index = 0 /\ drop = 0
    BY DEF Init
  <2>2. MarkInv
    BY DEF Init, MarkInv
  <2>3. RingRuns /\ TakenRuns
    <3>1. 1..Len(ring) = {}
      BY <2>1
    <3> QED BY <2>1, <3>1 DEF RingRuns, TakenRuns
  <2> QED BY <2>1, <2>2, <2>3, PortInit, HeadEmpty DEF WholeInv, CutInv
<1>2. WholeInv /\ [Next]_vars => WholeInv'
  BY StreamNext, PollNext, CutNext, HeadNext DEF WholeInv, PortInv
<1> QED BY <1>1, <1>2, PTL DEF Spec

\* As long as it is open, the parser's bytes of an undamaged frame are its first ones.
LEMMA HeadIsWhole == StreamInv /\ HeadInv => ParsingIsWhole
<1> SUFFICES ASSUME StreamInv, HeadInv, Sound(taken)
             PROVE  taken = SubSeq(Whole(taken[1][1]), 1, Len(taken))
  BY DEF ParsingIsWhole
<1>1. PICK f : f = taken[1][1]
  OBVIOUS
<1>2. PICK n \in Nat : n = Len(taken)
  BY BytesSent
<1>3. taken \in Seq(Bytes) /\ n >= 1 /\ f \in Nat
  BY <1>1, <1>2, BytesSent DEF Sound
<1>4. n <= FrameLen(kinds[f]) /\ FrameLen(kinds[f]) \in Nat /\ \A i \in 1..n : taken[i] = <<f, i - 1>>
  <2>1. \A i \in 1..n : taken[i] = <<f, i - 1>>
    BY <1>1, <1>2 DEF HeadInv
  <2>2. n > 1 => n <= FrameLen(kinds[f])
    BY <1>1, <1>2, Lengths DEF HeadInv, FrameLen
  <2> QED BY <1>3, <2>1, <2>2, Lengths
<1>5. PICK m \in Nat : m = FrameLen(kinds[f]) /\ n <= m
  BY <1>2, <1>4
<1>6. Whole(f) = [i \in 1..m |-> <<f, i - 1>>] /\ Whole(f) \in Seq(Bytes) /\ Len(Whole(f)) = m
  <2>1. Whole(f) = [i \in 1..m |-> <<f, i - 1>>]
    BY <1>5 DEF Whole
  <2>2. [i \in 1..m |-> <<f, i - 1>>] \in [1..m -> Bytes]
    BY <1>3 DEF Bytes
  <2>3. [i \in 1..m |-> <<f, i - 1>>] \in Seq(Bytes) /\ Len([i \in 1..m |-> <<f, i - 1>>]) = m
    BY <2>2
  <2> QED BY <2>1, <2>3
<1>7. PICK w : w = Whole(f) /\ w \in Seq(Bytes) /\ Len(w) = m /\ \A i \in 1..m : w[i] = <<f, i - 1>>
  BY <1>6
<1>8. SubSeq(w, 1, n) \in Seq(Bytes) /\ Len(SubSeq(w, 1, n)) = n /\ \A i \in 1..n : SubSeq(w, 1, n)[i] = w[i]
  <2>1. n \in 0..Len(w)
    BY <1>5, <1>7
  <2> QED BY <1>7, <2>1, FirstOnes
<1>9. \A i \in 1..n : SubSeq(w, 1, n)[i] = taken[i]
  <2>1. \A i \in 1..n : i \in 1..m
    BY <1>5
  <2> QED BY <1>4, <1>7, <1>8, <2>1, Zenon
<1>10. SubSeq(w, 1, n) = taken
  BY <1>2, <1>3, <1>8, <1>9
<1> QED BY <1>1, <1>2, <1>7, <1>10

\* Bytes that are a frame's, one by one, are the frame.
LEMMA IsTheWhole ==
  ASSUME NEW s \in Seq(Bytes), s # << >>, Len(s) = FrameLen(kinds[s[1][1]]),
         \A i \in 1..Len(s) : s[i] = <<s[1][1], i - 1>>
  PROVE  s = Whole(s[1][1])
<1>1. s = [i \in 1..Len(s) |-> s[i]]
  OBVIOUS
<1> QED BY <1>1 DEF Whole

(* Of frames: neither the parser nor the heartbeats' fast path (_parse(),  *)
(* bus_rx_poll()) takes bytes of two frames for one.  What has been taken  *)
(* of a frame that lost nothing, on the line or to a false heartbeat, is   *)
(* its beginning; a heartbeat of the printer's that is counted was         *)
(* received to its last byte; and no false one begins where an undamaged   *)
(* frame does, whenever we transmitted, overran or restarted the receiver. *)
THEOREM FramesWholeAlways == Spec => FramesAreWhole
<1>1. WholeInv => ParsingIsWhole
  BY HeadIsWhole DEF WholeInv, PortInv
<1>2. ASSUME WholeInv, FastBeat PROVE CountsWhole(SubSeq(ring, 1, HeartbeatLen))
  <2>1. /\ pc = "drain" /\ MarkInv /\ RingRuns /\ ~(markPending /\ mark <= 0) /\ HeartbeatLen <= left
        /\ ~MarkInside(HeartbeatLen) /\ ring[1][2] = 0 /\ kinds[ring[1][1]] = "heartbeat"
    BY <1>2 DEF WholeInv, CutInv, FastBeat, FastBeatNow, Draining, MarkReached, IsHeartbeatHead, RealHead
  <2>2. PICK n \in Nat : n = HeartbeatLen /\ n > 2
    BY Lengths
  <2>3. ring \in Seq(Bytes) /\ Len(ring) \in Nat /\ n <= Len(ring) /\ mark \in Nat
    BY <1>2, <2>1, <2>2, BytesSent DEF WholeInv, PortInv, PollInv, MarkInv
  <2>4. PICK s : s = SubSeq(ring, 1, n) /\ s \in Seq(Bytes) /\ Len(s) = n /\ \A i \in 1..n : s[i] = ring[i]
    <3>1. n \in 0..Len(ring)
      BY <2>3
    <3> QED BY <2>3, <3>1, FirstOnes
  <2>5. ASSUME Sound(s) PROVE s = Whole(s[1][1])
    <3>1. PICK f : f = s[1][1]
      OBVIOUS
    <3>2. ring[1][1] = f /\ f \notin spoiled /\ FrameLen(kinds[f]) = n /\ ring[1] = <<f, 0>> /\ ring[1] \in Bytes
      <4>1. s[1] = ring[1] /\ ring[1] \in Bytes
        BY <2>2, <2>3, <2>4
      <4> QED BY <2>1, <2>2, <2>5, <3>1, <4>1 DEF Sound, FrameLen, Bytes
    <3>3. ASSUME NEW j \in 1..n PROVE s[j] = <<f, j - 1>>
      <4>1. CASE j = 1
        BY <2>4, <3>2, <4>1
      <4>2. CASE j > 1
        <5>1. ~Cut(1, j)
          BY <2>1, <2>2, <2>3, <4>2 DEF Cut, MarkInside
        <5>2. Cut(1, j) \/ Follows(ring[1], j - 1, ring[j])
          BY <2>1, <2>2, <2>3, <4>2 DEF RingRuns
        <5>3. 0 + (j - 1) = j - 1 /\ j - 1 < n
          OBVIOUS
        <5> QED BY <2>4, <3>2, <5>1, <5>2, <5>3 DEF Follows
      <4> QED BY <4>1, <4>2
    <3>4. s \in Seq(Bytes) /\ Len(s) = n
      BY <2>4
    <3>5. Len(s) = FrameLen(kinds[s[1][1]]) /\ \A i \in 1..Len(s) : s[i] = <<s[1][1], i - 1>>
      BY <3>1, <3>2, <3>3, <3>4, Zenon
    <3>6. s # << >>
      BY <2>2, <3>4
    <3> QED BY <3>4, <3>5, <3>6, IsTheWhole
  <2> QED BY <2>2, <2>4, <2>5 DEF CountsWhole
<1>3. ASSUME WholeInv, NEW n \in FalseLens, FalseBeat(n), Sound(SubSeq(ring, 1, n)) PROVE FALSE
  <2>1. /\ pc = "drain" /\ MarkInv /\ RingRuns /\ ~(markPending /\ mark <= 0) /\ n <= left
        /\ ~MarkInside(n) /\ ~RealHead(ring)
    <3>1. n \in Nat /\ left \in Nat
      BY <1>3, Lengths DEF FalseLens, MaxLen, WholeInv, PortInv, PollInv
    <3> QED BY <1>3, <3>1 DEF WholeInv, CutInv, FalseBeat, Draining, MarkReached
  <2>2. n \in Nat /\ n > 2
    BY Lengths DEF FalseLens, MaxLen
  <2>3. ring \in Seq(Bytes) /\ Len(ring) \in Nat /\ n <= Len(ring) /\ mark \in Nat
    BY <1>3, <2>1, <2>2, BytesSent DEF WholeInv, PortInv, PollInv, MarkInv
  <2>4. ring[1][2] = 0 /\ ring[1][1] \notin spoiled
    <3>1. n \in 0..Len(ring) /\ 1 \in 1..n
      BY <2>2, <2>3
    <3>2. SubSeq(ring, 1, n)[1] = ring[1]
      BY <2>3, <3>1, FirstOnes
    <3> QED BY <1>3, <3>2 DEF Sound
  <2>5. ~Cut(1, 2)
    BY <2>1, <2>2, <2>3 DEF Cut, MarkInside
  <2>6. Follows(ring[1], 1, ring[2])
    <3>1. 1 \in 1..Len(ring) /\ 2 \in 1..Len(ring) /\ 1 < 2 /\ 2 - 1 = 1
      BY <2>2, <2>3
    <3>2. Cut(1, 2) \/ Follows(ring[1], 2 - 1, ring[2])
      BY <2>1, <3>1 DEF RingRuns
    <3> QED BY <2>5, <3>1, <3>2
  <2>7. ring[2] = <<ring[1][1], 1>>
    BY <2>4, <2>6, Lengths DEF Follows
  <2> QED BY <2>1, <2>2, <2>3, <2>4, <2>7 DEF RealHead, HeadLen
<1>4. ASSUME WholeInv, IrqSkip, drop = 1 PROVE CountsWhole(WithByte)
  <2>1. /\ TakesByte /\ index = 0 /\ HeadInv /\ PortInv /\ CutInv
        /\ taken \in Seq(Bytes) /\ Len(taken) \in Nat /\ taken # << >>
        /\ ring \in Seq(Bytes)
    <3>1. drop > 0
      BY <1>4
    <3>2. index = 0 /\ taken # << >>
      BY <1>4, <3>1 DEF WholeInv, HeadInv, receiving
    <3> QED BY <1>4, <3>2, BytesSent DEF IrqSkip, WholeInv, PortInv
  <2>2. left > 0 /\ ring # << >> /\ Head(ring) \in Bytes
    <3>1. left > 0 /\ pc = "drain"
      BY <2>1 DEF TakesByte, Draining
    <3>2. left <= Len(ring) /\ left \in Nat
      BY <2>1, <3>1 DEF PortInv, PollInv
    <3>3. ring # << >>
      BY <3>1, <3>2
    <3> QED BY <2>1, <3>1, <3>3
  <2>3. /\ WithByte \in Seq(Bytes) /\ Len(WithByte) = Len(taken) + 1 /\ WithByte # << >>
        /\ \A i \in 1..Len(taken) : WithByte[i] = taken[i]
        /\ WithByte[Len(taken) + 1] = Head(ring)
    BY <2>1, <2>2, Appended DEF WithByte
  <2>4. PICK s : s = WithByte
    OBVIOUS
  <2>5. ASSUME Sound(s) PROVE s = Whole(s[1][1])
    <3>1. s[1] = taken[1] /\ Sound(taken)
      BY <2>1, <2>3, <2>4, <2>5 DEF Sound
    <3>2. Len(taken) + 1 = HeartbeatLen /\ kinds[taken[1][1]] = "heartbeat"
      <4>1. Len(taken) >= 1 /\ (Len(taken) = 1 => index = 1)
        BY <2>1, <3>1 DEF HeadInv
      <4>2. Len(taken) > 1
        <5>1. Len(taken) # 1
          <6>1. index # 1
            BY <2>1
          <6> QED BY <4>1, <6>1
        <5> QED BY <2>1, <4>1, <5>1, MoreThanOne, Zenon
      <4> QED BY <1>4, <2>1, <3>1, <4>2, Lengths DEF HeadInv
    <3>3. Len(s) = FrameLen(kinds[s[1][1]]) /\ Len(taken) < FrameLen(kinds[taken[1][1]])
      BY <2>1, <2>3, <2>4, <3>1, <3>2 DEF FrameLen
    <3>4. taken[1][2] = 0
      BY <3>1 DEF Sound
    <3>5. Head(ring) = <<taken[1][1], Len(taken)>>
      BY <2>1, <3>1, <3>3, <3>4, ByteFits
    <3>6. \A i \in 1..Len(taken) : taken[i] = <<taken[1][1], i - 1>>
      BY <3>1, <2>1 DEF HeadInv
    <3>7. \A i \in 1..Len(s) : s[i] = <<s[1][1], i - 1>>
      BY <2>1, <2>3, <2>4, <3>1, <3>5, <3>6
    <3> QED BY <2>3, <2>4, <3>3, <3>7, IsTheWhole
  <2> QED BY <2>4, <2>5 DEF CountsWhole
<1>5. WholeInv /\ WholeInv' /\ [Next]_vars => [ParsingIsWhole' /\ BeatsAreWhole]_vars
  <2>1. WholeInv' => ParsingIsWhole'
    BY <1>1, PTL
  <2> QED BY <1>2, <1>3, <1>4, <2>1 DEF BeatsAreWhole
<1> QED BY WholeAlways, <1>5, PTL DEF Spec, FramesAreWhole
====
