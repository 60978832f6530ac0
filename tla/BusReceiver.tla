---------------------------- MODULE BusReceiver ----------------------------
(***************************************************************************)
(* The half-duplex bus port: the bytes DMA writes to the receive ring, the *)
(* parser bus_rx_poll() feeds from it in the main loop, the three receive  *)
(* buffers, the two transmit buffers, and the interrupts that end a        *)
(* transmission or report a fault at any moment.                           *)
(*                                                                         *)
(* A byte is <<frame, offset>>.  Offset 0 is the start byte, offset 1      *)
(* stands for the rest of the header (kind, length, CRC8); the others are  *)
(* payload.  The ring is the sequence of its unread bytes, and the mark of *)
(* our transmission the number of unread bytes before it.                  *)
(***************************************************************************)
EXTENDS Integers, Sequences, FiniteSets, TLC

CONSTANTS MaxFrames,    \* bound: frames the printer sends
          MaxSpoiled,   \* bound: frames that lose bytes, on the line or to a false heartbeat
          MaxFaults,    \* bound: DMA errors and aborted transmissions
          HeartbeatLen, PacketLen,
          RingSize,     \* RX_SIZE
          AmsAuto       \* BMCU_AMS_AUTO

HeadLen == 2
RxBufs == 0..2
TxBufs == 0..1
QueueDepth == 2

ASSUME BusAssumption ==
  /\ MaxFrames \in Nat /\ MaxSpoiled \in Nat /\ MaxFaults \in Nat
  /\ HeartbeatLen \in Nat /\ HeartbeatLen > HeadLen
  /\ PacketLen \in Nat /\ PacketLen > HeadLen
  /\ RingSize \in Nat \ {0}
  /\ AmsAuto \in BOOLEAN

VARIABLES
  kinds,      \* the frames the printer has begun, by their kind
  off,        \* how many bytes of the last one have gone down the line
  spoiled,    \* ghost: the frames that lost a byte, on the line or to a false heartbeat
  faults,     \* how many faults have happened
  ring, rxFault,
  markPending, mark,                       \* rx_tx_mark_pending, rx_tx_mark
  pc,         \* where the main loop is
  left,       \* produced - rx_consumed of the poll being run
  saw,        \* this poll found new bytes (rx_last_progress = now)
  index, length, drop,                     \* _index, length, heartbeat_drop_bytes
  taken,      \* ghost: the bytes the open frame or heartbeat has taken
  bufs, rxRead, rxWrite, rxCount, recvPtr,
  idle, sendPending,                       \* idle, send_data_len # 0
  txSel, txBuf, txData,                    \* tx_build_sel, the buffer DMA reads, the frame each answers
  answered    \* ghost: the frame the last transmission answered

line   == <<kinds, off, spoiled, faults>>
rx     == <<ring, rxFault, markPending, mark>>
poll   == <<left, saw>>
parser == <<index, length, drop, taken>>
queue  == <<bufs, rxRead, rxWrite, rxCount, recvPtr>>
tx     == <<idle, sendPending, txSel, txBuf, txData, answered>>
vars   == <<line, rx, pc, poll, parser, queue, tx>>

Frames == 1..MaxFrames
NoFrame == 0
FrameLen(k) == IF k = "heartbeat" THEN HeartbeatLen ELSE PacketLen
MaxLen == IF HeartbeatLen > PacketLen THEN HeartbeatLen ELSE PacketLen

Whole(f) == [i \in 1..FrameLen(kinds[f]) |-> <<f, i - 1>>]

(* The bytes begin with the header of a frame as the printer sent it. *)
RealHead(s) == Len(s) >= HeadLen /\ s[1][2] = 0 /\ s[2] = <<s[1][1], 1>>

IsHeartbeatHead(s) == RealHead(s) /\ kinds[s[1][1]] = "heartbeat"

receiving == index # 0 \/ drop # 0


----------------------------------------------------------------------------
(* Line and interrupts. *)

Init ==
  /\ kinds = << >> /\ off = 0 /\ spoiled = {} /\ faults = 0
  /\ ring = << >> /\ rxFault = FALSE /\ markPending = FALSE /\ mark = 0
  /\ pc = "poll" /\ left = 0 /\ saw = FALSE
  /\ index = 0 /\ length = 0 /\ drop = 0 /\ taken = << >>
  /\ bufs = [b \in RxBufs |-> << >>]
  /\ rxRead = 0 /\ rxWrite = 0 /\ rxCount = 0 /\ recvPtr = 0
  /\ idle = TRUE /\ sendPending = FALSE
  /\ txSel = 0 /\ txBuf = 0 /\ txData = [b \in TxBufs |-> NoFrame] /\ answered = NoFrame

(* A byte reaches us: DMA stores it unless reception is off, because we    *)
(* transmit, or its result is thrown away with the ring at the restart.    *)
(* The drain outruns the line, so it never sees the ring more than full.   *)
Arrive(byte) ==
  /\ pc = "drain" => Len(ring) < RingSize
  /\ ring' = IF idle /\ ~rxFault /\ Len(ring) < RingSize THEN Append(ring, byte) ELSE ring
  /\ UNCHANGED <<faults, rxFault, markPending, mark, pc, poll, parser, queue, tx>>

PrinterByte ==
  /\ kinds # << >> /\ off < FrameLen(kinds[Len(kinds)])
  /\ Arrive(<<Len(kinds), off>>)
  /\ off' = off + 1
  /\ UNCHANGED <<kinds, spoiled>>

PrinterStart(k) ==
  /\ Len(kinds) < MaxFrames
  /\ kinds # << >> => off = FrameLen(kinds[Len(kinds)])
  /\ Arrive(<<Len(kinds) + 1, 0>>)
  /\ kinds' = Append(kinds, k)
  /\ off' = 1
  /\ UNCHANGED spoiled

(* A byte is lost on the line (or its stop bit is, which is the same). *)
LoseByte ==
  /\ kinds # << >> /\ off < FrameLen(kinds[Len(kinds)])
  /\ spoiled' = spoiled \cup {Len(kinds)}
  /\ Cardinality(spoiled') <= MaxSpoiled
  /\ off' = off + 1
  /\ UNCHANGED <<kinds, faults, rx, pc, poll, parser, queue, tx>>

TxEnd ==
  /\ ~idle
  /\ idle' = TRUE
  /\ txBuf' = 0
  /\ txData' = [txData EXCEPT ![txBuf] = NoFrame]
  /\ UNCHANGED <<sendPending, txSel, answered>>

TxDone ==
  /\ TxEnd
  /\ UNCHANGED <<line, rx, pc, poll, parser, queue>>

(* A transfer error, or no end within tx_deadline. *)
TxAbort ==
  /\ TxEnd
  /\ faults < MaxFaults
  /\ rxFault' = TRUE
  /\ faults' = faults + 1
  /\ UNCHANGED <<kinds, off, spoiled, ring, markPending, mark, pc, poll, parser, queue>>

RxDmaError ==
  /\ ~rxFault /\ faults < MaxFaults
  /\ rxFault' = TRUE
  /\ faults' = faults + 1
  /\ UNCHANGED <<kinds, off, spoiled, ring, markPending, mark, pc, poll, parser, queue, tx>>

----------------------------------------------------------------------------
(* bus_rx_poll().  What nobody reads again (the buffer and the length of a *)
(* frame given up, a released packet, an answer sent) is kept empty here.  *)

EmptyBuf == bufs' = [bufs EXCEPT ![rxWrite] = << >>]

ResetRx ==
  /\ markPending' = FALSE /\ mark' = 0
  /\ index' = 0 /\ length' = 0 /\ drop' = 0 /\ taken' = << >>
  /\ EmptyBuf

(* The restart of the receiver waits for the end of our transmission. *)
PollWaits ==
  /\ pc = "poll" /\ rxFault /\ ~idle
  /\ pc' = "take"
  /\ UNCHANGED <<line, rx, poll, parser, queue, tx>>

PollRestart ==
  /\ pc = "poll" /\ rxFault /\ idle
  /\ ring' = << >> /\ rxFault' = FALSE
  /\ ResetRx
  /\ left' = 0 /\ saw' = TRUE
  /\ pc' = "drain"
  /\ UNCHANGED <<line, rxRead, rxWrite, rxCount, recvPtr, tx>>

PollOverflow ==
  /\ pc = "poll" /\ ~rxFault /\ Len(ring) >= RingSize
  /\ rxFault' = TRUE
  /\ pc' = "take"
  /\ UNCHANGED <<line, ring, markPending, mark, poll, parser, queue, tx>>

PollSnapshot ==
  /\ pc = "poll" /\ ~rxFault /\ Len(ring) < RingSize
  /\ left' = Len(ring) /\ saw' = (ring # << >>)
  /\ pc' = "drain"
  /\ UNCHANGED <<line, rx, parser, queue, tx>>

Draining == pc = "drain" /\ ~rxFault

(* Mutant: one byte late. *)
MarkReachedLate == markPending /\ mark < 0

MarkReached == markPending /\ mark <= 0

MarkInside(n) == markPending /\ mark \in 1..(n - 1)

(* rx_reached(): what our transmission cut takes no byte after it. *)
rx_reached ==
  /\ Draining /\ MarkReached
  /\ IF receiving THEN ResetRx
     ELSE markPending' = FALSE /\ mark' = 0 /\ UNCHANGED <<parser, bufs>>
  /\ UNCHANGED <<line, ring, rxFault, pc, poll, rxRead, rxWrite, rxCount, recvPtr, tx>>

Consume(n) ==
  /\ ring' = SubSeq(ring, n + 1, Len(ring))
  /\ left' = left - n
  /\ mark' = IF markPending THEN mark - n ELSE mark
  /\ UNCHANGED <<kinds, off, faults, rxFault, markPending, pc, saw, tx>>

(* A heartbeat as it was sent is at the front: its bytes pass the fast     *)
(* path's test for certain.  Other bytes may (FalseBeat).                  *)
FastBeatNow == /\ left >= HeartbeatLen
               /\ IsHeartbeatHead(ring)
               /\ ~MarkInside(HeartbeatLen)

(* The heartbeat fast path: the whole of it is in the ring, and skipped. *)
FastBeat ==
  /\ Draining /\ ~MarkReached /\ FastBeatNow
  /\ Consume(HeartbeatLen)
  /\ UNCHANGED <<spoiled, parser, queue>>

(* The lengths that bytes which only look like a header may state. *)
FalseLens == (HeadLen + 1)..MaxLen

(* The fast path looks at four bytes, and neither at receiving() nor at    *)
(* the CRC8: other bytes than a frame's header, those of an open frame's   *)
(* payload too, may look like a heartbeat's.  They are skipped while the   *)
(* frame stays open, and the frames they belong to have lost them.         *)
FalseBeat(n) ==
  /\ Draining /\ ~MarkReached /\ ~RealHead(ring)
  /\ left >= n /\ ~MarkInside(n)
  /\ Consume(n)
  /\ spoiled' = spoiled \cup {ring[i][1] : i \in 1..n}
  /\ Cardinality(spoiled') <= MaxSpoiled
  /\ UNCHANGED <<parser, queue>>

(* The ring filled up while it was drained. *)
DrainOverflow ==
  /\ Draining /\ left > 0 /\ ~MarkReached /\ ~FastBeatNow
  /\ Len(ring) >= RingSize
  /\ rxFault' = TRUE
  /\ UNCHANGED <<line, ring, markPending, mark, pc, poll, parser, queue, tx>>

----------------------------------------------------------------------------
(* irq(): the parser takes the next byte. *)

TakesByte ==
  /\ Draining /\ left > 0 /\ ~MarkReached /\ ~FastBeatNow
  /\ Consume(1)
  /\ UNCHANGED spoiled

WithByte == Append(taken, Head(ring))

KeepByte == bufs' = [bufs EXCEPT ![rxWrite] = WithByte]

IrqSkip ==
  /\ drop > 0
  /\ TakesByte
  /\ drop' = drop - 1
  /\ taken' = IF drop = 1 THEN << >> ELSE WithByte
  /\ UNCHANGED <<index, length, queue>>

IrqStart ==
  /\ drop = 0 /\ index = 0
  /\ TakesByte
  /\ index' = 1 /\ taken' = WithByte
  /\ KeepByte
  /\ UNCHANGED <<length, drop, rxRead, rxWrite, rxCount, recvPtr>>

(* A byte that is no start byte is passed over; a payload byte may be one. *)
IrqNoStart ==
  /\ drop = 0 /\ index = 0
  /\ TakesByte
  /\ Head(ring)[2] # 0
  /\ UNCHANGED <<parser, queue>>

(* What the header says: an impossible length or a wrong CRC8, a heartbeat *)
(* to be skipped, or a packet.  Bytes that only look like a header may say *)
(* any of these.                                                           *)
IrqHeader ==
  /\ drop = 0 /\ index = 1
  /\ TakesByte
  /\ LET real  == RealHead(WithByte)
         beats == IsHeartbeatHead(WithByte)
     IN \/ /\ ~real
           /\ index' = 0 /\ taken' = << >>
           /\ EmptyBuf
           /\ UNCHANGED <<length, drop>>
        \/ \E n \in IF real THEN {HeartbeatLen} ELSE FalseLens :
             /\ real => beats
             /\ index' = 0 /\ drop' = n - HeadLen /\ taken' = WithByte
             /\ EmptyBuf
             /\ UNCHANGED length
        \/ \E n \in IF real THEN {PacketLen} ELSE FalseLens :
             /\ ~beats
             /\ index' = HeadLen /\ length' = n /\ taken' = WithByte
             /\ KeepByte
             /\ UNCHANGED drop
  /\ UNCHANGED <<rxRead, rxWrite, rxCount, recvPtr>>

IrqPayload ==
  /\ drop = 0 /\ index >= HeadLen /\ index + 1 < length
  /\ TakesByte
  /\ index' = index + 1 /\ taken' = WithByte
  /\ KeepByte
  /\ UNCHANGED <<length, drop, rxRead, rxWrite, rxCount, recvPtr>>

HasRoom == rxCount < QueueDepth

(* The last byte: the frame joins the queue, or is dropped when it is full. *)
IrqFrameEnd ==
  /\ drop = 0 /\ index >= HeadLen /\ index + 1 >= length
  /\ TakesByte
  /\ index' = 0 /\ length' = 0 /\ taken' = << >>
  /\ IF HasRoom
     THEN /\ KeepByte
          /\ recvPtr' = IF rxCount = 0 THEN rxWrite ELSE recvPtr
          /\ rxCount' = rxCount + 1
          /\ rxWrite' = (rxWrite + 1) % 3
     ELSE EmptyBuf /\ UNCHANGED <<recvPtr, rxCount, rxWrite>>
  /\ UNCHANGED <<drop, rxRead>>

----------------------------------------------------------------------------
(* The end of a poll. *)

DrainDone == pc = "drain" /\ (rxFault \/ (left = 0 /\ ~MarkReached))

(* Mutant: only an open frame is given up, not a heartbeat's skip. *)
StallResetFrame ==
  /\ DrainDone /\ ~rxFault
  /\ index # 0 /\ ~saw /\ ring = << >>
  /\ ResetRx
  /\ UNCHANGED <<line, ring, rxFault, pc, poll, rxRead, rxWrite, rxCount, recvPtr, tx>>

(* The line has been quiet for BUS_RX_RESYNC_GAP_TICKS in an open frame. *)
StallReset ==
  /\ DrainDone /\ ~rxFault
  /\ receiving /\ ~saw /\ ring = << >>
  /\ ResetRx
  /\ UNCHANGED <<line, ring, rxFault, pc, poll, rxRead, rxWrite, rxCount, recvPtr, tx>>

(* The poll was the main loop's, or one of bus_background_ready(). *)
PollEnd(next) ==
  /\ DrainDone
  /\ pc' = next
  /\ left' = 0 /\ saw' = FALSE
  /\ UNCHANGED <<line, rx, parser, queue, tx>>

MainPollEnd == PollEnd("take")
BackgroundPollEnd == PollEnd("poll")

----------------------------------------------------------------------------
(* bambubus_run() / ahubus_run(), then send_package(). *)

Packet == bufs[recvPtr]

IsWhole(s) == s # << >> /\ s[1][2] = 0 /\ s = Whole(s[1][1])

(* Mutant: bus_recv_data_ptr stays at the packet released. *)
ReleaseKeepsPtr ==
  /\ rxRead' = (rxRead + 1) % 3
  /\ rxCount' = rxCount - 1
  /\ bufs' = [bufs EXCEPT ![rxRead] = << >>]
  /\ UNCHANGED <<rxWrite, recvPtr>>

release_packet ==
  /\ rxRead' = (rxRead + 1) % 3
  /\ rxCount' = rxCount - 1
  /\ recvPtr' = (rxRead + 1) % 3
  /\ bufs' = [bufs EXCEPT ![rxRead] = << >>]
  /\ UNCHANGED rxWrite

(* A packet waits while an answer does. *)
TakeNothing ==
  /\ pc = "take" /\ (rxCount = 0 \/ sendPending)
  /\ pc' = "send"
  /\ UNCHANGED <<line, rx, poll, parser, queue, tx>>

(* A handler runs and may answer a packet whose CRC16 is right.  In the    *)
(* AUTO image an arrange command withdraws the answer that waits.          *)
TakePacket(reply, arrange) ==
  /\ pc = "take" /\ rxCount > 0
  /\ arrange => AmsAuto /\ ~reply
  /\ reply \/ arrange => IsWhole(Packet)
  /\ ~sendPending \/ arrange
  /\ sendPending' = reply
  /\ txData' = IF reply THEN [txData EXCEPT ![txSel] = Packet[1][1]] ELSE txData
  /\ release_packet
  /\ pc' = "send"
  /\ UNCHANGED <<line, rx, poll, parser, idle, txSel, txBuf, answered>>

(* Mutant: the next answer is built in the buffer being sent. *)
StartTxSameBuf ==
  /\ txBuf' = txSel
  /\ sendPending' = FALSE
  /\ UNCHANGED txSel

StartTx ==
  /\ txBuf' = txSel
  /\ txSel' = 1 - txSel
  /\ sendPending' = FALSE

(* bus_uart1_dma_send(): reception is off until the transmission ends. *)
Send ==
  /\ pc = "send"
  /\ sendPending /\ idle
  /\ markPending' = TRUE /\ mark' = Len(ring)
  /\ idle' = FALSE
  /\ StartTx
  /\ answered' = txData[txSel]
  /\ pc' = "poll"
  /\ UNCHANGED <<line, ring, rxFault, poll, parser, queue, txData>>

SendNothing ==
  /\ pc = "send" /\ ~(sendPending /\ idle)
  /\ pc' = "poll"
  /\ UNCHANGED <<line, rx, poll, parser, queue, tx>>

----------------------------------------------------------------------------
Environment == \/ PrinterByte \/ LoseByte
               \/ \E k \in {"heartbeat", "packet"} : PrinterStart(k)
               \/ TxAbort \/ RxDmaError

Irq == IrqSkip \/ IrqStart \/ IrqNoStart \/ IrqHeader \/ IrqPayload \/ IrqFrameEnd

MainLoop == \/ PollWaits \/ PollRestart \/ PollOverflow \/ PollSnapshot
            \/ rx_reached \/ FastBeat \/ DrainOverflow \/ Irq
            \/ \E n \in FalseLens : FalseBeat(n)
            \/ MainPollEnd \/ BackgroundPollEnd
            \/ TakeNothing
            \/ \E reply, arrange \in BOOLEAN : TakePacket(reply, arrange)
            \/ Send \/ SendNothing

Next == Environment \/ TxDone \/ StallReset \/ MainLoop

Spec == Init /\ [][Next]_vars

(* The main loop runs, a transmission ends, a quiet line is found to be    *)
(* quiet, and the polls between two passes are finitely many.  Nothing is  *)
(* assumed of the printer.                                                 *)
Fairness == /\ WF_vars(MainLoop) /\ WF_vars(TxDone)
            /\ SF_vars(StallReset) /\ SF_vars(MainPollEnd)

FairSpec == Spec /\ Fairness

----------------------------------------------------------------------------
TypeOK ==
  /\ Len(kinds) \in 0..MaxFrames
  /\ \A f \in 1..Len(kinds) : kinds[f] \in {"heartbeat", "packet"}
  /\ off \in 0..MaxLen /\ spoiled \subseteq Frames /\ faults \in 0..MaxFaults
  /\ Len(ring) \in 0..RingSize /\ rxFault \in BOOLEAN
  /\ markPending \in BOOLEAN /\ mark \in 0..RingSize
  /\ pc \in {"poll", "drain", "take", "send"}
  /\ left \in 0..RingSize /\ saw \in BOOLEAN
  /\ index \in 0..(MaxLen - 1) /\ length \in 0..MaxLen /\ drop \in 0..(MaxLen - HeadLen)
  /\ Len(taken) \in 0..MaxLen
  /\ rxRead \in RxBufs /\ rxWrite \in RxBufs /\ rxCount \in 0..QueueDepth
  /\ rxWrite = (rxRead + rxCount) % 3
  /\ recvPtr \in RxBufs
  /\ idle \in BOOLEAN /\ sendPending \in BOOLEAN
  /\ txSel \in TxBufs /\ txBuf \in TxBufs
  /\ txData \in [TxBufs -> 0..MaxFrames] /\ answered \in 0..MaxFrames

(* These bytes begin where a frame does that lost nothing, on the line or  *)
(* to a false heartbeat.                                                   *)
Sound(s) == s # << >> /\ s[1][2] = 0 /\ s[1][1] \notin spoiled

(* The parser never joins the head of a frame our own answer cut, or the   *)
(* receiver's restart lost the end of, to bytes of another: what it has    *)
(* taken of a frame that lost nothing is that frame's beginning, byte for  *)
(* byte, also when a false heartbeat has eaten into the frame before.      *)
ParsingIsWhole ==
  Sound(taken) => taken = SubSeq(Whole(taken[1][1]), 1, Len(taken))

CountsWhole(s) == Sound(s) => s = Whole(s[1][1])

(* A heartbeat the printer sent was received to its last byte when it      *)
(* keeps the link alive: one our answer cut is neither counted nor does    *)
(* its skip eat into the frame that follows.  What the fast path mistakes  *)
(* for a heartbeat never begins with the start of an undamaged frame.      *)
BeatsAreWhole ==
  /\ FastBeat => CountsWhole(SubSeq(ring, 1, HeartbeatLen))
  /\ \A n \in FalseLens : FalseBeat(n) => ~Sound(SubSeq(ring, 1, n))
  /\ IrqSkip /\ drop = 1 => CountsWhole(WithByte)

(* Neither parser takes bytes of two frames for one, unless the first of   *)
(* them lost bytes on the line or to a false heartbeat: such damage stays  *)
(* with the frames that lost the bytes and what is taken for their end.    *)
FramesAreWhole == [][ParsingIsWhole' /\ BeatsAreWhole]_vars

(* The users of the port see a queue of two frames: an accepted frame is   *)
(* handed over once, in order and unchanged, through bus_recv_data_ptr,    *)
(* whatever the parser writes meanwhile.                                   *)
Waiting == [i \in 1..rxCount |->
              IF i = 1 THEN Packet ELSE bufs[(rxRead + i - 1) % 3]]

Queue == INSTANCE PacketQueue WITH Depth <- QueueDepth, queue <- Waiting

QueueOfTwo == Queue!Spec

(* The bytes being transmitted stay as they were when the transmission     *)
(* began, while the next answer is built.                                  *)
WireIsStable == [][~idle /\ ~idle' => txData'[txBuf] = txData[txBuf]]_vars

(* Answers go out in the order of the requests, each once: none is sent    *)
(* again, and none is sent after the answer to a later request.            *)
AnswersInOrder == [][idle /\ ~idle' => answered' > answered]_vars

(* What the line carries is one answer at a time, whole and in order.      *)
AnswersAreWhole == WireIsStable /\ AnswersInOrder

(* bus_background_ready(): the only condition on which records are saved   *)
(* and the flash may be written holds again and again, whatever the line   *)
(* lost and however a frame was cut.                                       *)
Ready == /\ idle /\ ~sendPending /\ rxCount = 0 /\ ~receiving
         /\ ring = << >> /\ ~rxFault

AlwaysReadyAgain == []<>Ready
============================================================================
