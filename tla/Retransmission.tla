---------------------------- MODULE Retransmission ----------------------------
(***************************************************************************)
(* How ACK frames move the packets of one end: its queue of unacknowledged *)
(* packets as the two arrays of PacketQueue, the loop of _retransmit       *)
(* packet by packet, and the peer's ACK frames as AckWire writes and reads *)
(* them (src/src/session.ts, internal/frame.ts, internal/common.ts).  The  *)
(* loop runs to its end before any other callback; it is taken apart here  *)
(* to show that it comes to the single step of PacketLayer (SendQueue).    *)
(***************************************************************************)
EXTENDS AckWire, PacketQueue

CONSTANTS
  MaxUnacked,        \* 4096 in _sendPacket
  MaxPacketNumber,   \* bound: numbers used before the loop of the last ACK frame
  MaxAcks            \* bound: ACK frames on the wire

ASSUME RetransmissionAssumption ==
  {MaxUnacked, MaxPacketNumber, MaxAcks} \subseteq Nat

VARIABLES
  queue,      \* kUnackedPackets of the sender
  nextPN,     \* kNextPacketNumber of the sender
  destroyed,  \* kState.destroyed of the sender
  loop,       \* the ACK frame that _retransmit is at work on, or NoLoop
  before,     \* history: the queue, nextPN and the rounds since the loop began
  handler,    \* kACKHandler of the receiver
  net,        \* packets in flight to the receiver, which may never arrive
  arrived,    \* history: numbers that the receiver has processed
  wires       \* ACK frames on the wire, which may arrive late and repeatedly

sender == <<queue, nextPN, destroyed>>
vars == <<queue, nextPN, destroyed, loop, before, handler, net, arrived, wires>>

NoLoop == [type |-> "NONE"]
NotStarted == [items |-> <<>>, nextPN |-> 0, rounds |-> 0]
Looping == loop # NoLoop

\* A packet is told by what the receiver makes of it: whether it needs an
\* acknowledgement, and the number that a STOP_WAITING frame carries, or 0.
Packet(pn, needAck, least) == [pn |-> pn, needAck |-> needAck, least |-> least]

Init ==
  /\ queue = EmptyQueue /\ nextPN = 1 /\ destroyed = FALSE
  /\ loop = NoLoop /\ before = NotStarted
  /\ handler = NewACKHandler
  /\ net = {} /\ arrived = {} /\ wires = {}

-----------------------------------------------------------------------------
(* The sender                                                              *)

\* Mutant: the length of the queue is tested before the packet is pushed.
SendPacketLate(rest, packet, fatal) ==
  LET longer == Push(rest, packet)
      over   == Length(rest) > MaxUnacked
  IN /\ queue' = IF over /\ fatal THEN Reset(longer) ELSE longer
     /\ destroyed' = (over /\ fatal)
     /\ net' = IF over THEN net ELSE net \cup {Packet(packet.pn, TRUE, 0)}
     /\ nextPN' = nextPN + 1

\* _sendPacket of a retransmittable packet; when the queue is too long the
\* packet stays in it and the callback gets an error, which may destroy the
\* session and reset the queue.
SendPacket(rest, packet, fatal) ==
  LET longer == Push(rest, packet)
      over   == Length(longer) > MaxUnacked
  IN /\ queue' = IF over /\ fatal THEN Reset(longer) ELSE longer
     /\ destroyed' = (over /\ fatal)
     /\ net' = IF over THEN net ELSE net \cup {Packet(packet.pn, TRUE, 0)}
     /\ nextPN' = nextPN + 1

\* A new frame, named by its first number.
Send ==
  /\ ~destroyed /\ ~Looping /\ nextPN < MaxPacketNumber
  /\ \E fatal \in BOOLEAN : SendPacket(queue, [pn |-> nextPN, frame |-> nextPN], fatal)
  /\ UNCHANGED <<loop, before, handler, arrived, wires>>

\* An ACK frame of its own: it takes a number and needs no acknowledgement.
SendAck ==
  /\ ~destroyed /\ ~Looping /\ nextPN < MaxPacketNumber
  /\ nextPN' = nextPN + 1
  /\ net' = net \cup {Packet(nextPN, FALSE, 0)}
  /\ UNCHANGED <<queue, destroyed, loop, before, handler, arrived, wires>>

\* _handleACKFrame, up to the loop of _retransmit.  That an unsent number is
\* never acknowledged, which would destroy the session, is AcksOnlySent.
ReceiveAck ==
  \E w \in wires :
    /\ ~destroyed /\ ~Looping /\ ValidRanges(w)
    /\ w.largestAcked < nextPN /\ nextPN < MaxPacketNumber
    /\ loop' = FromBuffer(w)
    /\ before' = [items |-> Items(queue), nextPN |-> nextPN, rounds |-> 0]
    /\ nextPN' = IF w.missing THEN nextPN + 1 ELSE nextPN
    /\ net' = IF w.missing THEN net \cup {Packet(nextPN, FALSE, w.largestAcked)} ELSE net
    /\ UNCHANGED <<queue, destroyed, handler, arrived, wires>>

Round == before' = [before EXCEPT !.rounds = @ + 1]

\* Mutant: the loop does not stop at packets newer than the ACK frame.
InLoopOnward(acked) ==
  /\ Looping /\ Length(queue) > 0
  /\ (First(queue).pn \in loop.acked) = acked

\* The loop is at a packet the ACK frame speaks of.
InLoop(acked) ==
  /\ Looping /\ Length(queue) > 0
  /\ First(queue).pn <= loop.largestAcked
  /\ (First(queue).pn \in loop.acked) = acked

\* One round of _retransmit: the packet has been acknowledged ...
ShiftAcked ==
  /\ InLoop(TRUE)
  /\ queue' = Shift(queue) /\ Round
  /\ UNCHANGED <<nextPN, destroyed, loop, handler, net, arrived, wires>>

\* ... or it is missing and is sent again.
Resend ==
  /\ InLoop(FALSE)
  /\ SendPacket(Shift(queue), [First(queue) EXCEPT !.pn = nextPN], TRUE) /\ Round
  /\ UNCHANGED <<loop, handler, arrived, wires>>

\* The queue is empty, also when the session was destroyed by its own
\* retransmission, or its first packet is newer than the ACK frame.
LoopEnds ==
  /\ Looping
  /\ Length(queue) > 0 => First(queue).pn > loop.largestAcked
  /\ loop' = NoLoop /\ before' = NotStarted
  /\ UNCHANGED <<queue, nextPN, destroyed, handler, net, arrived, wires>>

-----------------------------------------------------------------------------
(* The receiver                                                            *)

\* _handleRegularPacket with ack(), and _handleStopWaitingFrame.
Arrive ==
  \E p \in net :
    /\ ~Looping
    /\ net' = net \ {p}
    /\ arrived' = arrived \cup {p.pn}
    /\ handler' = Lowest(Ack(handler, p.pn, p.needAck), p.least)
    /\ UNCHANGED <<queue, nextPN, destroyed, loop, before, wires>>

\* _trySendAckFrame: toFrame() and, when it returns a frame, writeTo().  An
\* exception thrown there leaves the handler as toFrame() has left it.
WriteAck ==
  /\ ~Looping /\ handler.numbersAcked # {}
  /\ handler' = AfterFrame(handler)
  /\ IF HasFrame(handler) /\ ~WriteThrows(ToFrame(handler))
     THEN /\ Cardinality(wires) < MaxAcks
          /\ wires' = wires \cup {WriteTo(ToFrame(handler))}
     ELSE UNCHANGED wires
  /\ UNCHANGED <<queue, nextPN, destroyed, loop, before, net, arrived>>

-----------------------------------------------------------------------------
Next ==
  \/ Send \/ SendAck \/ ReceiveAck
  \/ ShiftAcked \/ Resend \/ LoopEnds
  \/ Arrive \/ WriteAck

Spec == Init /\ [][Next]_vars

-----------------------------------------------------------------------------
(* Properties                                                              *)

TypeOK ==
  /\ WellFormed(queue)
  /\ \A i \in 1..Length(queue) : Items(queue)[i] \in [pn : Nat, frame : Nat]
  /\ nextPN \in Nat /\ destroyed \in BOOLEAN
  /\ Looping => loop \in [type : {"ACK"}, largestAcked : Nat, acked : SUBSET Nat, missing : BOOLEAN]
  /\ handler \in HandlerState
  /\ net \subseteq [pn : Nat, needAck : BOOLEAN, least : Nat]
  /\ arrived \in SUBSET Nat

\* What the peer reads from an ACK frame acknowledges only packets that have
\* arrived: neither the splitting of long gaps nor the cut at 255 ranges
\* moves a range (AckFrame.writeTo, fromBuffer).
WireTrue == \A w \in wires : FromBuffer(w).acked \subseteq arrived

\* An ACK frame that is written is one that the peer takes for valid and reads
\* as AckHandler says; when long gaps need blocks of their own it loses the
\* lowest ranges, and no others.
WireExact ==
  LET frame == ToFrame(handler)
      wire  == WriteTo(frame)
      read  == FromBuffer(wire)
      meant == AckFrameOf(handler)
  IN HasFrame(handler) /\ ~WriteThrows(frame) =>
       /\ ValidRanges(wire)
       /\ read = [meant EXCEPT !.acked = read.acked]
       /\ \A n \in meant.acked : (\E m \in read.acked : m <= n) <=> n \in read.acked
       /\ NoLongGap(frame.ackRanges) => read = meant

\* _retransmit puts packets back into the queue it takes them from; it looks at
\* no packet that it has put there itself, and so comes to its end.
EachPacketOnce == before.rounds <= Len(before.items)

\* The loop over the two arrays comes to the single step of SendQueue: during
\* the loop the session is still seen as it was before.
ItemSet(items) == {items[i] : i \in 1..Len(items)}

AtOnce == INSTANCE SendQueue WITH
  Frame     <- 1..MaxPacketNumber,
  unacked   <- ItemSet(IF Looping THEN before.items ELSE Items(queue)),
  nextPN    <- IF Looping THEN before.nextPN ELSE nextPN,
  destroyed <- ~Looping /\ destroyed

SendQueueSpec == AtOnce!Spec

-----------------------------------------------------------------------------
(* The inductive invariant behind these properties.                        *)

Unacked == [pn : Nat, frame : 1..MaxPacketNumber]

\* Items are in the order of their numbers, which lie below n.
Ordered(items, n) ==
  /\ \A i \in 1..Len(items) : items[i].pn < n
  /\ \A i, j \in 1..Len(items) : i < j => items[i].pn < items[j].pn

\* The queue of the sender: what a destroyed session had is gone.
QueueSound ==
  /\ queue \in Queues(Unacked) /\ Ordered(Items(queue), nextPN)
  /\ nextPN \in Nat \ {0} /\ destroyed \in BOOLEAN
  /\ destroyed => queue = EmptyQueue

\* Of the first k items those that the ACK frame f passes over ...
Passed(items, f, k) == {i \in 1..k : items[i].pn \notin f.acked}

\* ... the packet in which the k-th is sent again, its number above that of
\* STOP_WAITING and the packets sent again before it ...
FirstNumber(b, f) == IF f.missing THEN b.nextPN + 1 ELSE b.nextPN

Resent(b, f, k) ==
  [pn    |-> FirstNumber(b, f) + Cardinality(Passed(b.items, f, k - 1)),
   frame |-> b.items[k].frame]

\* ... and whether the queue is too long for it then.
Overfull(items, f, k) ==
  Len(items) - k + 1 + Cardinality(Passed(items, f, k - 1)) > MaxUnacked

\* The loop has worked off the first b.rounds packets.
LoopSound(b, f) ==
  /\ b \in [items : Seq(Unacked), nextPN : Nat, rounds : Nat]
  /\ Ordered(b.items, b.nextPN) /\ b.rounds <= Len(b.items)
  /\ f.largestAcked \in 1..b.nextPN - 1 /\ f.missing \in BOOLEAN
  /\ \A i \in 1..b.rounds : b.items[i].pn <= f.largestAcked

\* The queue holds the others, and behind them what was sent again.
LoopRuns(b, f, items) ==
  LET left   == Len(b.items) - b.rounds
      passed == Passed(b.items, f, b.rounds)
  IN /\ Len(items) = left + Cardinality(passed)
     /\ \A i \in 1..left : items[i] = b.items[b.rounds + i]
     /\ \A i \in left + 1..Len(items) : \E k \in passed : items[i] = Resent(b, f, k)
     /\ \A k \in passed : \E i \in left + 1..Len(items) : items[i] = Resent(b, f, k)
     /\ \A k \in passed : ~Overfull(b.items, f, k)

\* The first packet that was sent again has destroyed the session: as no packet
\* makes the queue longer, a later one cannot.
LoopBroken(b, f) ==
  Passed(b.items, f, b.rounds) = {b.rounds} /\ Overfull(b.items, f, b.rounds)

LoopInv ==
  IF Looping
  THEN /\ LoopSound(before, loop)
       /\ nextPN = FirstNumber(before, loop)
                     + Cardinality(Passed(before.items, loop, before.rounds))
       /\ IF destroyed THEN LoopBroken(before, loop) ELSE LoopRuns(before, loop, Items(queue))
  ELSE before = NotStarted

\* What the receiver remembers has arrived, and ACK frames say no more.
AckFrames(numbers) ==
  [type : {"ACK"}, largestAcked : Nat \ {0}, acked : SUBSET numbers, missing : BOOLEAN]

Packets == [pn : Nat \ {0}, needAck : BOOLEAN, least : Nat]

ReceiverSound ==
  /\ HandlerSound(handler) /\ handler.numbersAcked \subseteq arrived
  /\ arrived \subseteq Nat \ {0}
  /\ net \subseteq Packets
  /\ \A w \in wires : FromBuffer(w) \in AckFrames(arrived)
  /\ Looping => loop \in AckFrames(arrived)

IInv == QueueSound /\ ReceiverSound /\ LoopInv
=============================================================================
