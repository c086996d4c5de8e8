----------------------------- MODULE PacketLayer -----------------------------
(***************************************************************************)
(* The packet layer of a session, both ends of it (class Session of        *)
(* src/src/session.ts): numbering, the queue of unacknowledged packets,    *)
(* acknowledgements, STOP_WAITING and retransmission, over a UDP socket    *)
(* that may lose, duplicate and reorder datagrams.                         *)
(*                                                                         *)
(* Every packet the code builds carries one frame.  A frame the peer must  *)
(* get (STREAM, RST_STREAM, WINDOW_UPDATE, ...) is a member of Data: what  *)
(* is in it does not matter here.  A handler of the code runs to its end   *)
(* before any other callback, so it is one action.                         *)
(***************************************************************************)
EXTENDS AckHandler, UnackedPackets

CONSTANTS
  Client, Server,    \* the two ends
  Data,              \* frames to be delivered reliably
  Owner,             \* Owner[d]: the end that sends d
  MaxPacketNumber,   \* 2^48 - 1 in PacketNumber: nothing can be numbered above it
  Byte,              \* 256: values of one byte of a packet number on the wire
  MaxPings,          \* bound: pings sent, but for those that repair a loss
  MaxLosses,         \* bound: datagrams the network loses
  MaxDups            \* bound: datagrams the network delivers once more

Node == {Client, Server}

ASSUME PacketLayerAssumption ==
  /\ Client # Server
  /\ Owner \in [Data -> Node]
  /\ MaxPacketNumber \in Nat /\ Byte \in Nat /\ MaxPings \in Nat
  /\ MaxLosses \in Nat /\ MaxDups \in Nat

VARIABLES
  nextPN,      \* kNextPacketNumber
  unacked,     \* kUnackedPackets: a queue, always in the order of its numbers
  handler,     \* kACKHandler
  destroyed,   \* kState.destroyed
  net,         \* datagrams in flight
  sent,        \* history: every datagram handed to the socket
  received,    \* history: numbers of the packets an end has processed
  delivered,   \* history: the Data an end has processed
  written,     \* history: the Data an end has asked to send
  losses, dups \* what the network did so far

ends == <<nextPN, unacked, handler, destroyed>>
history == <<sent, received, delivered, written>>
vars == <<nextPN, unacked, handler, destroyed, net, sent, received, delivered,
          written, losses, dups>>

Peer(n) == IF n = Client THEN Server ELSE Client

DataFrame(d) == [type |-> "DATA", data |-> d]
PingFrame == [type |-> "PING"]
StopWaitingFrame(pn, least) == [type |-> "STOP_WAITING", delta |-> pn - least]

Packet(n, pn, frame) == [from |-> n, pn |-> pn, frame |-> frame]

\* frame.isRetransmittable(); a packet's needAck() is the same test.
Retransmittable(frame) == frame.type \notin {"ACK", "STOP_WAITING"}

\* A STOP_WAITING delta takes as many bytes as its packet's number (1, 2, 4 or
\* 6) and fromBuffer reads it back with readIntBE, which is signed.
Span(pn) ==
  IF pn < Byte THEN Byte
  ELSE IF pn < Byte * Byte THEN Byte * Byte
  ELSE IF pn < Byte * Byte * Byte * Byte THEN Byte * Byte * Byte * Byte
  ELSE Byte * Byte * Byte * Byte * Byte * Byte

SignedRead(delta, span) == IF 2 * delta < span THEN delta ELSE delta - span

LeastUnacked(p) == p.pn - SignedRead(p.frame.delta, Span(p.pn))

Init ==
  /\ nextPN = [n \in Node |-> 1]
  /\ unacked = [n \in Node |-> {}]
  /\ handler = [n \in Node |-> NewACKHandler]
  /\ destroyed = [n \in Node |-> FALSE]
  /\ net = {} /\ sent = {}
  /\ received = [n \in Node |-> {}]
  /\ delivered = [n \in Node |-> {}]
  /\ written = [n \in Node |-> {}]
  /\ losses = 0 /\ dups = 0

-----------------------------------------------------------------------------
(* Sending                                                                 *)

\* Mutant: a packet over the limit is not queued either.
SendUnqueued(n, frame, fatal) ==
  LET room == Cardinality(unacked[n]) < MaxUnacked
      packet == Packet(n, nextPN[n], frame)
      Also(set, x) == IF room THEN set \cup {x} ELSE set
  IN /\ ~destroyed[n] /\ nextPN[n] < MaxPacketNumber
     /\ nextPN' = [nextPN EXCEPT ![n] = @ + 1]
     /\ unacked' = [unacked EXCEPT ![n] = Also(@, [pn |-> nextPN[n], frame |-> frame])]
     /\ net' = Also(net, packet) /\ sent' = Also(sent, packet)
     /\ UNCHANGED destroyed

\* _sendPacket of a new retransmittable packet.  Past MaxUnacked the packet
\* is queued and not sent; the callback then gets an error, which destroys
\* the session (fatal) unless it came with the packet, as from a stream's
\* _flushData or from ping.
SendReliable(n, frame, fatal) ==
  LET u == [pn |-> nextPN[n], frame |-> frame]
      queue == unacked[n] \cup {u}
      packet == Packet(n, nextPN[n], frame)
  IN /\ ~destroyed[n]
     /\ nextPN[n] < MaxPacketNumber
     /\ nextPN' = [nextPN EXCEPT ![n] = @ + 1]
     /\ IF Cardinality(queue) <= MaxUnacked
        THEN /\ unacked' = [unacked EXCEPT ![n] = queue]
             /\ net' = net \cup {packet} /\ sent' = sent \cup {packet}
             /\ UNCHANGED destroyed
        ELSE /\ unacked' = [unacked EXCEPT ![n] = IF fatal THEN {} ELSE queue]
             /\ destroyed' = [destroyed EXCEPT ![n] = fatal]
             /\ UNCHANGED <<net, sent>>

\* _sendFrame and _flushData: the stream layer has a frame for the peer.
SendData(n) ==
  \E d \in Data, fatal \in BOOLEAN :
    /\ Owner[d] = n /\ d \notin written[n]
    /\ written' = [written EXCEPT ![n] = @ \cup {d}]
    /\ SendReliable(n, DataFrame(d), fatal)
    /\ UNCHANGED <<handler, received, delivered, losses, dups>>

\* The PING packets that were sent.
Pings == {p \in sent : p.frame = PingFrame}

\* ping(), which the application may call at any time and _intervalCheck calls.
Ping(n) ==
  /\ Cardinality(Pings) < MaxPings
  /\ SendReliable(n, PingFrame, FALSE)
  /\ UNCHANGED <<handler, received, delivered, written, losses, dups>>

\* Mutant: an ACK packet is queued to be sent again.
IntervalAckQueued(n) ==
  LET packet == Packet(n, nextPN[n], AckFrameOf(handler[n]))
  IN /\ ~destroyed[n] /\ HasFrame(handler[n]) /\ nextPN[n] < MaxPacketNumber
     /\ handler' = [handler EXCEPT ![n] = AfterFrame(@)]
     /\ nextPN' = [nextPN EXCEPT ![n] = @ + 1]
     /\ unacked' = [unacked EXCEPT ![n] =
          @ \cup {[pn |-> packet.pn, frame |-> packet.frame]}]
     /\ net' = net \cup {packet} /\ sent' = sent \cup {packet}
     /\ UNCHANGED <<destroyed, received, delivered, written, losses, dups>>

\* _trySendAckFrame, from _intervalCheck.
IntervalAck(n) ==
  /\ ~destroyed[n]
  /\ handler[n].numbersAcked # {}
  /\ handler' = [handler EXCEPT ![n] = AfterFrame(@)]
  /\ IF HasFrame(handler[n])
     THEN LET packet == Packet(n, nextPN[n], AckFrameOf(handler[n]))
          IN /\ nextPN[n] < MaxPacketNumber
             /\ nextPN' = [nextPN EXCEPT ![n] = @ + 1]
             /\ net' = net \cup {packet} /\ sent' = sent \cup {packet}
     ELSE UNCHANGED <<nextPN, net, sent>>
  /\ UNCHANGED <<unacked, destroyed, received, delivered, written, losses, dups>>

-----------------------------------------------------------------------------
(* Receiving                                                               *)

\* The frame is for the stream layer, or a PING, which needs no more than its
\* acknowledgement.
ReceiveReliable(n, frame, base, out, rest) ==
  /\ frame.type \in {"DATA", "PING"}
  /\ delivered' = IF frame.type = "DATA"
                  THEN [delivered EXCEPT ![n] = @ \cup {frame.data}]
                  ELSE delivered
  /\ nextPN' = [nextPN EXCEPT ![n] = base]
  /\ net' = rest \cup out /\ sent' = sent \cup out
  /\ UNCHANGED <<unacked, destroyed>>

\* _handleACKFrame and _retransmit.  Acknowledging a number not sent yet, or
\* an overflow, destroys the session, whose queue is then reset.
ReceiveAck(n, f, base, out, rest) ==
  LET unsent == f.largestAcked >= base
      stop   == IF f.missing /\ ~unsent
                THEN {Packet(n, base, StopWaitingFrame(base, f.largestAcked))}
                ELSE {}
      first  == IF f.missing /\ ~unsent THEN base + 1 ELSE base
      again  == Renumbered(Lost(unacked[n], f), first)
      resent == {Packet(n, u.pn, u.frame) : u \in again}
      SendAll(packets) == net' = rest \cup packets /\ sent' = sent \cup packets
  IN /\ f.type = "ACK"
     /\ \/ /\ unsent \/ Overflows(unacked[n], f)
           /\ destroyed' = [destroyed EXCEPT ![n] = TRUE]
           /\ unacked' = [unacked EXCEPT ![n] = {}]
           /\ nextPN' = [nextPN EXCEPT ![n] = IF unsent THEN base ELSE first + 1]
           /\ SendAll(out \cup stop)
        \/ /\ ~unsent /\ ~Overflows(unacked[n], f)
           /\ unacked' = [unacked EXCEPT ![n] =
                {u \in @ : u.pn > f.largestAcked} \cup again]
           /\ nextPN' = [nextPN EXCEPT ![n] = first + Cardinality(Lost(unacked[n], f))]
           /\ SendAll(out \cup stop \cup resent)
           /\ UNCHANGED destroyed
     /\ UNCHANGED delivered

\* _handleStopWaitingFrame: only the handler changes, see Receive.
ReceiveStopWaiting(n, frame, base, out, rest) ==
  /\ frame.type = "STOP_WAITING"
  /\ nextPN' = [nextPN EXCEPT ![n] = base]
  /\ net' = rest \cup out /\ sent' = sent \cup out
  /\ UNCHANGED <<unacked, destroyed, delivered>>

\* _handleRegularPacket: the packet number is recorded first, which may send
\* an ACK at once (now), then the frame is handled, even when the number was
\* below the low-water mark.  rest is what stays in flight.
Process(n, p, now, rest) ==
  LET needAck == Retransmittable(p.frame)
      noted == Ack(handler[n], p.pn, needAck)
      acks  == now /\ HasFrame(noted)
      base  == IF acks THEN nextPN[n] + 1 ELSE nextPN[n]
      out   == IF acks THEN {Packet(n, nextPN[n], AckFrameOf(noted))} ELSE {}
      after == IF now THEN AfterFrame(noted) ELSE noted
  IN /\ now => MayAckNow(handler[n], p.pn, needAck)
     /\ received' = [received EXCEPT ![n] = @ \cup {p.pn}]
     /\ handler' = [handler EXCEPT ![n] =
          IF p.frame.type = "STOP_WAITING" THEN Lowest(after, LeastUnacked(p)) ELSE after]
     /\ \/ ReceiveReliable(n, p.frame, base, out, rest)
        \/ ReceiveAck(n, p.frame, base, out, rest)
        \/ ReceiveStopWaiting(n, p.frame, base, out, rest)
     /\ nextPN'[n] <= MaxPacketNumber

Arrived(n, p) == p \in net /\ p.from = Peer(n) /\ ~destroyed[n]

Receive(n, p) ==
  \E now \in BOOLEAN :
    /\ Arrived(n, p)
    /\ Process(n, p, now, net \ {p})
    /\ UNCHANGED <<written, losses, dups>>

\* UDP may deliver a datagram more than once.
ReceiveDuplicate(n) ==
  \E p \in net, now \in BOOLEAN :
    /\ Arrived(n, p)
    /\ dups < MaxDups /\ dups' = dups + 1
    /\ Process(n, p, now, net)
    /\ UNCHANGED <<written, losses>>

\* A datagram for a destroyed session is dropped in the socket's callback.
ReceiveLate(n) ==
  \E p \in net :
    /\ p.from = Peer(n) /\ destroyed[n]
    /\ net' = net \ {p}
    /\ UNCHANGED <<ends, history, losses, dups>>

Lose ==
  \E p \in net :
    /\ losses < MaxLosses /\ losses' = losses + 1
    /\ net' = net \ {p}
    /\ UNCHANGED <<ends, history, dups>>

-----------------------------------------------------------------------------
Next ==
  \/ \E n \in Node :
       \/ SendData(n) \/ Ping(n) \/ IntervalAck(n)
       \/ \E p \in net : Receive(n, p)
       \/ ReceiveDuplicate(n) \/ ReceiveLate(n)
  \/ Lose

Spec == Init /\ [][Next]_vars

\* For liveness the timers of _intervalCheck (512 and 1024 ms) outlast the
\* datagrams in flight, and a datagram is not overtaken for ever: here never.
\* So the bound on packet numbers is not what stops an end.  The applications
\* call no ping().  Spec and the safety properties assume none of this.
TimerAck(n) == net = {} /\ IntervalAck(n)

ReceiveInOrder(n) ==
  \E p \in net : /\ \A q \in net : q.from = p.from => p.pn <= q.pn
                 /\ Receive(n, p)

\* _intervalCheck of a client that keeps its connection alive: stream 1 is in
\* its kStreams for ever, so it pings whenever 15 s have passed without a
\* packet, which outlasts the datagrams and the ACK timers.  MaxPings bounds the
\* pings of an idle connection, not those that repair a loss.
KeepAlivePing ==
  /\ net = {} /\ \A n \in Node : destroyed[n] \/ ~HasFrame(handler[n])
  /\ Cardinality(Pings) < MaxPings \/ \E n \in Node : unacked[n] # {}
  /\ SendReliable(Client, PingFrame, FALSE)
  /\ UNCHANGED <<handler, received, delivered, written, losses, dups>>

TimelyNext ==
  \/ \E n \in Node :
       \/ SendData(n) \/ TimerAck(n)
       \/ ReceiveInOrder(n) \/ ReceiveLate(n)
  \/ KeepAlivePing
  \/ Lose

\* Sockets deliver what is in flight and is not lost, and timers fire:
\* setInterval runs _intervalCheck of both ends, keep-alive being on.
Fairness ==
  /\ \A n \in Node : /\ WF_vars(ReceiveInOrder(n)) /\ WF_vars(ReceiveLate(n))
                     /\ WF_vars(TimerAck(n))
  /\ WF_vars(KeepAlivePing)

FairSpec == Init /\ [][TimelyNext]_vars /\ Fairness

-----------------------------------------------------------------------------
(* Properties                                                              *)

AckFrames == [type : {"ACK"}, largestAcked : Int, acked : SUBSET Int, missing : BOOLEAN]
Frames == [type : {"DATA"}, data : Data] \cup [type : {"PING"}] \cup AckFrames
            \cup [type : {"STOP_WAITING"}, delta : Int]
QueueFrames == [type : {"DATA"}, data : Data] \cup [type : {"PING"}]
Packets == [from : Node, pn : Nat, frame : Frames]

TypeOK ==
  /\ nextPN \in [Node -> Nat]
  /\ unacked \in [Node -> SUBSET [pn : Nat, frame : QueueFrames]]
  /\ handler \in [Node -> HandlerState]
  /\ destroyed \in [Node -> BOOLEAN]
  /\ net \in SUBSET sent
  /\ sent \in SUBSET Packets
  /\ received \in [Node -> SUBSET Nat]
  /\ delivered \in [Node -> SUBSET Data]
  /\ written \in [Node -> SUBSET Data]
  /\ losses \in Nat /\ dups \in Nat

\* An ACK frame reports only packets that its sender has really processed,
\* whatever was lost, repeated or overtaken and however often the handler
\* dropped, truncated or rebuilt its list (toFrame).
NoFalseAck ==
  \A p \in sent : p.frame.type = "ACK" => p.frame.acked \subseteq received[p.from]

\* Two packets of an end never share a number: a number that is acknowledged
\* tells the sender which frame arrived (_newRegularPacket, _retransmit).
NumbersUnique ==
  \A p, q \in sent : p.from = q.from /\ p.pn = q.pn => p = q

\* The ACK frames of this code never name a number the other end has not
\* used, so the check of _handleACKFrame never destroys an honest session.
AcksOnlySent ==
  \A p \in sent : p.frame.type = "ACK" => p.frame.largestAcked < nextPN[Peer(p.from)]

\* No frame is forgotten: until the other end has processed it, a frame stays
\* in the queue of unacknowledged packets, from which it is sent again
\* (_retransmit), unless the session is destroyed.
NoLoss ==
  \A n \in Node : \A d \in written[n] :
    \/ d \in delivered[Peer(n)]
    \/ \E u \in unacked[n] : u.frame = DataFrame(d)
    \/ destroyed[n]

\* An ACK frame that a later one has overtaken, or that arrives again, makes
\* its receiver send nothing again: _handleACKFrame does not look whether a
\* frame is newer than the last.
StaleAcksHarmless ==
  \A n \in Node : \A q \in sent :
    q.from = Peer(n) /\ q.frame.type = "ACK" /\ q.pn \in received[n] =>
      \A p \in sent : p.from = Peer(n) /\ p.frame.type = "ACK" /\ p.pn <= q.pn
                      => Lost(unacked[n], p.frame) = {}

\* The comment of StopWaitingFrame's constructor, packetNumber > leastUnacked,
\* for the value the receiver reads from the wire.
StopWaitingBelowPacket ==
  \A p \in sent : p.frame.type = "STOP_WAITING" => LeastUnacked(p) < p.pn

\* Every frame arrives at last, though nothing but the number of a later
\* packet tells the sender that one is missing: the code has no timer for
\* retransmission.
EventuallyDelivered ==
  \A d \in Data : d \in written[Owner[d]] ~>
    (d \in delivered[Peer(Owner[d])] \/ \E n \in Node : destroyed[n])

\* Nothing is in flight, unacknowledged or still to be acknowledged.
AtRest ==
  net = {} /\ \A n \in Node : destroyed[n] \/ (unacked[n] = {} /\ ~HasFrame(handler[n]))

\* A connection that is kept alive is never silent for good, but comes to rest
\* between its pings: a ping, its acknowledgement and what either of them makes
\* the ends send again or report again die out before the next ping
\* (_intervalCheck, needAck, toFrame).
RestsBetweenPings == []<>AtRest

\* Each end keeps its packets as SendQueue promises, whatever the network and
\* the other end do.
ClientEnd == INSTANCE SendQueue WITH
  Frame     <- QueueFrames,
  unacked   <- unacked[Client],
  nextPN    <- nextPN[Client],
  destroyed <- destroyed[Client]

ServerEnd == INSTANCE SendQueue WITH
  Frame     <- QueueFrames,
  unacked   <- unacked[Server],
  nextPN    <- nextPN[Server],
  destroyed <- destroyed[Server]

EndsAreSendQueues == ClientEnd!Spec /\ ServerEnd!Spec

-----------------------------------------------------------------------------
(* The inductive invariant behind the safety properties: what relates the  *)
(* queue, the handlers and the history.                                    *)

\* The handler's largest number is one it remembers, unless it has nothing to
\* report ("numbersAcked should include largestAcked", toFrame).
HandlersSound ==
  \A n \in Node :
    /\ \A m \in handler[n].numbersAcked : m <= handler[n].largestAcked
    /\ \/ handler[n].largestAcked \in handler[n].numbersAcked
       \/ handler[n].largestAcked <= handler[n].lowestAcked
    /\ handler[n].numbersAcked \subseteq received[n]

AcksSound ==
  \A p \in sent : p.frame.type = "ACK" =>
    p.frame.acked \subseteq received[p.from] /\ p.frame.largestAcked \in received[p.from]

ReceivedWereSent ==
  \A n \in Node : \A pn \in received[n] :
    \E p \in sent : p.from = Peer(n) /\ p.pn = pn

NumbersUsed ==
  /\ \A n \in Node : 0 < nextPN[n]
  /\ \A p \in sent : 0 < p.pn /\ p.pn < nextPN[p.from]
  /\ \A n \in Node : \A u \in unacked[n] : u.pn < nextPN[n]

QueueSound ==
  \A n \in Node :
    /\ IsFiniteSet(unacked[n])
    /\ \A u, v \in unacked[n] : u.pn = v.pn => u = v
    /\ \A u \in unacked[n] : \A p \in sent :
         p.from = n /\ p.pn = u.pn => p.frame = u.frame

ReceivedWereDelivered ==
  \A p \in sent : p.frame.type = "DATA" /\ p.pn \in received[Peer(p.from)]
                  => p.frame.data \in delivered[Peer(p.from)]

\* Successive ACK frames name larger and larger numbers ...
AcksRise ==
  \A p \in sent : p.frame.type = "ACK" =>
    /\ p.frame.largestAcked <= handler[p.from].largestAcked
    /\ \A q \in sent : q.from = p.from /\ q.frame.type = "ACK" /\ p.pn <= q.pn
                        => p.frame.largestAcked <= q.frame.largestAcked

\* ... and nothing up to the largest number of one stays in the queue.
AckedLeave ==
  \A n \in Node : \A q \in sent :
    q.from = Peer(n) /\ q.frame.type = "ACK" /\ q.pn \in received[n]
    => \A u \in unacked[n] : q.frame.largestAcked < u.pn

PacketInv ==
  /\ TypeOK /\ HandlersSound /\ AcksSound /\ ReceivedWereSent /\ NumbersUsed
  /\ NumbersUnique /\ QueueSound /\ ReceivedWereDelivered /\ NoLoss

IInv == PacketInv /\ AcksRise /\ AckedLeave
=============================================================================
