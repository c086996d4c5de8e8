-------------------------- MODULE PacketLayerProofs --------------------------
(***************************************************************************)
(* Safety of PacketLayer for every number of frames, losses, duplicates,   *)
(* ACK ranges and outstanding packets.                                     *)
(***************************************************************************)
EXTENDS PacketLayer, FiniteSetTheorems, TLAPS

-----------------------------------------------------------------------------
(* One ACKHandler                                                          *)

HandlerInv(h) ==
  /\ h \in HandlerState
  /\ \A m \in h.numbersAcked : m <= h.largestAcked
  /\ h.largestAcked \in h.numbersAcked \/ h.largestAcked <= h.lowestAcked

\* ack() keeps a handler sound and remembers no more than the number it got.
LEMMA AckSound ==
  ASSUME NEW h, HandlerInv(h), NEW pn \in Int, NEW needAck \in BOOLEAN
  PROVE  /\ HandlerInv(Ack(h, pn, needAck))
         /\ Ack(h, pn, needAck).numbersAcked \subseteq h.numbersAcked \cup {pn}
<1>1. CASE pn < h.lowestAcked
  BY <1>1 DEF Ack, HandlerInv
<1>2. CASE pn >= h.lowestAcked /\ Absorbs(h, pn, needAck)
  BY <1>2 DEF Ack, LargestAfter, HandlerInv, HandlerState
<1>3. CASE pn >= h.lowestAcked /\ ~Absorbs(h, pn, needAck)
  BY <1>3 DEF Ack, LargestAfter, HandlerInv, HandlerState
<1> QED BY <1>1, <1>2, <1>3 DEF HandlerInv, HandlerState

\* STOP_WAITING keeps a handler sound.
LEMMA LowestSound ==
  ASSUME NEW h, HandlerInv(h), NEW pn \in Int
  PROVE  HandlerInv(Lowest(h, pn)) /\ Lowest(h, pn).numbersAcked = h.numbersAcked
BY DEF Lowest, HandlerInv, HandlerState

\* toFrame() reports numbers the handler remembers, its largest among them.
LEMMA FrameSound ==
  ASSUME NEW h, HandlerInv(h), HasFrame(h)
  PROVE  /\ AckFrameOf(h) \in AckFrames
         /\ AckFrameOf(h).acked \subseteq h.numbersAcked
         /\ AckFrameOf(h).largestAcked \in h.numbersAcked
<1>1. Reported(Kept(h)) \subseteq h.numbersAcked
  BY DEF Reported, Kept
<1>2. h.largestAcked \in h.numbersAcked
  BY DEF HasFrame, HandlerInv, HandlerState
<1> QED BY <1>1, <1>2 DEF AckFrameOf, AckFrames, HandlerInv, HandlerState

\* toFrame() leaves a sound handler behind, with nothing new in it.
LEMMA AfterFrameSound ==
  ASSUME NEW h, HandlerInv(h)
  PROVE  /\ HandlerInv(AfterFrame(h))
         /\ AfterFrame(h).numbersAcked \subseteq h.numbersAcked
<1>1. CASE ~HasFrame(h)
  BY <1>1 DEF AfterFrame, HandlerInv, HandlerState
<1>2. CASE HasFrame(h)
  <2>1. h.largestAcked \in h.numbersAcked /\ h.lowestAcked <= h.largestAcked
    BY <1>2 DEF HasFrame, HandlerInv, HandlerState
  <2>2. CASE Contiguous(Kept(h))
    BY <1>2, <2>1, <2>2 DEF AfterFrame, HandlerInv, HandlerState
  <2>3. CASE ~Contiguous(Kept(h))
    BY <1>2, <2>1, <2>3 DEF AfterFrame, Kept, HandlerInv, HandlerState
  <2> QED BY <2>2, <2>3
<1> QED BY <1>1, <1>2

-----------------------------------------------------------------------------
(* Fresh numbers for packets that are sent again                           *)

\* _retransmit gives every packet a number of its own from base on and keeps
\* all frames.
LEMMA RenumberedSound ==
  ASSUME NEW L, IsFiniteSet(L), NEW base \in Nat,
         \A u \in L : u \in [pn : Nat, frame : QueueFrames],
         \A u, v \in L : u.pn = v.pn => u = v
  PROVE  /\ Cardinality(L) \in Nat
         /\ IsFiniteSet(Renumbered(L, base))
         /\ \A r \in Renumbered(L, base) :
              /\ r \in [pn : Nat, frame : QueueFrames]
              /\ base <= r.pn /\ r.pn < base + Cardinality(L)
         /\ \A r, s \in Renumbered(L, base) : r.pn = s.pn => r = s
         /\ \A u \in L : \E r \in Renumbered(L, base) : r.frame = u.frame
<1> DEFINE Below(u) == {v \in L : v.pn < u.pn}
           New(u) == [pn |-> base + Cardinality(Below(u)), frame |-> u.frame]
<1>1. Cardinality(L) \in Nat
  BY FS_CardinalityType
<1>2. ASSUME NEW u \in L
      PROVE  /\ IsFiniteSet(Below(u)) /\ Cardinality(Below(u)) \in Nat
             /\ Cardinality(Below(u)) < Cardinality(L)
  <2>1. Below(u) \in SUBSET L /\ u \notin Below(u)
    OBVIOUS
  <2>2. IsFiniteSet(Below(u)) /\ Cardinality(Below(u)) <= Cardinality(L)
        /\ (Cardinality(L) = Cardinality(Below(u)) => L = Below(u))
    BY <2>1, FS_Subset
  <2>3. Cardinality(Below(u)) \in Nat
    BY <2>2, FS_CardinalityType
  <2> QED BY <1>1, <2>1, <2>2, <2>3
<1>3. ASSUME NEW u \in L, NEW v \in L, u.pn < v.pn
      PROVE  Cardinality(Below(u)) < Cardinality(Below(v))
  <2>1. Below(u) \in SUBSET Below(v) /\ u \in Below(v) /\ u \notin Below(u)
    BY <1>3
  <2>2. Cardinality(Below(u)) <= Cardinality(Below(v))
        /\ (Cardinality(Below(v)) = Cardinality(Below(u)) => Below(v) = Below(u))
    BY <1>2, <2>1, FS_Subset
  <2>3. Below(u) # Below(v)
    BY <2>1
  <2>4. Cardinality(Below(u)) \in Nat /\ Cardinality(Below(v)) \in Nat
    BY <1>2
  <2> HIDE DEF Below
  <2> QED BY <2>2, <2>3, <2>4
<1>4. Renumbered(L, base) = {New(u) : u \in L}
  BY DEF Renumbered
<1>5. IsFiniteSet(Renumbered(L, base))
  <2> DEFINE f == [u \in L |-> New(u)]
  <2>1. f \in Surjection(L, Renumbered(L, base))
    BY <1>4 DEF Surjection
  <2> HIDE DEF f
  <2> QED BY <2>1, FS_Surjection
<1>6. ASSUME NEW r \in Renumbered(L, base)
      PROVE  /\ r \in [pn : Nat, frame : QueueFrames]
             /\ base <= r.pn /\ r.pn < base + Cardinality(L)
  <2>1. PICK u \in L : r = New(u)
    BY <1>4
  <2> HIDE DEF Below
  <2> QED BY <1>1, <1>2, <2>1
<1>7. ASSUME NEW r \in Renumbered(L, base), NEW s \in Renumbered(L, base), r.pn = s.pn
      PROVE  r = s
  <2>1. PICK u \in L : r = New(u)
    BY <1>4
  <2>2. PICK v \in L : s = New(v)
    BY <1>4
  <2>3. Cardinality(Below(u)) = Cardinality(Below(v))
    <3> HIDE DEF Below
    <3> QED BY <1>2, <1>7, <2>1, <2>2
  <2>4. u.pn = v.pn
    <3>1. u.pn \in Nat /\ v.pn \in Nat
      OBVIOUS
    <3>2. Cardinality(Below(u)) \in Nat /\ Cardinality(Below(v)) \in Nat
      BY <1>2
    <3>3. /\ u.pn < v.pn => Cardinality(Below(u)) < Cardinality(Below(v))
          /\ v.pn < u.pn => Cardinality(Below(v)) < Cardinality(Below(u))
      BY <1>3
    <3> HIDE DEF Below
    <3> QED BY <2>3, <3>1, <3>2, <3>3
  <2> QED BY <2>1, <2>2, <2>4
<1>8. ASSUME NEW u \in L
      PROVE  \E r \in Renumbered(L, base) : r.frame = u.frame
  <2>1. New(u) \in Renumbered(L, base)
    BY <1>4
  <2>2. New(u).frame = u.frame
    OBVIOUS
  <2> QED BY <2>1, <2>2
<1> QED BY <1>1, <1>5, <1>6, <1>7, <1>8

-----------------------------------------------------------------------------
(* What sending and receiving do to the history                            *)

\* An end n sends the packets of new and processes those of got (one or none).
Step(n, new, got) ==
  /\ sent' = sent \cup new /\ new \subseteq Packets
  /\ nextPN' \in [Node -> Nat]
  /\ \A m \in Node : nextPN[m] <= nextPN'[m]
  /\ \A p \in new : p.from = n /\ nextPN[n] <= p.pn /\ p.pn < nextPN'[n]
  /\ \A p, q \in new : p.pn = q.pn => p = q
  /\ \A p \in got : p \in sent /\ p.from = Peer(n)
  /\ received' \in [Node -> SUBSET Nat]
  /\ \A m \in Node : received[m] \subseteq received'[m]
  /\ \A m \in Node : \A pn \in received'[m] :
       pn \in received[m] \/ (m = n /\ \E p \in got : p.pn = pn)
  /\ delivered' \in [Node -> SUBSET Data]
  /\ \A m \in Node : delivered[m] \subseteq delivered'[m]
  /\ \A p \in got : p.frame.type = "DATA" => p.frame.data \in delivered'[n]
  /\ \A p \in new : p.frame.type = "ACK" =>
       p.frame.acked \subseteq received'[n] /\ p.frame.largestAcked \in received'[n]

\* The two ends are each other's peers (remoteAddress of a session).
LEMMA PeerType == \A n \in Node : Peer(n) \in Node /\ Peer(Peer(n)) = n
BY PacketLayerAssumption DEF Node, Peer

\* Packets of every end have types and numbers below its next one.
LEMMA StepNumbers ==
  ASSUME PacketInv, NEW n \in Node, NEW new, NEW got, Step(n, new, got)
  PROVE  /\ sent' \subseteq Packets
         /\ \A m \in Node : 0 < nextPN'[m]
         /\ \A p \in sent' : 0 < p.pn /\ p.pn < nextPN'[p.from]
         /\ NumbersUnique'
<1>1. sent' \subseteq Packets
  BY DEF PacketInv, TypeOK, Step
<1>2. ASSUME NEW p \in sent'
      PROVE  0 < p.pn /\ p.pn < nextPN'[p.from]
  <2>1. CASE p \in sent
    <3>1. 0 < p.pn /\ p.pn < nextPN[p.from] /\ p.from \in Node /\ p.pn \in Nat
      BY <2>1, <1>1 DEF PacketInv, NumbersUsed, Packets
    <3> QED BY <3>1 DEF Step, PacketInv, TypeOK
  <2>2. CASE p \in new
    <3>1. nextPN[n] <= p.pn /\ p.pn < nextPN'[n] /\ p.from = n /\ p.pn \in Nat
      BY <2>2, <1>1 DEF Step, Packets
    <3>2. 0 < nextPN[n] /\ nextPN[n] \in Nat
      BY DEF PacketInv, TypeOK, NumbersUsed
    <3> QED BY <3>1, <3>2
  <2> QED BY <2>1, <2>2 DEF Step
<1>3. ASSUME NEW p \in sent', NEW q \in sent', p.from = q.from, p.pn = q.pn
      PROVE  p = q
  <2>1. CASE p \in sent /\ q \in sent
    BY <1>3, <2>1 DEF PacketInv, NumbersUnique
  <2>2. CASE p \in new /\ q \in new
    BY <1>3, <2>2 DEF Step
  <2>3. ASSUME NEW a \in sent, NEW b \in new, a.from = b.from, a.pn = b.pn
        PROVE  FALSE
    <3>1. a.pn < nextPN[n] /\ nextPN[n] <= a.pn
      BY <2>3 DEF PacketInv, NumbersUsed, Step
    <3>2. a.pn \in Nat /\ nextPN[n] \in Nat
      BY DEF PacketInv, TypeOK, Packets
    <3> QED BY <3>1, <3>2
  <2> QED BY <1>3, <2>1, <2>2, <2>3 DEF Step
<1>4. \A m \in Node : 0 < nextPN'[m]
  BY DEF Step, PacketInv, TypeOK, NumbersUsed
<1> QED BY <1>1, <1>2, <1>3, <1>4 DEF NumbersUnique

\* Acknowledgements stay true, numbers received stay numbers sent and DATA
\* received stays DATA delivered.
LEMMA StepHistory ==
  ASSUME PacketInv, NEW n \in Node, NEW new, NEW got, Step(n, new, got)
  PROVE  /\ received' \in [Node -> SUBSET Nat]
         /\ \A m \in Node : received[m] \subseteq received'[m]
         /\ AcksSound' /\ ReceivedWereSent' /\ ReceivedWereDelivered'
<1>1. received' \in [Node -> SUBSET Nat]
  BY DEF PacketInv, TypeOK, Step, Packets
<1>2. \A m \in Node : received[m] \subseteq received'[m]
  BY DEF PacketInv, TypeOK, Step
<1>3. AcksSound'
  <2> SUFFICES ASSUME NEW p \in sent', p.frame.type = "ACK"
               PROVE  /\ p.frame.acked \subseteq received'[p.from]
                      /\ p.frame.largestAcked \in received'[p.from]
    BY DEF AcksSound
  <2>1. CASE p \in sent
    <3>1. p.from \in Node
      BY <2>1 DEF PacketInv, TypeOK, Packets
    <3>2. /\ p.frame.acked \subseteq received[p.from]
          /\ p.frame.largestAcked \in received[p.from]
      BY <2>1 DEF PacketInv, AcksSound
    <3> QED BY <3>1, <3>2, <1>2
  <2>2. CASE p \in new
    BY <2>2 DEF Step
  <2> QED BY <2>1, <2>2 DEF Step
<1>4. ReceivedWereSent'
  <2> SUFFICES ASSUME NEW m \in Node, NEW pn \in received'[m]
               PROVE  \E p \in sent' : p.from = Peer(m) /\ p.pn = pn
    BY DEF ReceivedWereSent
  <2>1. CASE pn \in received[m]
    BY <2>1 DEF PacketInv, ReceivedWereSent, Step
  <2>2. CASE pn \notin received[m]
    <3>1. m = n /\ \E p \in got : p.pn = pn
      BY <2>2 DEF Step, PacketInv, TypeOK
    <3> QED BY <3>1 DEF Step
  <2> QED BY <2>1, <2>2
<1>5. ReceivedWereDelivered'
  <2> SUFFICES ASSUME NEW q \in sent', q.frame.type = "DATA",
                      q.pn \in received'[Peer(q.from)]
               PROVE  q.frame.data \in delivered'[Peer(q.from)]
    BY DEF ReceivedWereDelivered
  <2>1. q.from \in Node /\ q.pn \in Nat
    BY StepNumbers DEF Packets
  <2>2. q \in sent
    <3> SUFFICES ASSUME q \in new PROVE FALSE
      BY DEF Step
    <3>1. q.from = n /\ nextPN[n] <= q.pn
      BY DEF Step
    <3>2. Peer(n) # n /\ Peer(n) \in Node
      BY PacketLayerAssumption DEF Node, Peer
    <3>3. q.pn \in received[Peer(n)]
      BY <3>1, <3>2 DEF Step, PacketInv, TypeOK
    <3>4. PICK p \in sent : p.from = n /\ p.pn = q.pn
      BY <3>2, <3>3, PeerType DEF PacketInv, ReceivedWereSent
    <3>5. q.pn < nextPN[n] /\ nextPN[n] \in Nat
      BY <3>4 DEF PacketInv, NumbersUsed, TypeOK
    <3> QED BY <3>1, <3>5, <2>1
  <2>3. CASE q.pn \in received[Peer(q.from)]
    BY <2>1, <2>2, <2>3, PeerType DEF PacketInv, ReceivedWereDelivered, Step
  <2>4. CASE q.pn \notin received[Peer(q.from)]
    <3>1. Peer(q.from) = n /\ \E p \in got : p.pn = q.pn
      BY <2>1, <2>4, PeerType DEF Step, PacketInv, TypeOK
    <3>2. PICK p \in got : p.pn = q.pn
      BY <3>1
    <3>3. p \in sent /\ p.from = q.from
      BY <3>1, <2>1, PeerType DEF Step
    <3>4. p = q
      BY <3>2, <3>3, <2>2 DEF PacketInv, NumbersUnique
    <3> QED BY <3>1, <3>4 DEF Step
  <2> QED BY <2>3, <2>4
<1> QED BY <1>1, <1>2, <1>3, <1>4, <1>5

\* A packet that waits in a queue keeps its frame on the wire, and its number
\* is not reused.
LEMMA StepQueue ==
  ASSUME PacketInv, NEW n \in Node, NEW new, NEW got, Step(n, new, got),
         NEW m \in Node, NEW u \in unacked[m]
  PROVE  /\ u.pn < nextPN'[m]
         /\ \A p \in sent' : p.from = m /\ p.pn = u.pn => p.frame = u.frame
<1>1. u.pn \in Nat /\ u.pn < nextPN[m] /\ nextPN[m] \in Nat
  BY DEF PacketInv, TypeOK, NumbersUsed
<1>2. u.pn < nextPN'[m]
  BY <1>1 DEF Step
<1>3. ASSUME NEW p \in sent', p.from = m, p.pn = u.pn
      PROVE  p.frame = u.frame
  <2>1. p \in sent
    BY <1>1, <1>3 DEF Step
  <2> QED BY <2>1, <1>3 DEF PacketInv, QueueSound
<1> QED BY <1>2, <1>3

-----------------------------------------------------------------------------
(* The actions                                                             *)

\* What every action leaves well-formed besides the queues.
Rest == /\ handler' \in [Node -> HandlerState] /\ HandlersSound'
        /\ net' \subseteq sent' /\ losses' \in Nat /\ dups' \in Nat

\* A step that leaves the queues alone.
LEMMA StepKeepsQueues ==
  ASSUME PacketInv, NEW n \in Node, NEW new, NEW got, Step(n, new, got), Rest,
         UNCHANGED <<unacked, destroyed, written>>
  PROVE  PacketInv'
<1> USE DEF Rest
<1>1. TypeOK'
  <2>1. sent' \subseteq Packets /\ received' \in [Node -> SUBSET Nat]
    BY StepNumbers, StepHistory
  <2>2. nextPN' \in [Node -> Nat] /\ delivered' \in [Node -> SUBSET Data]
    BY DEF Step
  <2> QED BY <2>1, <2>2 DEF PacketInv, TypeOK
<1>2. NumbersUsed'
  BY StepNumbers, StepQueue DEF NumbersUsed
<1>3. QueueSound'
  BY StepQueue DEF PacketInv, QueueSound
<1>4. NoLoss'
  <2> SUFFICES ASSUME NEW m \in Node, NEW d \in written[m]
               PROVE  \/ d \in delivered'[Peer(m)]
                      \/ \E u \in unacked[m] : u.frame = DataFrame(d)
                      \/ destroyed[m]
    BY DEF NoLoss
  <2> QED BY PeerType DEF PacketInv, NoLoss, Step
<1> QED BY <1>1, <1>2, <1>3, <1>4, StepNumbers, StepHistory DEF PacketInv

\* A step in which an end destroys its session and drops its queue.
LEMMA StepDestroys ==
  ASSUME PacketInv, NEW n \in Node, NEW new, NEW got, Step(n, new, got), Rest,
         unacked' = [unacked EXCEPT ![n] = {}],
         destroyed' = [destroyed EXCEPT ![n] = TRUE],
         written' \in [Node -> SUBSET Data],
         \A m \in Node : m # n => written'[m] = written[m]
  PROVE  PacketInv'
<1> USE DEF Rest
<1>1. \A m \in Node : unacked'[m] = IF m = n THEN {} ELSE unacked[m]
  BY DEF PacketInv, TypeOK
<1>2. TypeOK'
  <2>1. unacked' \in [Node -> SUBSET [pn : Nat, frame : QueueFrames]]
    BY DEF PacketInv, TypeOK
  <2>2. destroyed' \in [Node -> BOOLEAN]
    BY DEF PacketInv, TypeOK
  <2>3. sent' \subseteq Packets /\ received' \in [Node -> SUBSET Nat]
    BY StepNumbers, StepHistory
  <2>4. nextPN' \in [Node -> Nat] /\ delivered' \in [Node -> SUBSET Data]
    BY DEF Step
  <2> QED BY <2>1, <2>2, <2>3, <2>4 DEF TypeOK
<1>3. NumbersUsed'
  BY <1>1, StepNumbers, StepQueue DEF NumbersUsed
<1>4. QueueSound'
  BY <1>1, StepQueue, FS_EmptySet DEF PacketInv, QueueSound
<1>5. NoLoss'
  <2> SUFFICES ASSUME NEW m \in Node, NEW d \in written'[m]
               PROVE  \/ d \in delivered'[Peer(m)]
                      \/ \E u \in unacked'[m] : u.frame = DataFrame(d)
                      \/ destroyed'[m]
    BY DEF NoLoss
  <2>1. CASE m = n
    BY <2>1 DEF PacketInv, TypeOK
  <2>2. CASE m # n
    BY <2>2, <1>1, PeerType DEF PacketInv, TypeOK, NoLoss, Step
  <2> QED BY <2>1, <2>2
<1> QED BY <1>2, <1>3, <1>4, <1>5, StepNumbers, StepHistory DEF PacketInv

\* A new frame is queued under a fresh number.
LEMMA SendReliableInv ==
  ASSUME PacketInv, NEW n \in Node, NEW frame \in QueueFrames, NEW fatal \in BOOLEAN,
         SendReliable(n, frame, fatal),
         UNCHANGED <<handler, received, delivered, losses, dups>>,
         written' \in [Node -> SUBSET Data],
         \A m \in Node : \A d \in written'[m] :
           d \in written[m] \/ (m = n /\ frame = DataFrame(d)),
         \A m \in Node : m # n => written'[m] = written[m]
  PROVE  PacketInv'
<1> DEFINE u == [pn |-> nextPN[n], frame |-> frame]
           queue == unacked[n] \cup {u}
           packet == Packet(n, nextPN[n], frame)
           fits == Cardinality(queue) <= MaxUnacked
           new == IF fits THEN {packet} ELSE {}
<1>1. nextPN[n] \in Nat /\ nextPN' = [nextPN EXCEPT ![n] = nextPN[n] + 1]
  BY DEF SendReliable, PacketInv, TypeOK
<1>2. sent' = sent \cup new /\ net' \subseteq net \cup new
  BY DEF SendReliable
<1>3. packet \in Packets /\ packet.from = n /\ packet.pn = nextPN[n]
      /\ packet.frame.type # "ACK" /\ packet.frame = frame
  BY <1>1 DEF Packet, Packets, QueueFrames, Frames
<1>4. Step(n, new, {})
  <2>1. received' \in [Node -> SUBSET Nat] /\ received' = received
    BY DEF PacketInv, TypeOK
  <2>2. nextPN' \in [Node -> Nat] /\ \A m \in Node : nextPN[m] <= nextPN'[m]
        /\ nextPN[n] < nextPN'[n]
    BY <1>1 DEF PacketInv, TypeOK
  <2>3. delivered' \in [Node -> SUBSET Data] /\ delivered' = delivered
    BY DEF PacketInv, TypeOK
  <2>4. /\ \A p \in new : p = packet
        /\ \A m \in Node : delivered[m] \subseteq delivered'[m]
    BY <2>3
  <2>5. new \subseteq Packets /\ \A p, q \in new : p = q
    BY <2>4, <1>3
  <2>6. \A p \in new : /\ p.from = n /\ nextPN[n] <= p.pn /\ p.pn < nextPN'[n]
                        /\ p.frame.type # "ACK"
    <3> HIDE DEF packet, new
    <3> QED BY <1>1, <1>3, <2>2, <2>4
  <2> HIDE DEF packet, new
  <2> QED BY <1>2, <2>1, <2>2, <2>3, <2>4, <2>5, <2>6, SMTT(30) DEF Step
<1>5. Rest
  BY <1>2 DEF Rest, PacketInv, TypeOK, HandlersSound
<1>6. CASE ~fits /\ fatal
  <2>1. /\ unacked' = [unacked EXCEPT ![n] = {}]
        /\ destroyed' = [destroyed EXCEPT ![n] = TRUE]
    BY <1>6 DEF SendReliable
  <2> QED BY <1>4, <1>5, <2>1, StepDestroys
<1>7. CASE fits \/ ~fatal
  <2>1. unacked' = [unacked EXCEPT ![n] = queue] /\ destroyed' = destroyed
    <3>1. CASE fits
      BY <3>1 DEF SendReliable
    <3>2. CASE ~fits /\ ~fatal
      <4>1. destroyed' = [destroyed EXCEPT ![n] = FALSE] /\ ~destroyed[n]
        BY <3>2 DEF SendReliable
      <4> QED BY <3>2, <4>1 DEF SendReliable, PacketInv, TypeOK
    <3> QED BY <1>7, <3>1, <3>2
  <2>2. u \in [pn : Nat, frame : QueueFrames] /\ u.pn = nextPN[n] /\ u.frame = frame
    BY <1>1
  <2>3. \A m \in Node : unacked'[m] = IF m = n THEN queue ELSE unacked[m]
    BY <2>1 DEF PacketInv, TypeOK
  <2>4. TypeOK'
    <3>1. unacked' \in [Node -> SUBSET [pn : Nat, frame : QueueFrames]]
      BY <2>1, <2>2 DEF PacketInv, TypeOK
    <3>2. sent' \subseteq Packets /\ received' \in [Node -> SUBSET Nat]
      BY <1>4, StepNumbers, StepHistory
    <3>3. nextPN' \in [Node -> Nat] /\ delivered' \in [Node -> SUBSET Data]
      BY <1>4 DEF Step
    <3>4. destroyed' \in [Node -> BOOLEAN]
      BY <2>1 DEF PacketInv, TypeOK
    <3> QED BY <1>5, <3>1, <3>2, <3>3, <3>4 DEF TypeOK, Rest
  <2>5. u.pn < nextPN'[n]
    BY <1>1, <2>2 DEF PacketInv, TypeOK
  <2>6. NumbersUsed'
    <3>1. ASSUME NEW m \in Node, NEW v \in unacked'[m]
          PROVE  v.pn < nextPN'[m]
      BY <1>4, <2>3, <2>5, StepQueue
    <3> QED BY <1>4, <3>1, StepNumbers DEF NumbersUsed
  <2>7. QueueSound'
    <3>1. IsFiniteSet(queue)
      <4>1. IsFiniteSet(unacked[n])
        BY DEF PacketInv, QueueSound
      <4> HIDE DEF u
      <4> QED BY <4>1, FS_AddElement
    <3>2. ASSUME NEW v \in unacked[n]
          PROVE  v.pn # u.pn
      BY <1>1, <2>2 DEF PacketInv, NumbersUsed, TypeOK
    <3>3. ASSUME NEW p \in sent', p.from = n, p.pn = u.pn
          PROVE  p.frame = u.frame
      <4>1. CASE p \in sent
        BY <4>1, <3>3, <1>1, <2>2 DEF PacketInv, NumbersUsed, TypeOK
      <4>2. CASE p \in new
        BY <4>2, <1>3, <2>2
      <4> QED BY <4>1, <4>2, <1>2
    <3>4. ASSUME NEW m \in Node, NEW v \in unacked[m], NEW p \in sent',
                 p.from = m, p.pn = v.pn
          PROVE  p.frame = v.frame
      BY <1>4, <3>4, StepQueue
    <3>5. \A m \in Node : IsFiniteSet(unacked'[m])
      BY <2>3, <3>1 DEF PacketInv, QueueSound
    <3>6. ASSUME NEW m \in Node, NEW v \in unacked'[m], NEW w \in unacked'[m], v.pn = w.pn
          PROVE  v = w
      BY <2>3, <3>2, <3>6 DEF PacketInv, QueueSound
    <3>7. ASSUME NEW m \in Node, NEW v \in unacked'[m], NEW p \in sent',
                 p.from = m, p.pn = v.pn
          PROVE  p.frame = v.frame
      BY <2>3, <3>3, <3>4, <3>7
    <3> QED BY <3>5, <3>6, <3>7 DEF QueueSound
  <2>8. NoLoss'
    <3> SUFFICES ASSUME NEW m \in Node, NEW d \in written'[m]
                 PROVE  \/ d \in delivered[Peer(m)]
                        \/ \E v \in unacked'[m] : v.frame = DataFrame(d)
                        \/ destroyed[m]
      BY <2>1 DEF NoLoss
    <3>1. CASE d \in written[m]
      BY <3>1, <2>3 DEF PacketInv, NoLoss
    <3>2. CASE m = n /\ frame = DataFrame(d)
      BY <3>2, <2>2, <2>3
    <3> QED BY <3>1, <3>2
  <2> QED BY <1>4, <1>5, <2>4, <2>6, <2>7, <2>8, StepNumbers, StepHistory DEF PacketInv, Rest
<1> QED BY <1>6, <1>7

\* An ACK frame that the handler of n builds can be sent under the next number.
LEMMA AckPacketSound ==
  ASSUME PacketInv, NEW n \in Node, NEW h, HandlerInv(h), HasFrame(h)
  PROVE  LET a == Packet(n, nextPN[n], AckFrameOf(h))
         IN /\ a \in Packets /\ a.from = n /\ a.pn = nextPN[n] /\ a.frame.type = "ACK"
            /\ a.frame.acked \subseteq h.numbersAcked
            /\ a.frame.largestAcked \in h.numbersAcked
<1>1. AckFrameOf(h) \in AckFrames /\ AckFrameOf(h).acked \subseteq h.numbersAcked
      /\ AckFrameOf(h).largestAcked \in h.numbersAcked
  BY FrameSound
<1>2. nextPN[n] \in Nat
  BY DEF PacketInv, TypeOK
<1> QED BY <1>1, <1>2 DEF Packet, Packets, Frames, AckFrames

\* The acknowledgement timer sends a sound ACK frame, or none.
LEMMA IntervalAckInv ==
  ASSUME PacketInv, NEW n \in Node, IntervalAck(n)
  PROVE  PacketInv'
<1> DEFINE h == handler[n]
           a == Packet(n, nextPN[n], AckFrameOf(h))
           new == IF HasFrame(h) THEN {a} ELSE {}
<1>1. HandlerInv(h) /\ h.numbersAcked \subseteq received[n]
  BY DEF HandlerInv, PacketInv, TypeOK, HandlersSound
<1>2. HandlerInv(AfterFrame(h)) /\ AfterFrame(h).numbersAcked \subseteq received[n]
  BY <1>1, AfterFrameSound
<1>3. nextPN[n] \in Nat /\ nextPN' \in [Node -> Nat]
      /\ \A m \in Node : nextPN[m] <= nextPN'[m]
      /\ (HasFrame(h) => nextPN[n] < nextPN'[n])
  BY DEF IntervalAck, PacketInv, TypeOK
<1>4. sent' = sent \cup new /\ net' = net \cup new
  BY DEF IntervalAck
<1>5. \A q \in new : /\ q \in Packets /\ q = a /\ q.from = n /\ q.pn = nextPN[n]
                     /\ q.frame.acked \subseteq received[n]
                     /\ q.frame.largestAcked \in received[n] /\ HasFrame(h)
  <2>1. CASE HasFrame(h)
    <3> HIDE DEF h
    <3> QED BY <2>1, <1>1, AckPacketSound
  <2>2. CASE ~HasFrame(h)
    BY <2>2
  <2> QED BY <2>1, <2>2
<1>6. received' = received /\ delivered' = delivered /\ received \in [Node -> SUBSET Nat]
      /\ delivered \in [Node -> SUBSET Data]
  BY DEF IntervalAck, PacketInv, TypeOK
<1>7. Step(n, new, {})
  <2> HIDE DEF new, a, h
  <2> QED BY <1>3, <1>4, <1>5, <1>6 DEF Step
<1>8. Rest
  <2>1. handler' \in [Node -> HandlerState]
        /\ \A m \in Node : handler'[m] = IF m = n THEN AfterFrame(h) ELSE handler[m]
    BY <1>2 DEF IntervalAck, PacketInv, TypeOK, HandlerInv
  <2>2. HandlersSound'
    <3> HIDE DEF h
    <3> QED BY <1>2, <1>6, <2>1 DEF PacketInv, HandlersSound, HandlerInv
  <2>3. net' \subseteq sent' /\ losses' \in Nat /\ dups' \in Nat
    BY <1>4 DEF IntervalAck, PacketInv, TypeOK
  <2> QED BY <2>1, <2>2, <2>3 DEF Rest
<1>9. UNCHANGED <<unacked, destroyed, written>>
  BY DEF IntervalAck
<1> QED BY <1>7, <1>8, <1>9, StepKeepsQueues

\* The parts of QueueSound after a step.
LEMMA QueuesStaySound ==
  ASSUME \A m \in Node : IsFiniteSet(unacked'[m]),
         \A m \in Node : \A u, v \in unacked'[m] : u.pn = v.pn => u = v,
         \A m \in Node : \A u \in unacked'[m] : \A q \in sent' :
           q.from = m /\ q.pn = u.pn => q.frame = u.frame
  PROVE  QueueSound'
BY DEF QueueSound

\* The retransmission of what an ACK frame f leaves open: the queue keeps its
\* shape, and what leaves it has been delivered.
LEMMA RetransmitInv ==
  ASSUME PacketInv, NEW n \in Node, NEW p \in sent, p.from = Peer(n), p.frame.type = "ACK",
         NEW first \in Nat, nextPN[n] <= first, NEW out,
         \A q \in out : /\ q \in Packets /\ q.from = n /\ nextPN[n] <= q.pn /\ q.pn < first
                        /\ q.frame.type = "ACK" => /\ q.frame.acked \subseteq received'[n]
                                                   /\ q.frame.largestAcked \in received'[n],
         \A q, r \in out : q.pn = r.pn => q = r,
         received' = [received EXCEPT ![n] = @ \cup {p.pn}],
         UNCHANGED <<delivered, destroyed, written>>, Rest,
         NEW again, again = Renumbered(Lost(unacked[n], p.frame), first),
         NEW resent, resent = {Packet(n, u.pn, u.frame) : u \in again},
         sent' = sent \cup out \cup resent,
         unacked' = [unacked EXCEPT ![n] = {u \in @ : u.pn > p.frame.largestAcked} \cup again],
         nextPN' = [nextPN EXCEPT ![n] = first + Cardinality(Lost(unacked[n], p.frame))]
  PROVE  PacketInv'
<1> DEFINE f == p.frame
           lost == Lost(unacked[n], f)
           kept == {u \in unacked[n] : u.pn > f.largestAcked}
<1>1. /\ unacked[n] \in SUBSET [pn : Nat, frame : QueueFrames]
      /\ IsFiniteSet(unacked[n]) /\ \A u, v \in unacked[n] : u.pn = v.pn => u = v
  BY DEF PacketInv, TypeOK, QueueSound
<1>2. /\ IsFiniteSet(lost) /\ lost \subseteq unacked[n]
      /\ IsFiniteSet(kept) /\ kept \subseteq unacked[n]
  BY <1>1, FS_Subset DEF Lost
<1>3. /\ Cardinality(lost) \in Nat
      /\ IsFiniteSet(again)
      /\ \A r \in again : /\ r \in [pn : Nat, frame : QueueFrames]
                           /\ first <= r.pn /\ r.pn < first + Cardinality(lost)
      /\ \A r, s \in again : r.pn = s.pn => r = s
      /\ \A u \in lost : \E r \in again : r.frame = u.frame
  <2> HIDE DEF lost
  <2>1. \A u \in lost : u \in [pn : Nat, frame : QueueFrames]
    BY <1>1, <1>2
  <2>2. \A u, v \in lost : u.pn = v.pn => u = v
    BY <1>1, <1>2
  <2>3. again = Renumbered(lost, first)
    BY DEF lost
  <2> QED BY <1>2, <2>1, <2>2, <2>3, RenumberedSound
<1>4. nextPN'[n] = first + Cardinality(lost) /\ nextPN' \in [Node -> Nat]
      /\ \A m \in Node : nextPN[m] <= nextPN'[m]
  BY <1>3 DEF PacketInv, TypeOK
<1>5. \A q \in resent : /\ q \in Packets /\ q.from = n /\ q.frame.type # "ACK"
                        /\ first <= q.pn /\ q.pn < nextPN'[n]
                        /\ \E r \in again : q.pn = r.pn /\ q.frame = r.frame
  <2> TAKE q \in resent
  <2>1. PICK r \in again : q = Packet(n, r.pn, r.frame)
    OBVIOUS
  <2>2. /\ r.pn \in Nat /\ r.frame \in QueueFrames
        /\ first <= r.pn /\ r.pn < first + Cardinality(lost)
    BY <1>3
  <2> HIDE DEF lost
  <2> QED BY <1>4, <2>1, <2>2 DEF Packet, Packets, QueueFrames, Frames
<1>6. \A q, r \in resent : q.pn = r.pn => q = r
  <2> TAKE q, r \in resent
  <2> HAVE q.pn = r.pn
  <2>1. PICK a \in again : q = Packet(n, a.pn, a.frame)
    OBVIOUS
  <2>2. PICK b \in again : r = Packet(n, b.pn, b.frame)
    OBVIOUS
  <2>3. a.pn = b.pn
    BY <2>1, <2>2 DEF Packet
  <2> QED BY <1>3, <2>1, <2>2, <2>3
<1>7. Step(n, out \cup resent, {p})
  <2> HIDE DEF lost
  <2>1. /\ received' \in [Node -> SUBSET Nat]
        /\ \A m \in Node : received'[m] = IF m = n THEN received[n] \cup {p.pn} ELSE received[m]
    BY DEF PacketInv, TypeOK, Packets
  <2>2. delivered' \in [Node -> SUBSET Data] /\ delivered' = delivered
    BY DEF PacketInv, TypeOK
  <2>3. \A q \in out \cup resent : q \in Packets /\ q.from = n /\ nextPN[n] <= q.pn
                                  /\ q.pn < nextPN'[n]
    <3>1. nextPN[n] \in Nat
      BY DEF PacketInv, TypeOK
    <3> QED BY <1>3, <1>4, <1>5, <3>1 DEF Packets
  <2>4. \A q, r \in out \cup resent : q.pn = r.pn => q = r
    <3>1. \A q \in out, r \in resent : q.pn # r.pn
      BY <1>5 DEF Packets
    <3> QED BY <1>6, <3>1
  <2>5. sent' = sent \cup (out \cup resent)
    OBVIOUS
  <2> QED BY <1>4, <1>5, <2>1, <2>2, <2>3, <2>4, <2>5 DEF Step
<1>8. \A m \in Node : unacked'[m] = IF m = n THEN kept \cup again ELSE unacked[m]
  BY DEF PacketInv, TypeOK
<1>9. TypeOK'
  <2>1. sent' \subseteq Packets /\ received' \in [Node -> SUBSET Nat]
    BY <1>7, StepNumbers, StepHistory
  <2>2. nextPN' \in [Node -> Nat] /\ delivered' \in [Node -> SUBSET Data]
    BY <1>7 DEF Step
  <2>3. unacked' \in [Node -> SUBSET [pn : Nat, frame : QueueFrames]]
    BY <1>1, <1>2, <1>3 DEF PacketInv, TypeOK
  <2> QED BY <2>1, <2>2, <2>3 DEF PacketInv, TypeOK, Rest
<1>10. \A r \in again : \A u \in unacked[n] : u.pn < r.pn
  BY <1>1, <1>3 DEF PacketInv, NumbersUsed, TypeOK
<1>11. NumbersUsed'
  <2>1. ASSUME NEW m \in Node, NEW u \in unacked'[m]
        PROVE  u.pn < nextPN'[m]
    <3>1. CASE u \in unacked[m]
      BY <3>1, <1>7, StepQueue
    <3>2. CASE u \notin unacked[m]
      BY <3>2, <1>2, <1>3, <1>4, <1>8
    <3> QED BY <3>1, <3>2
  <2> QED BY <1>7, <2>1, StepNumbers DEF NumbersUsed
<1>12. QueueSound'
  <2>1. \A m \in Node : IsFiniteSet(unacked'[m])
    <3>1. IsFiniteSet(kept \cup again)
      BY <1>2, <1>3, FS_Union
    <3> QED BY <1>8, <3>1 DEF PacketInv, QueueSound
  <2>2. ASSUME NEW m \in Node, NEW u \in unacked'[m], NEW v \in unacked'[m], u.pn = v.pn
        PROVE  u = v
    <3>1. CASE m # n
      BY <3>1, <2>2, <1>8 DEF PacketInv, QueueSound
    <3>2. CASE m = n
      <4>1. u \in kept \cup again /\ v \in kept \cup again
        BY <3>2, <1>8
      <4>2. \A r \in again : \A w \in kept : w.pn # r.pn
        BY <1>1, <1>2, <1>3, <1>10
      <4> HIDE DEF kept
      <4> QED BY <2>2, <4>1, <4>2, <1>1, <1>2, <1>3
    <3> QED BY <3>1, <3>2
  <2>3. ASSUME NEW m \in Node, NEW u \in unacked'[m], NEW q \in sent', q.from = m, q.pn = u.pn
        PROVE  q.frame = u.frame
    <3>1. CASE u \in unacked[m]
      BY <3>1, <2>3, <1>7, StepQueue
    <3>2. CASE u \notin unacked[m]
      <4>1. m = n /\ u \in again
        BY <3>2, <1>2, <1>8
      <4>2. q \notin sent
        BY <4>1, <2>3, <1>3 DEF PacketInv, NumbersUsed, TypeOK, Packets
      <4>3. q \notin out
        BY <4>1, <2>3, <1>3 DEF Packets
      <4>4. PICK r \in again : q.pn = r.pn /\ q.frame = r.frame
        BY <4>2, <4>3, <1>5
      <4> QED BY <4>1, <4>4, <2>3, <1>3
    <3> QED BY <3>1, <3>2
  <2> QED BY <2>1, <2>2, <2>3, QueuesStaySound
<1>13. NoLoss'
  <2> SUFFICES ASSUME NEW m \in Node, NEW d \in written[m]
               PROVE  \/ d \in delivered[Peer(m)]
                      \/ \E u \in unacked'[m] : u.frame = DataFrame(d)
                      \/ destroyed[m]
    BY DEF NoLoss
  <2>1. CASE m # n
    BY <2>1, <1>8 DEF PacketInv, NoLoss
  <2>2. CASE m = n
    <3> SUFFICES ASSUME NEW u \in unacked[n], u.frame = DataFrame(d)
                 PROVE  \/ d \in delivered[Peer(n)]
                        \/ \E v \in unacked'[n] : v.frame = DataFrame(d)
      BY <2>2 DEF PacketInv, NoLoss
    <3>1. CASE u \in kept
      BY <3>1, <1>8
    <3>2. CASE u \in lost
      BY <3>2, <1>3, <1>8
    <3>3. CASE u \notin kept /\ u \notin lost
      <4>1. u.pn \in f.acked
        BY <3>3, <1>1 DEF Lost, PacketInv, TypeOK, Packets, Frames, AckFrames
      <4>2. u.pn \in received[Peer(n)]
        BY <4>1 DEF PacketInv, AcksSound
      <4>3. PICK q \in sent : q.from = n /\ q.pn = u.pn
        BY <4>2, PeerType DEF PacketInv, ReceivedWereSent
      <4>4. q.frame = DataFrame(d)
        BY <4>3 DEF PacketInv, QueueSound
      <4>5. q.frame.type = "DATA" /\ q.frame.data = d
        BY <4>4 DEF DataFrame
      <4> QED BY <4>2, <4>3, <4>5 DEF PacketInv, ReceivedWereDelivered
    <3> QED BY <3>1, <3>2, <3>3
  <2> QED BY <2>1, <2>2
<1> QED BY <1>7, <1>9, <1>11, <1>12, <1>13, StepNumbers, StepHistory DEF PacketInv, Rest

\* A packet from the peer is noted, acknowledged at once or not, and handled.
LEMMA ProcessInv ==
  ASSUME PacketInv, NEW n \in Node, NEW p \in net, p.from = Peer(n),
         NEW now \in BOOLEAN, NEW rest, rest \subseteq net,
         Process(n, p, now, rest),
         UNCHANGED written, losses' \in Nat, dups' \in Nat
  PROVE  PacketInv'
<1> DEFINE h == handler[n]
           noted == Ack(h, p.pn, Retransmittable(p.frame))
           acks  == now /\ HasFrame(noted)
           base  == IF acks THEN nextPN[n] + 1 ELSE nextPN[n]
           out   == IF acks THEN {Packet(n, nextPN[n], AckFrameOf(noted))} ELSE {}
           after == IF now THEN AfterFrame(noted) ELSE noted
           final == IF p.frame.type = "STOP_WAITING" THEN Lowest(after, LeastUnacked(p))
                    ELSE after
<1>1. p \in sent /\ p \in Packets /\ p.pn \in Nat /\ nextPN[n] \in Nat /\ p.frame \in Frames
  BY DEF PacketInv, TypeOK, Packets
<1>2. /\ received' = [received EXCEPT ![n] = @ \cup {p.pn}]
      /\ handler' = [handler EXCEPT ![n] = final]
      /\ \/ ReceiveReliable(n, p.frame, base, out, rest)
         \/ ReceiveAck(n, p.frame, base, out, rest)
         \/ ReceiveStopWaiting(n, p.frame, base, out, rest)
  BY Zenon DEF Process
<1>3. received' \in [Node -> SUBSET Nat]
      /\ \A m \in Node : received'[m] = IF m = n THEN received[n] \cup {p.pn} ELSE received[m]
  BY <1>1, <1>2 DEF PacketInv, TypeOK
<1>4. HandlerInv(h) /\ h.numbersAcked \subseteq received[n]
  BY DEF HandlerInv, PacketInv, TypeOK, HandlersSound
<1>5. HandlerInv(noted) /\ noted.numbersAcked \subseteq received'[n]
  <2>1. Retransmittable(p.frame) \in BOOLEAN
    BY DEF Retransmittable
  <2>2. p.pn \in Int
    BY <1>1
  <2> HIDE DEF h
  <2>3. HandlerInv(noted) /\ noted.numbersAcked \subseteq h.numbersAcked \cup {p.pn}
    BY <1>4, <2>1, <2>2, AckSound
  <2> HIDE DEF noted
  <2> QED BY <1>3, <1>4, <2>3
<1>6. HandlerInv(final) /\ final.numbersAcked \subseteq received'[n]
  <2> HIDE DEF noted
  <2>1. HandlerInv(after) /\ after.numbersAcked \subseteq received'[n]
    BY <1>5, AfterFrameSound
  <2>2. p.frame.type = "STOP_WAITING" => LeastUnacked(p) \in Int
    <3>1. p.frame.type = "STOP_WAITING" => p.frame.delta \in Int
      BY <1>1 DEF Frames, AckFrames
    <3>2. Span(p.pn) \in Int
      BY PacketLayerAssumption DEF Span
    <3> QED BY <1>1, <3>1, <3>2 DEF LeastUnacked, SignedRead
  <2> HIDE DEF after
  <2> QED BY <2>1, <2>2, LowestSound
<1>7. /\ base \in Nat /\ nextPN[n] <= base
      /\ \A q \in out : /\ q \in Packets /\ q.from = n /\ nextPN[n] <= q.pn /\ q.pn < base
                        /\ q.frame.type = "ACK"
                        /\ q.frame.acked \subseteq received'[n]
                        /\ q.frame.largestAcked \in received'[n]
      /\ \A q, r \in out : q = r
  <2>1. CASE acks
    <3> HIDE DEF noted
    <3> QED BY <2>1, <1>1, <1>5, AckPacketSound
  <2>2. CASE ~acks
    BY <2>2, <1>1
  <2> QED BY <2>1, <2>2
<1> HIDE DEF final, base, out
<1>8. /\ handler' \in [Node -> HandlerState] /\ HandlersSound'
  <2>1. handler' \in [Node -> HandlerState]
        /\ \A m \in Node : handler'[m] = IF m = n THEN final ELSE handler[m]
    BY <1>2, <1>6 DEF PacketInv, TypeOK, HandlerInv
  <2> QED BY <1>3, <1>6, <2>1 DEF PacketInv, HandlersSound, HandlerInv
<1>9. delivered \in [Node -> SUBSET Data]
  BY DEF PacketInv, TypeOK
<1>10. ASSUME ReceiveReliable(n, p.frame, base, out, rest)
              \/ ReceiveStopWaiting(n, p.frame, base, out, rest)
       PROVE  PacketInv'
  <2>1. /\ nextPN' = [nextPN EXCEPT ![n] = base]
        /\ net' = rest \cup out /\ sent' = sent \cup out
        /\ unacked' = unacked /\ destroyed' = destroyed
    BY <1>10 DEF ReceiveReliable, ReceiveStopWaiting
  <2>2. /\ nextPN' \in [Node -> Nat] /\ nextPN'[n] = base
        /\ \A m \in Node : nextPN[m] <= nextPN'[m]
    BY <1>7, <2>1 DEF PacketInv, TypeOK
  <2>3. /\ delivered' \in [Node -> SUBSET Data]
        /\ \A m \in Node : delivered[m] \subseteq delivered'[m]
        /\ p.frame.type = "DATA" => p.frame.data \in delivered'[n]
    <3>1. CASE p.frame.type = "DATA"
      <4>1. p.frame.data \in Data
        BY <1>1, <3>1 DEF Frames, AckFrames
      <4>2. delivered' = [delivered EXCEPT ![n] = @ \cup {p.frame.data}]
        BY <1>10, <3>1 DEF ReceiveReliable, ReceiveStopWaiting
      <4> QED BY <1>9, <4>1, <4>2
    <3>2. CASE p.frame.type # "DATA"
      <4>1. delivered' = delivered
        BY <1>10, <3>2 DEF ReceiveReliable, ReceiveStopWaiting
      <4> QED BY <1>9, <3>2, <4>1
    <3> QED BY <3>1, <3>2
  <2>4. Step(n, out, {p})
    BY <1>1, <1>3, <1>7, <2>1, <2>2, <2>3 DEF Step
  <2>5. Rest
    BY <1>8, <2>1 DEF Rest, PacketInv, TypeOK
  <2> QED BY <2>1, <2>4, <2>5, StepKeepsQueues
<1>11. ASSUME ReceiveAck(n, p.frame, base, out, rest)
       PROVE  PacketInv'
  <2> DEFINE f == p.frame
             unsent == f.largestAcked >= base
             stop   == IF f.missing /\ ~unsent
                       THEN {Packet(n, base, StopWaitingFrame(base, f.largestAcked))}
                       ELSE {}
             first  == IF f.missing /\ ~unsent THEN base + 1 ELSE base
             again  == Renumbered(Lost(unacked[n], f), first)
             resent == {Packet(n, u.pn, u.frame) : u \in again}
  <2>1. /\ f.type = "ACK" /\ delivered' = delivered
        /\ \/ /\ destroyed' = [destroyed EXCEPT ![n] = TRUE]
              /\ unacked' = [unacked EXCEPT ![n] = {}]
              /\ nextPN' = [nextPN EXCEPT ![n] = IF unsent THEN base ELSE first + 1]
              /\ net' = rest \cup (out \cup stop) /\ sent' = sent \cup (out \cup stop)
           \/ /\ unacked' = [unacked EXCEPT ![n] = {u \in @ : u.pn > f.largestAcked} \cup again]
              /\ nextPN' = [nextPN EXCEPT ![n] = first + Cardinality(Lost(unacked[n], f))]
              /\ net' = rest \cup (out \cup stop \cup resent)
              /\ sent' = sent \cup (out \cup stop \cup resent)
              /\ destroyed' = destroyed
    BY <1>11, Zenon DEF ReceiveAck
  <2>2. f \in AckFrames
    BY <1>1, <2>1 DEF Frames, QueueFrames
  <2>3. /\ first \in Nat /\ base <= first
        /\ \A q \in stop : /\ q \in Packets /\ q.from = n /\ q.pn = base /\ q.pn < first
                           /\ q.frame.type # "ACK"
        /\ \A q, r \in stop : q = r
    BY <1>7, <2>2 DEF Packet, Packets, StopWaitingFrame, Frames, AckFrames
  <2>4. f.largestAcked \in Int
    BY <2>2 DEF AckFrames
  <2> HIDE DEF stop, first, again, resent, unsent
  <2>5. /\ \A q \in out \cup stop :
             /\ q \in Packets /\ q.from = n /\ nextPN[n] <= q.pn /\ q.pn < first
             /\ q.frame.type = "ACK" => /\ q.frame.acked \subseteq received'[n]
                                        /\ q.frame.largestAcked \in received'[n]
        /\ \A q, r \in out \cup stop : q.pn = r.pn => q = r
    <3>1. \A q \in out \cup stop : q.pn \in Nat
      BY <1>7, <2>3 DEF Packets
    <3> QED BY <1>1, <1>7, <2>3, <3>1
  <2>6. ASSUME destroyed' = [destroyed EXCEPT ![n] = TRUE],
               unacked' = [unacked EXCEPT ![n] = {}],
               nextPN' = [nextPN EXCEPT ![n] = IF unsent THEN base ELSE first + 1],
               net' = rest \cup (out \cup stop), sent' = sent \cup (out \cup stop)
        PROVE  PacketInv'
    <3>1. unsent => first = base /\ stop = {}
      BY DEF unsent, first, stop
    <3>2. /\ nextPN' \in [Node -> Nat]
          /\ \A m \in Node : nextPN[m] <= nextPN'[m]
          /\ first <= nextPN'[n]
      BY <1>7, <2>3, <2>6, <3>1 DEF PacketInv, TypeOK
    <3>3. \A q \in out \cup stop : q.pn < nextPN'[n]
      BY <2>3, <2>5, <3>2 DEF Packets
    <3>4. Step(n, out \cup stop, {p})
      BY <1>1, <1>3, <1>9, <2>1, <2>5, <2>6, <3>2, <3>3 DEF Step
    <3>5. Rest
      BY <1>8, <2>6 DEF Rest, PacketInv, TypeOK
    <3>6. written' \in [Node -> SUBSET Data]
      BY DEF PacketInv, TypeOK
    <3> QED BY <2>6, <3>4, <3>5, <3>6, StepDestroys
  <2>7. ASSUME unacked' = [unacked EXCEPT ![n] = {u \in @ : u.pn > f.largestAcked} \cup again],
               nextPN' = [nextPN EXCEPT ![n] = first + Cardinality(Lost(unacked[n], f))],
               net' = rest \cup (out \cup stop \cup resent),
               sent' = sent \cup (out \cup stop \cup resent),
               destroyed' = destroyed
        PROVE  PacketInv'
    <3>1. Rest
      BY <1>8, <2>7 DEF Rest, PacketInv, TypeOK
    <3>2. /\ again = Renumbered(Lost(unacked[n], p.frame), first)
          /\ resent = {Packet(n, u.pn, u.frame) : u \in again}
      BY DEF again, resent
    <3>3. nextPN[n] <= first
      BY <1>1, <1>7, <2>3
    <3> DEFINE outs == out \cup stop
    <3>4. sent' = sent \cup outs \cup resent
      BY <2>7
    <3>5. /\ \A q \in outs :
               /\ q \in Packets /\ q.from = n /\ nextPN[n] <= q.pn /\ q.pn < first
               /\ q.frame.type = "ACK" => /\ q.frame.acked \subseteq received'[n]
                                          /\ q.frame.largestAcked \in received'[n]
          /\ \A q, r \in outs : q.pn = r.pn => q = r
      BY <2>5
    <3>6. /\ received' = [received EXCEPT ![n] = @ \cup {p.pn}]
          /\ p \in sent /\ p.frame.type = "ACK" /\ first \in Nat
          /\ UNCHANGED <<delivered, destroyed, written>>
          /\ unacked' = [unacked EXCEPT ![n] = {u \in @ : u.pn > p.frame.largestAcked} \cup again]
          /\ nextPN' = [nextPN EXCEPT ![n] = first + Cardinality(Lost(unacked[n], p.frame))]
      BY <1>1, <1>2, <2>1, <2>3, <2>7
    <3> HIDE DEF outs, f
    <3> QED BY <3>1, <3>2, <3>3, <3>4, <3>5, <3>6, RetransmitInv
  <2> QED BY <2>1, <2>6, <2>7
<1> QED BY <1>2, <1>10, <1>11

-----------------------------------------------------------------------------
(* The specification                                                       *)

\* Both ends start with nothing sent, received or queued (Session's
\* constructor).
LEMMA InitInv == Init => PacketInv
<1> SUFFICES ASSUME Init PROVE PacketInv
  OBVIOUS
<1>1. TypeOK
  <2>1. NewACKHandler \in HandlerState
    BY DEF NewACKHandler, HandlerState
  <2>2. Client \in Node
    BY DEF Node
  <2> QED BY <2>1 DEF Init, TypeOK
<1>2. HandlersSound
  BY DEF Init, HandlersSound, NewACKHandler
<1>3. QueueSound
  BY FS_EmptySet DEF Init, QueueSound
<1>4. AcksSound /\ ReceivedWereSent /\ NumbersUsed /\ NumbersUnique
      /\ ReceivedWereDelivered /\ NoLoss
  BY DEF Init, AcksSound, ReceivedWereSent, NumbersUsed, NumbersUnique,
         ReceivedWereDelivered, NoLoss
<1> QED BY <1>1, <1>2, <1>3, <1>4 DEF PacketInv

\* What only takes datagrams out of flight disturbs nothing.
LEMMA NetworkInv ==
  ASSUME PacketInv, UNCHANGED <<ends, history>>,
         net' \subseteq net, losses' \in Nat, dups' \in Nat
  PROVE  PacketInv'
<1>1. TypeOK'
  BY DEF PacketInv, TypeOK, ends, history
<1>2. HandlersSound' /\ AcksSound' /\ ReceivedWereSent' /\ NumbersUsed' /\ NumbersUnique'
      /\ QueueSound' /\ ReceivedWereDelivered' /\ NoLoss'
  BY DEF PacketInv, HandlersSound, AcksSound, ReceivedWereSent, NumbersUsed, NumbersUnique,
         QueueSound, ReceivedWereDelivered, NoLoss, ends, history
<1> QED BY <1>1, <1>2 DEF PacketInv

\* Every step of the two ends and of the network keeps the invariant.
LEMMA NextInv == PacketInv /\ [Next]_vars => PacketInv'
<1> SUFFICES ASSUME PacketInv, [Next]_vars PROVE PacketInv'
  OBVIOUS
<1>1. losses \in Nat /\ dups \in Nat /\ written \in [Node -> SUBSET Data]
  BY DEF PacketInv, TypeOK
<1>2. ASSUME NEW n \in Node, SendData(n) PROVE PacketInv'
  <2>1. PICK d \in Data, fatal \in BOOLEAN :
          /\ written' = [written EXCEPT ![n] = @ \cup {d}]
          /\ SendReliable(n, DataFrame(d), fatal)
          /\ UNCHANGED <<handler, received, delivered, losses, dups>>
    BY <1>2 DEF SendData
  <2>2. DataFrame(d) \in QueueFrames
    BY DEF DataFrame, QueueFrames
  <2>3. /\ written' \in [Node -> SUBSET Data]
        /\ \A m \in Node : written'[m] = IF m = n THEN written[m] \cup {d} ELSE written[m]
    BY <1>1, <2>1
  <2>4. \A m \in Node : \A e \in written'[m] :
          e \in written[m] \/ (m = n /\ DataFrame(d) = DataFrame(e))
    BY <2>3
  <2>5. \A m \in Node : m # n => written'[m] = written[m]
    BY <2>3
  <2> QED BY <2>1, <2>2, <2>3, <2>4, <2>5, SendReliableInv
<1>3. ASSUME NEW n \in Node, IntervalAck(n) PROVE PacketInv'
  BY <1>3, IntervalAckInv
<1>4. ASSUME NEW n \in Node, NEW p \in net, Receive(n, p) PROVE PacketInv'
  <2>1. PICK now \in BOOLEAN : /\ Arrived(n, p)
                               /\ Process(n, p, now, net \ {p})
                               /\ UNCHANGED <<written, losses, dups>>
    BY <1>4 DEF Receive
  <2>2. p.from = Peer(n)
    BY <2>1 DEF Arrived
  <2>3. net \ {p} \subseteq net
    OBVIOUS
  <2> QED BY <1>1, <2>1, <2>2, <2>3, ProcessInv
<1>5. ASSUME NEW n \in Node, ReceiveDuplicate(n) PROVE PacketInv'
  <2>1. PICK p \in net, now \in BOOLEAN : /\ Arrived(n, p)
                                          /\ dups' = dups + 1
                                          /\ Process(n, p, now, net)
                                          /\ UNCHANGED <<written, losses>>
    BY <1>5 DEF ReceiveDuplicate
  <2>2. p.from = Peer(n)
    BY <2>1 DEF Arrived
  <2>3. net \subseteq net /\ dups' \in Nat
    BY <1>1, <2>1
  <2> QED BY <1>1, <2>1, <2>2, <2>3, ProcessInv
<1>6. ASSUME NEW n \in Node, ReceiveLate(n) PROVE PacketInv'
  BY <1>1, <1>6, NetworkInv DEF ReceiveLate
<1>7. ASSUME NEW n \in Node, Ping(n) PROVE PacketInv'
  <2>1. PingFrame \in QueueFrames
    BY DEF PingFrame, QueueFrames
  <2> QED BY <1>1, <1>7, <2>1, SendReliableInv DEF Ping
<1>8. CASE Lose
  BY <1>1, <1>8, NetworkInv DEF Lose
<1>9. CASE UNCHANGED vars
  BY <1>1, <1>9, NetworkInv DEF vars, ends, history
<1> QED BY <1>2, <1>3, <1>4, <1>5, <1>6, <1>7, <1>8, <1>9 DEF Next

\* An acknowledged number is a number its receiver processed, so an honest
\* peer sent it before.
LEMMA AcksOnlySentHolds == PacketInv => AcksOnlySent
<1> SUFFICES ASSUME PacketInv, NEW p \in sent, p.frame.type = "ACK"
             PROVE  p.frame.largestAcked < nextPN[Peer(p.from)]
  BY DEF AcksOnlySent
<1>1. p.from \in Node
  BY DEF PacketInv, TypeOK, Packets
<1>2. p.frame.largestAcked \in received[p.from]
  BY DEF PacketInv, AcksSound
<1>3. PICK q \in sent : q.from = Peer(p.from) /\ q.pn = p.frame.largestAcked
  BY <1>1, <1>2 DEF PacketInv, ReceivedWereSent
<1> QED BY <1>3 DEF PacketInv, NumbersUsed

-----------------------------------------------------------------------------
(* The order of acknowledgements                                           *)

\* ack(), lowest() and toFrame() never lower a sound handler's largest number.
LEMMA LargestRises ==
  ASSUME NEW h, HandlerInv(h), NEW pn \in Int, NEW needAck \in BOOLEAN
  PROVE  /\ h.largestAcked <= Ack(h, pn, needAck).largestAcked
         /\ Lowest(h, pn).largestAcked = h.largestAcked
<1>1. h.largestAcked <= Ack(h, pn, needAck).largestAcked
  <2>1. CASE pn < h.lowestAcked
    BY <2>1 DEF Ack, HandlerInv, HandlerState
  <2>2. CASE ~(pn < h.lowestAcked)
    BY <2>2 DEF Ack, LargestAfter, HandlerInv, HandlerState
  <2> QED BY <2>1, <2>2
<1>2. Lowest(h, pn).largestAcked = h.largestAcked
  BY DEF Lowest, HandlerInv, HandlerState
<1> QED BY <1>1, <1>2

LEMMA AfterFrameRises ==
  ASSUME NEW h, HandlerInv(h)
  PROVE  h.largestAcked <= AfterFrame(h).largestAcked
<1>1. h.largestAcked \in Int /\ h.lowestAcked \in Int
  BY DEF HandlerInv, HandlerState
<1>2. CASE h.numbersAcked = {}
  BY <1>1, <1>2 DEF AfterFrame
<1>3. CASE h.numbersAcked # {} /\ ~HasFrame(h)
  <2>1. h.largestAcked <= h.lowestAcked
    BY <1>1, <1>3 DEF HasFrame, HandlerInv
  <2> QED BY <1>3, <2>1 DEF AfterFrame
<1>4. CASE h.numbersAcked # {} /\ HasFrame(h)
  BY <1>1, <1>4 DEF AfterFrame
<1> QED BY <1>2, <1>3, <1>4

\* What a step of the end n does to the order: it sends the ACK packets of acks
\* (one or none) and processes those of got.
OrderStep(n, acks, got) ==
  /\ \A p \in sent' : p.frame.type = "ACK" => p \in sent \/ p \in acks
  /\ \A p \in acks : /\ p.from = n /\ nextPN[n] <= p.pn
                     /\ handler[n].largestAcked <= p.frame.largestAcked
                     /\ p.frame.largestAcked <= handler'[n].largestAcked
  /\ \A p, q \in acks : p = q
  /\ handler[n].largestAcked <= handler'[n].largestAcked
  /\ \A m \in Node : m # n => /\ handler'[m] = handler[m] /\ unacked'[m] = unacked[m]
                              /\ received'[m] = received[m]
  /\ \A pn \in received'[n] : pn \in received[n] \/ \E p \in got : p.pn = pn
  /\ \A p \in got : p \in sent /\ p.from = Peer(n)
  /\ \A p \in got : p.frame.type = "ACK" =>
       \A u \in unacked'[n] : p.frame.largestAcked < u.pn
  /\ \A u \in unacked'[n] : u \in unacked[n] \/ nextPN[n] <= u.pn

\* ACK frames keep their order.
LEMMA OrderOfAcks ==
  ASSUME PacketInv, PacketInv', AcksRise, NEW n \in Node, NEW acks, NEW got,
         OrderStep(n, acks, got)
  PROVE  AcksRise'
<1> DEFINE Largest(p) == p.frame.largestAcked
<1>1. ASSUME NEW p \in sent', p.frame.type = "ACK"
      PROVE  Largest(p) \in Int /\ p.pn \in Nat /\ p.from \in Node
  BY <1>1 DEF PacketInv, TypeOK, Packets, Frames, AckFrames, QueueFrames
<1>2. \A m \in Node : /\ handler[m].largestAcked \in Int /\ handler'[m].largestAcked \in Int
                      /\ handler[m].largestAcked <= handler'[m].largestAcked
  <2>1. \A m \in Node : handler[m].largestAcked \in Int /\ handler'[m].largestAcked \in Int
    BY DEF PacketInv, TypeOK, HandlerState
  <2> QED BY <2>1 DEF OrderStep
<1>3. ASSUME NEW p \in sent', p.frame.type = "ACK"
      PROVE  Largest(p) <= handler'[p.from].largestAcked
  <2>1. CASE p \in sent
    <3>1. Largest(p) <= handler[p.from].largestAcked
      BY <1>3, <2>1 DEF AcksRise
    <3> QED BY <1>1, <1>2, <1>3, <3>1
  <2>2. CASE p \in acks
    BY <2>2 DEF OrderStep
  <2> QED BY <1>3, <2>1, <2>2 DEF OrderStep
<1>4. ASSUME NEW p \in sent', NEW q \in sent', p.frame.type = "ACK", q.frame.type = "ACK",
             q.from = p.from, p.pn <= q.pn
      PROVE  Largest(p) <= Largest(q)
  <2>1. CASE p \in sent /\ q \in sent
    BY <1>4, <2>1 DEF AcksRise
  <2>2. CASE p \in acks /\ q \in acks
    <3>1. p = q
      BY <2>2 DEF OrderStep
    <3> QED BY <1>1, <1>4, <3>1
  <2>3. CASE p \in sent /\ q \in acks
    <3>1. Largest(p) <= handler[n].largestAcked /\ handler[n].largestAcked <= Largest(q)
      BY <1>4, <2>3 DEF AcksRise, OrderStep
    <3> QED BY <1>1, <1>2, <1>4, <3>1
  <2>4. CASE p \in acks /\ q \in sent
    <3>1. nextPN[n] <= p.pn /\ q.pn < nextPN[n] /\ nextPN[n] \in Nat
      BY <1>4, <2>4 DEF OrderStep, PacketInv, NumbersUsed, TypeOK
    <3> QED BY <1>1, <1>4, <3>1
  <2> QED BY <1>4, <2>1, <2>2, <2>3, <2>4 DEF OrderStep
<1> QED BY <1>3, <1>4 DEF AcksRise

\* Nothing that an ACK frame has passed over comes back.
LEMMA OrderOfQueues ==
  ASSUME PacketInv, PacketInv', AckedLeave, NEW n \in Node, NEW acks, NEW got,
         OrderStep(n, acks, got)
  PROVE  AckedLeave'
<1> SUFFICES ASSUME NEW m \in Node, NEW q \in sent', q.from = Peer(m),
                    q.frame.type = "ACK", q.pn \in received'[m], NEW u \in unacked'[m]
             PROVE  q.frame.largestAcked < u.pn
  BY DEF AckedLeave
<1>1. q.pn \in Nat /\ q.frame.largestAcked \in Int /\ u.pn \in Nat
  BY DEF PacketInv, TypeOK, Packets, Frames, AckFrames, QueueFrames
<1>2. Peer(m) \in Node /\ Peer(m) # m
  BY PacketLayerAssumption DEF Node, Peer
<1>3. CASE m # n
  <2>1. received'[m] = received[m] /\ unacked'[m] = unacked[m]
    BY <1>3 DEF OrderStep
  <2>2. PICK r \in sent : r.from = Peer(m) /\ r.pn = q.pn
    BY <2>1 DEF PacketInv, ReceivedWereSent
  <2>3. q \in sent
    <3> SUFFICES ASSUME q \in acks PROVE FALSE
      BY DEF OrderStep
    <3>1. nextPN[Peer(m)] <= q.pn
      BY DEF OrderStep
    <3>2. q.pn < nextPN[Peer(m)] /\ nextPN[Peer(m)] \in Nat
      BY <1>2, <2>2 DEF PacketInv, NumbersUsed, TypeOK
    <3> QED BY <1>1, <3>1, <3>2
  <2> QED BY <2>1, <2>3 DEF AckedLeave
<1>4. CASE m = n
  <2>1. q \in sent
    BY <1>2, <1>4 DEF OrderStep
  <2>2. CASE q.pn \notin received[n]
    <3>1. PICK p \in got : p.pn = q.pn
      BY <1>4, <2>2 DEF OrderStep
    <3>2. p \in sent /\ p.from = q.from
      BY <1>4 DEF OrderStep
    <3>3. p = q
      BY <2>1, <3>1, <3>2 DEF PacketInv, NumbersUnique
    <3> QED BY <1>4, <3>3 DEF OrderStep
  <2>3. CASE q.pn \in received[n] /\ u \in unacked[n]
    BY <1>4, <2>1, <2>3 DEF AckedLeave
  <2>4. CASE nextPN[n] <= u.pn
    <3>1. q.frame.largestAcked < nextPN[n]
      BY <1>4, <2>1, PeerType, AcksOnlySentHolds DEF AcksOnlySent
    <3>2. nextPN[n] \in Nat
      BY DEF PacketInv, TypeOK
    <3> QED BY <1>1, <2>4, <3>1, <3>2
  <2> QED BY <1>4, <2>2, <2>3, <2>4 DEF OrderStep
<1> QED BY <1>3, <1>4

\* A new packet, which is no ACK packet, has a number above all others.
LEMMA SendReliableOrder ==
  ASSUME PacketInv, NEW n \in Node, NEW frame \in QueueFrames, NEW fatal \in BOOLEAN,
         SendReliable(n, frame, fatal), UNCHANGED <<handler, received>>
  PROVE  OrderStep(n, {}, {})
<1> DEFINE u == [pn |-> nextPN[n], frame |-> frame]
           packet == Packet(n, nextPN[n], frame)
<1>1. packet.frame.type # "ACK"
  BY DEF Packet, QueueFrames
<1>2. sent' \subseteq sent \cup {packet}
  BY DEF SendReliable
<1>3. \/ unacked' = [unacked EXCEPT ![n] = unacked[n] \cup {u}]
      \/ unacked' = [unacked EXCEPT ![n] = {}]
  BY DEF SendReliable
<1>4. /\ \A m \in Node : m # n => unacked'[m] = unacked[m]
      /\ \A v \in unacked'[n] : v \in unacked[n] \/ v = u
  BY <1>3 DEF PacketInv, TypeOK
<1>5. u.pn = nextPN[n] /\ nextPN[n] \in Nat /\ handler[n].largestAcked \in Int
  BY DEF PacketInv, TypeOK, HandlerState
<1> HIDE DEF u, packet
<1> QED BY <1>1, <1>2, <1>4, <1>5 DEF OrderStep

\* A timer's ACK frame names the handler's largest number.
LEMMA IntervalAckOrder ==
  ASSUME PacketInv, NEW n \in Node, IntervalAck(n)
  PROVE  OrderStep(n, IF HasFrame(handler[n])
                      THEN {Packet(n, nextPN[n], AckFrameOf(handler[n]))} ELSE {}, {})
<1> DEFINE h == handler[n]
           a == Packet(n, nextPN[n], AckFrameOf(h))
           acks == IF HasFrame(h) THEN {a} ELSE {}
<1>1. HandlerInv(h) /\ h.largestAcked \in Int /\ nextPN[n] \in Nat
  BY DEF HandlerInv, PacketInv, TypeOK, HandlersSound, HandlerState
<1>2. h.largestAcked <= AfterFrame(h).largestAcked
  BY <1>1, AfterFrameRises
<1>3. a.from = n /\ a.pn = nextPN[n] /\ a.frame.largestAcked = h.largestAcked
  BY DEF Packet, AckFrameOf
<1>4. /\ sent' = sent \cup acks /\ unacked' = unacked /\ received' = received
      /\ \A m \in Node : handler'[m] = IF m = n THEN AfterFrame(h) ELSE handler[m]
  BY DEF IntervalAck, PacketInv, TypeOK
<1>5. \A p \in acks : p = a
  OBVIOUS
<1>6. OrderStep(n, acks, {})
  <2> HIDE DEF a, acks, h
  <2>1. h = handler[n]
    BY DEF h
  <2> QED BY <1>1, <1>2, <1>3, <1>4, <1>5, <2>1 DEF OrderStep
<1> QED BY <1>6

\* An ACK that is sent at once names the number just received or a larger one,
\* and an ACK frame leaves nothing in the queue up to its largest number.
LEMMA ProcessOrder ==
  ASSUME PacketInv, NEW n \in Node, NEW p \in net, p.from = Peer(n),
         NEW now \in BOOLEAN, NEW rest, Process(n, p, now, rest)
  PROVE  \E acks : OrderStep(n, acks, {p})
<1> DEFINE h == handler[n]
           noted == Ack(h, p.pn, Retransmittable(p.frame))
           a     == Packet(n, nextPN[n], AckFrameOf(noted))
           now2  == now /\ HasFrame(noted)
           base  == IF now2 THEN nextPN[n] + 1 ELSE nextPN[n]
           out   == IF now2 THEN {a} ELSE {}
           after == IF now THEN AfterFrame(noted) ELSE noted
           final == IF p.frame.type = "STOP_WAITING" THEN Lowest(after, LeastUnacked(p))
                    ELSE after
<1>1. /\ p \in sent /\ p.pn \in Nat /\ p.frame \in Frames
      /\ nextPN[n] \in Nat /\ Retransmittable(p.frame) \in BOOLEAN
  BY DEF PacketInv, TypeOK, Packets, Retransmittable
<1>2. /\ received' = [received EXCEPT ![n] = @ \cup {p.pn}]
      /\ handler' = [handler EXCEPT ![n] = final]
      /\ \/ ReceiveReliable(n, p.frame, base, out, rest)
         \/ ReceiveAck(n, p.frame, base, out, rest)
         \/ ReceiveStopWaiting(n, p.frame, base, out, rest)
  BY Zenon DEF Process
<1>3. HandlerInv(h) /\ h.largestAcked \in Int
  BY DEF HandlerInv, PacketInv, TypeOK, HandlersSound, HandlerState
<1>4. /\ HandlerInv(noted) /\ noted.largestAcked \in Int
      /\ h.largestAcked <= noted.largestAcked
  <2> HIDE DEF h
  <2> QED BY <1>1, <1>3, AckSound, LargestRises DEF HandlerInv, HandlerState
<1>5. /\ HandlerInv(after) /\ after.largestAcked \in Int
      /\ noted.largestAcked <= after.largestAcked
  <2> HIDE DEF noted
  <2> QED BY <1>4, AfterFrameSound, AfterFrameRises DEF HandlerInv, HandlerState
<1>6. final.largestAcked = after.largestAcked
  <2>1. p.frame.type = "STOP_WAITING" => LeastUnacked(p) \in Int
    <3>1. p.frame.type = "STOP_WAITING" => p.frame.delta \in Int
      BY <1>1 DEF Frames, AckFrames
    <3>2. Span(p.pn) \in Int
      BY PacketLayerAssumption DEF Span
    <3> QED BY <1>1, <3>1, <3>2 DEF LeastUnacked, SignedRead
  <2> HIDE DEF after
  <2> QED BY <1>5, <2>1, LargestRises
<1>7. a.from = n /\ a.pn = nextPN[n] /\ a.frame.largestAcked = noted.largestAcked
  BY DEF Packet, AckFrameOf
<1>8. /\ \A q \in out : q = a
      /\ base \in Nat /\ nextPN[n] <= base
  BY <1>1
<1>9. /\ \A m \in Node : handler'[m] = IF m = n THEN final ELSE handler[m]
      /\ \A m \in Node : received'[m] = IF m = n THEN received[n] \cup {p.pn} ELSE received[m]
  BY <1>2 DEF PacketInv, TypeOK
<1>10. h = handler[n]
  OBVIOUS
<1> HIDE DEF h, noted, a, base, out, after, final
<1>11. /\ \A q \in out : /\ q.from = n /\ nextPN[n] <= q.pn
                         /\ handler[n].largestAcked <= q.frame.largestAcked
                         /\ q.frame.largestAcked <= handler'[n].largestAcked
       /\ \A q, r \in out : q = r
       /\ handler[n].largestAcked <= handler'[n].largestAcked
  BY <1>1, <1>3, <1>4, <1>5, <1>6, <1>7, <1>8, <1>9, <1>10
<1>12. ASSUME ReceiveReliable(n, p.frame, base, out, rest)
              \/ ReceiveStopWaiting(n, p.frame, base, out, rest)
       PROVE  OrderStep(n, out, {p})
  <2>1. sent' = sent \cup out /\ unacked' = unacked /\ p.frame.type # "ACK"
    BY <1>12 DEF ReceiveReliable, ReceiveStopWaiting
  <2> QED BY <1>1, <1>9, <1>11, <2>1 DEF OrderStep
<1>13. ASSUME ReceiveAck(n, p.frame, base, out, rest)
       PROVE  OrderStep(n, out, {p})
  <2> DEFINE f == p.frame
             unsent == f.largestAcked >= base
             stop   == IF f.missing /\ ~unsent
                       THEN {Packet(n, base, StopWaitingFrame(base, f.largestAcked))}
                       ELSE {}
             first  == IF f.missing /\ ~unsent THEN base + 1 ELSE base
             again  == Renumbered(Lost(unacked[n], f), first)
             resent == {Packet(n, u.pn, u.frame) : u \in again}
  <2>1. /\ f.type = "ACK"
        /\ \/ /\ unacked' = [unacked EXCEPT ![n] = {}]
              /\ sent' = sent \cup (out \cup stop)
           \/ /\ ~unsent
              /\ unacked' = [unacked EXCEPT ![n] = {u \in @ : u.pn > f.largestAcked} \cup again]
              /\ sent' = sent \cup (out \cup stop \cup resent)
    BY <1>13, Zenon DEF ReceiveAck
  <2>2. f.largestAcked \in Int
    BY <1>1, <2>1 DEF Frames, QueueFrames, AckFrames
  <2>3. first \in Nat /\ base <= first
    BY <1>8
  <2>4. \A q \in stop : q.frame.type # "ACK"
    BY DEF Packet, StopWaitingFrame
  <2>5. \A r \in again : r \in [pn : Nat, frame : QueueFrames] /\ first <= r.pn
    <3> DEFINE lost == Lost(unacked[n], f)
    <3>1. /\ IsFiniteSet(unacked[n]) /\ \A u, v \in unacked[n] : u.pn = v.pn => u = v
          /\ \A u \in unacked[n] : u \in [pn : Nat, frame : QueueFrames]
      BY DEF PacketInv, TypeOK, QueueSound
    <3>2. IsFiniteSet(lost) /\ lost \subseteq unacked[n]
      BY <3>1, FS_Subset DEF Lost
    <3> HIDE DEF lost, first
    <3>3. again = Renumbered(lost, first)
      BY DEF lost
    <3>4. \A u \in lost : u \in [pn : Nat, frame : QueueFrames]
      BY <3>1, <3>2
    <3>5. \A u, v \in lost : u.pn = v.pn => u = v
      BY <3>1, <3>2
    <3> HIDE DEF again
    <3> QED BY <2>3, <3>2, <3>3, <3>4, <3>5, RenumberedSound
  <2>6. \A q \in resent : q.frame.type # "ACK"
    BY <2>5 DEF Packet, QueueFrames
  <2>7. /\ \A m \in Node : m # n => unacked'[m] = unacked[m]
        /\ \A u \in unacked'[n] :
             \/ u \in unacked[n] /\ u.pn > f.largestAcked
             \/ u \in again /\ ~unsent
    <3> HIDE DEF again, unsent
    <3> QED BY <2>1 DEF PacketInv, TypeOK
  <2>8. \A u \in unacked'[n] : /\ u \in unacked[n] \/ nextPN[n] <= u.pn
                               /\ f.largestAcked < u.pn
    <3> TAKE u \in unacked'[n]
    <3>1. CASE u \in unacked[n] /\ u.pn > f.largestAcked
      <4>1. u.pn \in Nat
        BY <3>1 DEF PacketInv, TypeOK
      <4> QED BY <2>2, <3>1, <4>1
    <3>2. CASE u \in again /\ ~unsent
      <4>1. u.pn \in Nat /\ first <= u.pn /\ f.largestAcked < base
        BY <1>8, <2>2, <2>5, <3>2
      <4> HIDE DEF first, f
      <4> QED BY <1>1, <1>8, <2>2, <2>3, <4>1
    <3> QED BY <2>7, <3>1, <3>2
  <2>9. \A q \in sent' : q.frame.type = "ACK" => q \in sent \/ q \in out
    <3> HIDE DEF stop, resent, again, f
    <3> QED BY <2>1, <2>4, <2>6
  <2> HIDE DEF stop, first, again, resent, unsent
  <2> QED BY <1>1, <1>9, <1>11, <2>7, <2>8, <2>9 DEF OrderStep
<1> QED BY <1>2, <1>12, <1>13

\* Where neither the ends nor the history change, the order does not.
LEMMA OrderRests ==
  ASSUME AcksRise, AckedLeave, UNCHANGED <<ends, history>>
  PROVE  AcksRise' /\ AckedLeave'
BY DEF ends, history, AcksRise, AckedLeave

\* Every step keeps the order.
LEMMA NextOrder == IInv /\ [Next]_vars => IInv'
<1> SUFFICES ASSUME PacketInv, AcksRise, AckedLeave, [Next]_vars, PacketInv'
             PROVE  AcksRise' /\ AckedLeave'
  BY NextInv DEF IInv
<1>1. ASSUME NEW n \in Node, NEW acks, NEW got, OrderStep(n, acks, got)
      PROVE  AcksRise' /\ AckedLeave'
  BY <1>1, OrderOfAcks, OrderOfQueues
<1>2. ASSUME NEW n \in Node, SendData(n) PROVE AcksRise' /\ AckedLeave'
  <2>1. PICK d \in Data, fatal \in BOOLEAN :
          SendReliable(n, DataFrame(d), fatal) /\ UNCHANGED <<handler, received>>
    BY <1>2 DEF SendData
  <2>2. DataFrame(d) \in QueueFrames
    BY DEF DataFrame, QueueFrames
  <2> QED BY <1>1, <2>1, <2>2, SendReliableOrder
<1>3. ASSUME NEW n \in Node, IntervalAck(n) PROVE AcksRise' /\ AckedLeave'
  BY <1>1, <1>3, IntervalAckOrder
<1>4. ASSUME NEW n \in Node, NEW p \in net, Receive(n, p) PROVE AcksRise' /\ AckedLeave'
  <2>1. PICK now \in BOOLEAN : Arrived(n, p) /\ Process(n, p, now, net \ {p})
    BY <1>4 DEF Receive
  <2> QED BY <1>1, <2>1, ProcessOrder DEF Arrived
<1>5. ASSUME NEW n \in Node, ReceiveDuplicate(n) PROVE AcksRise' /\ AckedLeave'
  <2>1. PICK p \in net, now \in BOOLEAN : Arrived(n, p) /\ Process(n, p, now, net)
    BY <1>5 DEF ReceiveDuplicate
  <2> QED BY <1>1, <2>1, ProcessOrder DEF Arrived
<1>6. ASSUME NEW n \in Node, Ping(n) PROVE AcksRise' /\ AckedLeave'
  <2>1. PingFrame \in QueueFrames
    BY DEF PingFrame, QueueFrames
  <2>2. SendReliable(n, PingFrame, FALSE) /\ UNCHANGED <<handler, received>>
    BY <1>6 DEF Ping
  <2> QED BY <1>1, <2>1, <2>2, SendReliableOrder
<1>7. ASSUME NEW n \in Node, ReceiveLate(n) PROVE AcksRise' /\ AckedLeave'
  BY <1>7, OrderRests DEF ReceiveLate
<1>8. CASE Lose
  BY <1>8, OrderRests DEF Lose
<1>9. CASE UNCHANGED vars
  BY <1>9, OrderRests DEF vars, ends, history
<1> QED BY <1>2, <1>3, <1>4, <1>5, <1>6, <1>7, <1>8, <1>9 DEF Next

-----------------------------------------------------------------------------
(* The theorems                                                            *)

\* The inductive invariant holds in every reachable state.
THEOREM Invariance == Spec => []IInv
<1>1. Init => IInv
  BY InitInv DEF IInv, AcksRise, AckedLeave, Init
<1> QED BY <1>1, NextOrder, PTL DEF Spec

\* The variables of both ends keep their types, the queues of _sendPacket and
\* the lists of ACKHandler included.
THEOREM TypeCorrect == Spec => []TypeOK
<1>1. IInv => TypeOK
  BY DEF IInv, PacketInv
<1> QED BY Invariance, <1>1, PTL

\* toFrame() never reports a packet that its end has not processed.
THEOREM NoFalseAckHolds == Spec => []NoFalseAck
<1>1. IInv => NoFalseAck
  BY DEF IInv, PacketInv, AcksSound, NoFalseAck
<1> QED BY Invariance, <1>1, PTL

\* No number is used for two packets, retransmissions included (_retransmit).
THEOREM NumbersUniqueHolds == Spec => []NumbersUnique
<1>1. IInv => NumbersUnique
  BY DEF IInv, PacketInv
<1> QED BY Invariance, <1>1, PTL

\* _handleACKFrame never destroys a session because of a frame that the other
\* end's toFrame() built.
THEOREM AcksOnlySentAlways == Spec => []AcksOnlySent
<1>1. IInv => AcksOnlySent
  BY AcksOnlySentHolds DEF IInv
<1> QED BY Invariance, <1>1, PTL

\* A frame the peer has not processed is still queued for retransmission.
THEOREM NoLossHolds == Spec => []NoLoss
<1>1. IInv => NoLoss
  BY DEF IInv, PacketInv
<1> QED BY Invariance, <1>1, PTL


\* An ACK frame that comes late or twice makes _retransmit send nothing again.
THEOREM StaleAcksAreHarmless == Spec => []StaleAcksHarmless
<1>1. IInv => StaleAcksHarmless
  <2> SUFFICES ASSUME IInv, NEW n \in Node, NEW q \in sent, NEW p \in sent,
                      q.from = Peer(n), q.frame.type = "ACK", q.pn \in received[n],
                      p.from = Peer(n), p.frame.type = "ACK", p.pn <= q.pn,
                      NEW u \in unacked[n], u.pn <= p.frame.largestAcked
               PROVE  FALSE
    BY DEF StaleAcksHarmless, Lost
  <2>1. p.frame.largestAcked <= q.frame.largestAcked
    BY DEF IInv, AcksRise
  <2>2. q.frame.largestAcked < u.pn
    BY DEF IInv, AckedLeave
  <2>3. u.pn \in Nat /\ p.frame.largestAcked \in Int /\ q.frame.largestAcked \in Int
    BY DEF IInv, PacketInv, TypeOK, Packets, Frames, AckFrames, QueueFrames
  <2> QED BY <2>1, <2>2, <2>3
<1> QED BY Invariance, <1>1, PTL

-----------------------------------------------------------------------------
(* Each end is a SendQueue                                                 *)

\* What a step of SendQueue says of the end n.
EndSends(n) ==
  \E frame \in QueueFrames, fatal \in BOOLEAN :
    LET queue == unacked[n] \cup {[pn |-> nextPN[n], frame |-> frame]}
        over  == fatal /\ Cardinality(queue) > MaxUnacked
    IN /\ nextPN'[n] = nextPN[n] + 1
       /\ unacked'[n] = IF over THEN {} ELSE queue
       /\ destroyed'[n] = over

EndUsesNumber(n) ==
  nextPN'[n] = nextPN[n] + 1 /\ unacked'[n] = unacked[n] /\ destroyed'[n] = destroyed[n]

EndRests(n) ==
  nextPN'[n] = nextPN[n] /\ unacked'[n] = unacked[n] /\ destroyed'[n] = destroyed[n]

EndAckFrames(n) ==
  [largestAcked : 1..(nextPN[n] - 1), acked : SUBSET {u.pn : u \in unacked[n]},
   missing : BOOLEAN]

EndAcknowledges(n, g, base) ==
  LET first == IF g.missing THEN base + 1 ELSE base
      lost  == Lost(unacked[n], g)
  IN IF Overflows(unacked[n], g)
     THEN unacked'[n] = {} /\ nextPN'[n] = first + 1 /\ destroyed'[n] = TRUE
     ELSE /\ unacked'[n] = {u \in unacked[n] : u.pn > g.largestAcked} \cup Renumbered(lost, first)
          /\ nextPN'[n] = first + Cardinality(lost)
          /\ destroyed'[n] = destroyed[n]

EndSteps(n) ==
  /\ ~destroyed[n]
  /\ \/ EndSends(n) \/ EndUsesNumber(n)
     \/ \E g \in EndAckFrames(n), base \in {nextPN[n], nextPN[n] + 1} :
          EndAcknowledges(n, g, base)

\* The callers of _sendPacket queue one more frame.
LEMMA SendReliableStep ==
  ASSUME PacketInv, NEW n \in Node, NEW frame \in QueueFrames, NEW fatal \in BOOLEAN,
         SendReliable(n, frame, fatal), NEW m \in Node
  PROVE  IF m = n THEN EndSteps(m) ELSE EndRests(m)
<1> DEFINE queue == unacked[n] \cup {[pn |-> nextPN[n], frame |-> frame]}
<1>1. /\ ~destroyed[n]
      /\ nextPN' = [nextPN EXCEPT ![n] = @ + 1]
      /\ \/ /\ Cardinality(queue) <= MaxUnacked
            /\ unacked' = [unacked EXCEPT ![n] = queue]
            /\ destroyed' = destroyed
         \/ /\ ~(Cardinality(queue) <= MaxUnacked)
            /\ unacked' = [unacked EXCEPT ![n] = IF fatal THEN {} ELSE queue]
            /\ destroyed' = [destroyed EXCEPT ![n] = fatal]
  BY DEF SendReliable
<1>2. CASE m # n
  BY <1>1, <1>2 DEF EndRests, PacketInv, TypeOK
<1>3. CASE m = n
  <2>1. Cardinality(queue) \in Nat /\ MaxUnacked \in Nat
    <3>1. IsFiniteSet(unacked[n])
      BY DEF PacketInv, QueueSound
    <3>2. IsFiniteSet(queue)
      BY <3>1, FS_AddElement
    <3> QED BY <3>2, FS_CardinalityType, MaxUnackedAssumption
  <2>2. /\ nextPN'[n] = nextPN[n] + 1
        /\ unacked'[n] = IF fatal /\ Cardinality(queue) > MaxUnacked THEN {} ELSE queue
        /\ destroyed'[n] = (fatal /\ Cardinality(queue) > MaxUnacked)
    <3> HIDE DEF queue
    <3>1. CASE Cardinality(queue) <= MaxUnacked
      BY <1>1, <2>1, <3>1 DEF PacketInv, TypeOK
    <3>2. CASE ~(Cardinality(queue) <= MaxUnacked)
      <4>1. Cardinality(queue) > MaxUnacked
        BY <2>1, <3>2
      <4>2. /\ nextPN'[n] = nextPN[n] + 1
            /\ unacked'[n] = IF fatal THEN {} ELSE queue
            /\ destroyed'[n] = fatal
        BY <1>1, <3>2 DEF PacketInv, TypeOK
      <4>3. CASE fatal
        BY <4>1, <4>2, <4>3
      <4>4. CASE ~fatal
        BY <4>1, <4>2, <4>4
      <4> QED BY <4>3, <4>4
    <3> QED BY <3>1, <3>2
  <2>3. EndSends(n)
    BY <2>2 DEF EndSends
  <2> QED BY <1>1, <1>3, <2>3 DEF EndSteps
<1> QED BY <1>2, <1>3

\* The acknowledgement timer takes a number for a packet that it does not queue.
LEMMA IntervalAckStep ==
  ASSUME PacketInv, NEW n \in Node, IntervalAck(n), NEW m \in Node
  PROVE  EndSteps(m) \/ EndRests(m)
BY DEF IntervalAck, EndSteps, EndUsesNumber, EndRests, PacketInv, TypeOK

\* The peer's ACK frame names only numbers in use, so only what it says of
\* the packets in the queue matters.
LEMMA AckFrameStep ==
  ASSUME PacketInv, NEW n \in Node, NEW p \in sent, p.from = Peer(n), p.frame.type = "ACK",
         NEW g, g = [largestAcked |-> p.frame.largestAcked,
                     acked |-> p.frame.acked \cap {u.pn : u \in unacked[n]},
                     missing |-> p.frame.missing]
  PROVE  /\ g \in EndAckFrames(n)
         /\ Lost(unacked[n], g) = Lost(unacked[n], p.frame)
         /\ Overflows(unacked[n], g) = Overflows(unacked[n], p.frame)
<1> DEFINE f == p.frame
<1>1. f \in AckFrames
  BY DEF PacketInv, TypeOK, Packets, Frames
<1>2. PICK q \in sent : q.from = n /\ q.pn = f.largestAcked
  <2>1. f.largestAcked \in received[Peer(n)]
    BY DEF PacketInv, AcksSound
  <2> QED BY <2>1, PeerType DEF PacketInv, ReceivedWereSent
<1>3. f.largestAcked \in 1..(nextPN[n] - 1)
  <2>1. 0 < q.pn /\ q.pn < nextPN[n]
    BY <1>2 DEF PacketInv, NumbersUsed
  <2>2. q.pn \in Nat /\ nextPN[n] \in Nat
    BY DEF PacketInv, TypeOK, Packets
  <2> QED BY <1>2, <2>1, <2>2
<1>4. g \in EndAckFrames(n)
  BY <1>1, <1>3 DEF EndAckFrames, AckFrames
<1>5. \A u \in unacked[n] : u.pn \in g.acked <=> u.pn \in f.acked
  OBVIOUS
<1>6. Lost(unacked[n], g) = Lost(unacked[n], f)
  BY <1>5 DEF Lost
<1>7. ASSUME NEW u
      PROVE  {v \in unacked[n] : ~(v.pn < u.pn /\ v.pn \in g.acked)}
               = {v \in unacked[n] : ~(v.pn < u.pn /\ v.pn \in f.acked)}
  BY <1>5
<1>8. Overflows(unacked[n], g) = Overflows(unacked[n], f)
  BY <1>6, <1>7 DEF Overflows
<1> QED BY <1>4, <1>6, <1>8

\* A packet from the peer takes at most one number before its frame is
\* handled, and an ACK frame does to the queue what SendQueue says.
LEMMA ProcessStep ==
  ASSUME PacketInv, NEW n \in Node, NEW p \in net, p.from = Peer(n), ~destroyed[n],
         NEW now \in BOOLEAN, NEW rest, Process(n, p, now, rest), NEW m \in Node
  PROVE  EndSteps(m) \/ EndRests(m)
<1> DEFINE acks  == now /\ HasFrame(Ack(handler[n], p.pn, Retransmittable(p.frame)))
           base  == IF acks THEN nextPN[n] + 1 ELSE nextPN[n]
           out   == IF acks THEN {Packet(n, nextPN[n],
                                    AckFrameOf(Ack(handler[n], p.pn, Retransmittable(p.frame))))}
                    ELSE {}
<1>1. \/ ReceiveReliable(n, p.frame, base, out, rest)
      \/ ReceiveAck(n, p.frame, base, out, rest)
      \/ ReceiveStopWaiting(n, p.frame, base, out, rest)
  BY Zenon DEF Process
<1>2. base \in {nextPN[n], nextPN[n] + 1}
  OBVIOUS
<1>3. p \in sent /\ nextPN[n] \in Nat
  BY DEF PacketInv, TypeOK
<1> HIDE DEF base, out
<1>4. CASE \/ ReceiveReliable(n, p.frame, base, out, rest)
           \/ ReceiveStopWaiting(n, p.frame, base, out, rest)
  <2>1. nextPN' = [nextPN EXCEPT ![n] = base] /\ unacked' = unacked /\ destroyed' = destroyed
    BY <1>4 DEF ReceiveReliable, ReceiveStopWaiting
  <2> QED BY <1>2, <2>1 DEF EndSteps, EndUsesNumber, EndRests, PacketInv, TypeOK
<1>5. CASE ReceiveAck(n, p.frame, base, out, rest)
  <2> DEFINE f == p.frame
             first == IF f.missing THEN base + 1 ELSE base
             lost == Lost(unacked[n], f)
             g == [largestAcked |-> f.largestAcked,
                   acked |-> f.acked \cap {u.pn : u \in unacked[n]},
                   missing |-> f.missing]
  <2>1. f.type = "ACK"
    BY <1>5 DEF ReceiveAck
  <2>2. /\ g \in EndAckFrames(n)
        /\ Lost(unacked[n], g) = lost
        /\ Overflows(unacked[n], g) = Overflows(unacked[n], f)
    BY <1>3, <2>1, AckFrameStep
  <2>3. ~(f.largestAcked >= base)
    BY <1>2, <1>3, <2>2 DEF EndAckFrames
  <2>4. IF Overflows(unacked[n], f)
        THEN /\ unacked' = [unacked EXCEPT ![n] = {}]
             /\ nextPN' = [nextPN EXCEPT ![n] = first + 1]
             /\ destroyed' = [destroyed EXCEPT ![n] = TRUE]
        ELSE /\ unacked' = [unacked EXCEPT ![n] =
                  {u \in @ : u.pn > f.largestAcked} \cup Renumbered(lost, first)]
             /\ nextPN' = [nextPN EXCEPT ![n] = first + Cardinality(lost)]
             /\ destroyed' = destroyed
    BY <1>5, <2>3, Zenon DEF ReceiveAck
  <2>5. CASE m = n
    <3>1. IF Overflows(unacked[n], f)
          THEN unacked'[n] = {} /\ nextPN'[n] = first + 1 /\ destroyed'[n] = TRUE
          ELSE /\ unacked'[n] = {u \in unacked[n] : u.pn > f.largestAcked}
                                  \cup Renumbered(lost, first)
               /\ nextPN'[n] = first + Cardinality(lost)
               /\ destroyed'[n] = destroyed[n]
      <4> HIDE DEF first, lost
      <4> QED BY <2>4 DEF PacketInv, TypeOK
    <3>2. g.missing = f.missing /\ g.largestAcked = f.largestAcked
      OBVIOUS
    <3> HIDE DEF g
    <3>3. EndAcknowledges(n, g, base)
      BY <2>2, <3>1, <3>2 DEF EndAcknowledges
    <3> QED BY <1>2, <2>2, <2>5, <3>3 DEF EndSteps
  <2>6. CASE m # n
    <3> HIDE DEF first, lost, f
    <3> QED BY <2>4, <2>6 DEF EndRests, PacketInv, TypeOK
  <2> QED BY <2>5, <2>6
<1> QED BY <1>1, <1>4, <1>5

\* Whatever happens, each end takes a step of a SendQueue or none.
LEMMA EndsStep ==
  ASSUME PacketInv, [Next]_vars, NEW m \in Node
  PROVE  EndSteps(m) \/ EndRests(m)
<1>1. ASSUME NEW n \in Node, SendData(n) PROVE EndSteps(m) \/ EndRests(m)
  <2>1. PICK d \in Data, fatal \in BOOLEAN : SendReliable(n, DataFrame(d), fatal)
    BY <1>1 DEF SendData
  <2>2. DataFrame(d) \in QueueFrames
    BY DEF DataFrame, QueueFrames
  <2> QED BY <2>1, <2>2, SendReliableStep
<1>2. ASSUME NEW n \in Node, IntervalAck(n) PROVE EndSteps(m) \/ EndRests(m)
  BY <1>2, IntervalAckStep
<1>3. ASSUME NEW n \in Node, NEW p \in net, Receive(n, p) PROVE EndSteps(m) \/ EndRests(m)
  <2>1. PICK now \in BOOLEAN : Arrived(n, p) /\ Process(n, p, now, net \ {p})
    BY <1>3 DEF Receive
  <2> QED BY <2>1, ProcessStep DEF Arrived
<1>4. ASSUME NEW n \in Node, ReceiveDuplicate(n) PROVE EndSteps(m) \/ EndRests(m)
  <2>1. PICK p \in net, now \in BOOLEAN : Arrived(n, p) /\ Process(n, p, now, net)
    BY <1>4 DEF ReceiveDuplicate
  <2> QED BY <2>1, ProcessStep DEF Arrived
<1>5. ASSUME NEW n \in Node, Ping(n) PROVE EndSteps(m) \/ EndRests(m)
  <2>1. PingFrame \in QueueFrames
    BY DEF PingFrame, QueueFrames
  <2>2. SendReliable(n, PingFrame, FALSE)
    BY <1>5 DEF Ping
  <2> QED BY <2>1, <2>2, SendReliableStep
<1>6. ASSUME NEW n \in Node, ReceiveLate(n) PROVE EndRests(m)
  BY <1>6 DEF ReceiveLate, ends, EndRests
<1>7. CASE Lose
  BY <1>7 DEF Lose, ends, EndRests
<1>8. CASE UNCHANGED vars
  BY <1>8 DEF vars, EndRests
<1> QED BY <1>1, <1>2, <1>3, <1>4, <1>5, <1>6, <1>7, <1>8 DEF Next

\* SendQueue counts as this module does.
LEMMA SameCardinality ==
  \A S : ClientEnd!Cardinality(S) = Cardinality(S) /\ ServerEnd!Cardinality(S) = Cardinality(S)
BY DEF ClientEnd!Cardinality, ServerEnd!Cardinality, Cardinality

LEMMA ClientOperators ==
  /\ \A queue, f : ClientEnd!Lost(queue, f) = Lost(queue, f)
  /\ \A queue, f : ClientEnd!Overflows(queue, f) <=> Overflows(queue, f)
  /\ \A lost, base : ClientEnd!Renumbered(lost, base) = Renumbered(lost, base)
<1>1. \A queue, f : ClientEnd!Lost(queue, f) = Lost(queue, f)
  BY DEF ClientEnd!Lost, Lost
<1>2. \A queue, f : ClientEnd!Overflows(queue, f) <=> Overflows(queue, f)
  BY <1>1, SameCardinality DEF ClientEnd!Overflows, Overflows
<1>3. \A lost, base : ClientEnd!Renumbered(lost, base) = Renumbered(lost, base)
  BY SameCardinality DEF ClientEnd!Renumbered, Renumbered
<1> QED BY <1>1, <1>2, <1>3

LEMMA ServerOperators ==
  /\ \A queue, f : ServerEnd!Lost(queue, f) = Lost(queue, f)
  /\ \A queue, f : ServerEnd!Overflows(queue, f) <=> Overflows(queue, f)
  /\ \A lost, base : ServerEnd!Renumbered(lost, base) = Renumbered(lost, base)
<1>1. \A queue, f : ServerEnd!Lost(queue, f) = Lost(queue, f)
  BY DEF ServerEnd!Lost, Lost
<1>2. \A queue, f : ServerEnd!Overflows(queue, f) <=> Overflows(queue, f)
  BY <1>1, SameCardinality DEF ServerEnd!Overflows, Overflows
<1>3. \A lost, base : ServerEnd!Renumbered(lost, base) = Renumbered(lost, base)
  BY SameCardinality DEF ServerEnd!Renumbered, Renumbered
<1> QED BY <1>1, <1>2, <1>3

LEMMA ClientStep ==
  ASSUME EndSteps(Client) \/ EndRests(Client)
  PROVE  [ClientEnd!Next]_(ClientEnd!vars)
<1>1. CASE EndRests(Client)
  BY <1>1 DEF EndRests, ClientEnd!vars
<1>2. CASE ~destroyed[Client] /\ EndSends(Client)
  <2>1. ClientEnd!Send
    BY <1>2, SameCardinality DEF EndSends, ClientEnd!Send
  <2> QED BY <1>2, <2>1 DEF ClientEnd!Next
<1>3. CASE ~destroyed[Client] /\ EndUsesNumber(Client)
  BY <1>3 DEF EndUsesNumber, ClientEnd!UseNumber, ClientEnd!Next
<1>4. ASSUME NEW g \in EndAckFrames(Client),
             NEW base \in {nextPN[Client], nextPN[Client] + 1},
             EndAcknowledges(Client, g, base), ~destroyed[Client]
      PROVE  ClientEnd!Next
  <2>1. g \in ClientEnd!AckFrames
    BY DEF EndAckFrames, ClientEnd!AckFrames
  <2>2. ClientEnd!Acknowledge(g)
    BY <1>4, ClientOperators, SameCardinality DEF EndAcknowledges, ClientEnd!Acknowledge
  <2> QED BY <1>4, <2>1, <2>2 DEF ClientEnd!Next
<1> QED BY <1>1, <1>2, <1>3, <1>4 DEF EndSteps

LEMMA ServerStep ==
  ASSUME EndSteps(Server) \/ EndRests(Server)
  PROVE  [ServerEnd!Next]_(ServerEnd!vars)
<1>1. CASE EndRests(Server)
  BY <1>1 DEF EndRests, ServerEnd!vars
<1>2. CASE ~destroyed[Server] /\ EndSends(Server)
  <2>1. ServerEnd!Send
    BY <1>2, SameCardinality DEF EndSends, ServerEnd!Send
  <2> QED BY <1>2, <2>1 DEF ServerEnd!Next
<1>3. CASE ~destroyed[Server] /\ EndUsesNumber(Server)
  BY <1>3 DEF EndUsesNumber, ServerEnd!UseNumber, ServerEnd!Next
<1>4. ASSUME NEW g \in EndAckFrames(Server),
             NEW base \in {nextPN[Server], nextPN[Server] + 1},
             EndAcknowledges(Server, g, base), ~destroyed[Server]
      PROVE  ServerEnd!Next
  <2>1. g \in ServerEnd!AckFrames
    BY DEF EndAckFrames, ServerEnd!AckFrames
  <2>2. ServerEnd!Acknowledge(g)
    BY <1>4, ServerOperators, SameCardinality DEF EndAcknowledges, ServerEnd!Acknowledge
  <2> QED BY <1>4, <2>1, <2>2 DEF ServerEnd!Next
<1> QED BY <1>1, <1>2, <1>3, <1>4 DEF EndSteps

\* Both ends keep the packets they have sent as SendQueue promises, whatever
\* the network loses, repeats and reorders: sending takes the next number,
\* an ACK frame is worked off at once (_sendPacket, _handleACKFrame,
\* _retransmit).
THEOREM EndsImplementSendQueue == Spec => EndsAreSendQueues
<1>1. Init => ClientEnd!Init /\ ServerEnd!Init
  BY DEF Init, Node, ClientEnd!Init, ServerEnd!Init
<1>2. IInv /\ [Next]_vars => [ClientEnd!Next]_(ClientEnd!vars)
  <2>1. Client \in Node
    BY DEF Node
  <2> QED BY <2>1, EndsStep, ClientStep DEF IInv
<1>3. IInv /\ [Next]_vars => [ServerEnd!Next]_(ServerEnd!vars)
  <2>1. Server \in Node
    BY DEF Node
  <2> QED BY <2>1, EndsStep, ServerStep DEF IInv
<1> QED BY <1>1, <1>2, <1>3, Invariance, PTL
        DEF Spec, EndsAreSendQueues, ClientEnd!Spec, ServerEnd!Spec
=============================================================================
