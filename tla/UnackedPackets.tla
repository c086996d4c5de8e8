---------------------------- MODULE UnackedPackets ----------------------------
(***************************************************************************)
(* What an ACK frame does to the queue of packets that wait for their      *)
(* acknowledgement (kUnackedPackets), seen as one step: operators over a   *)
(* queue that is the set of its packets [pn, frame], in the order of pn.   *)
(* PacketLayer takes this step at once; Retransmission, which runs the     *)
(* loop of _retransmit packet by packet, is shown to come to the same.     *)
(***************************************************************************)
EXTENDS Integers, FiniteSets

CONSTANT MaxUnacked      \* 4096 in _sendPacket

ASSUME MaxUnackedAssumption == MaxUnacked \in Nat

\* Mutant: what lies below the lowest range of an ACK frame is taken to have
\* arrived.
LostInside(queue, f) ==
  {u \in queue : /\ u.pn <= f.largestAcked /\ u.pn \notin f.acked
                 /\ \E a \in f.acked : a < u.pn}

\* The packets an ACK frame f shows to be missing are sent again in order,
\* under fresh numbers that start at base.
Lost(queue, f) == {u \in queue : u.pn <= f.largestAcked /\ u.pn \notin f.acked}

\* Mutant: the number is not stepped between two retransmissions.
RenumberedAlike(lost, base) == {[pn |-> base, frame |-> u.frame] : u \in lost}

\* Mutant: packets are sent again under the numbers they had.
RenumberedNot(lost, base) == lost

Renumbered(lost, base) ==
  {[pn    |-> base + Cardinality({v \in lost : v.pn < u.pn}),
    frame |-> u.frame] : u \in lost}

\* A retransmitted packet is pushed again: the queue is too long for that when
\* it was overfull before and the acknowledged packets ahead do not make room.
Overflows(queue, f) ==
  \E u \in Lost(queue, f) :
    Cardinality({v \in queue : ~(v.pn < u.pn /\ v.pn \in f.acked)}) > MaxUnacked
=============================================================================
