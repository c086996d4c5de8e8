---------------------------- MODULE MCPacketLayer ----------------------------
(* Instances of PacketLayer for TLC. *)
EXTENDS PacketLayer, TLC

CONSTANTS d1, d2, d3, d4, d5, d6

OwnersClient == [d \in Data |-> Client]

Symmetric == Permutations(Data)

\* Bound: the last packet number is for runs without repeated datagrams and
\* with reliable frames of one end only.
RepeatsWithFewerNumbers ==
  \/ dups = 0 /\ \A p \in Pings : p.from = Client
  \/ \A n \in Node : nextPN[n] < MaxPacketNumber
=============================================================================
