-------------------------- MODULE MCStreamTransfer --------------------------
(* Instances of StreamTransfer for TLC. *)
EXTENDS StreamTransfer

CONSTANTS s1, s2

Bursts == [s \in Streams |-> {5, 9, 15}]
=============================================================================
