------------------------------ MODULE SendQueue ------------------------------
(***************************************************************************)
(* What a session promises of the packets it has sent: a packet waits in a *)
(* queue until an ACK frame names its number, and one that an ACK frame    *)
(* passes over is sent again under a new number, all of that at once.      *)
(* This is the view that PacketLayer takes of one end; Retransmission      *)
(* implements it.                                                          *)
(***************************************************************************)
EXTENDS UnackedPackets

CONSTANT Frame        \* the frames that must be acknowledged

VARIABLES unacked, nextPN, destroyed

vars == <<unacked, nextPN, destroyed>>

Init == unacked = {} /\ nextPN = 1 /\ destroyed = FALSE

Send ==
  \E frame \in Frame, fatal \in BOOLEAN :
    LET queue == unacked \cup {[pn |-> nextPN, frame |-> frame]}
        over  == fatal /\ Cardinality(queue) > MaxUnacked
    IN /\ nextPN' = nextPN + 1
       /\ unacked' = IF over THEN {} ELSE queue
       /\ destroyed' = over

\* ACK and STOP_WAITING packets take numbers and are not sent again.
UseNumber == nextPN' = nextPN + 1 /\ UNCHANGED <<unacked, destroyed>>

\* An ACK frame f, in a packet that may itself be acknowledged at once, which
\* takes a number; a frame that reports missing packets is answered with
\* STOP_WAITING first, which takes another.
Acknowledge(f) ==
  \E base \in {nextPN, nextPN + 1} :
    LET first == IF f.missing THEN base + 1 ELSE base
        lost  == Lost(unacked, f)
    IN IF Overflows(unacked, f)
       THEN unacked' = {} /\ nextPN' = first + 1 /\ destroyed' = TRUE
       ELSE /\ unacked' = {u \in unacked : u.pn > f.largestAcked} \cup Renumbered(lost, first)
            /\ nextPN' = first + Cardinality(lost)
            /\ UNCHANGED destroyed

\* The frames that differ for the queue.
AckFrames ==
  [largestAcked : 1..(nextPN - 1), acked : SUBSET {u.pn : u \in unacked}, missing : BOOLEAN]

Next ==
  /\ ~destroyed
  /\ Send \/ UseNumber \/ \E f \in AckFrames : Acknowledge(f)

Spec == Init /\ [][Next]_vars
=============================================================================
