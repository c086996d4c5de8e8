------------------------------ MODULE BytePipe ------------------------------
(***************************************************************************)
(* What one direction of a stream promises: the bytes the reader gets are  *)
(* the bytes the writer gave, in order, none twice and none left out, and  *)
(* the end of the stream comes after the last of them.                     *)
(*                                                                         *)
(* The bytes of a stream are numbered 1, 2, 3, ... as they are accepted.   *)
(***************************************************************************)
EXTENDS Naturals, Sequences

CONSTANT Streams

VARIABLES
  accepted,   \* bytes taken from the writer
  closed,     \* the writer will give no more
  output,     \* the bytes handed to the reader
  ended       \* the reader was told that there are no more

vars == <<accepted, closed, output, ended>>

Init ==
  /\ accepted = [s \in Streams |-> 0]
  /\ closed = [s \in Streams |-> FALSE]
  /\ output = [s \in Streams |-> <<>>]
  /\ ended = [s \in Streams |-> FALSE]

Accept(s) ==
  /\ ~closed[s]
  /\ accepted'[s] > accepted[s]
  /\ accepted' = [accepted EXCEPT ![s] = accepted'[s]]
  /\ UNCHANGED <<closed, output, ended>>

Close(s) ==
  /\ ~closed[s]
  /\ closed' = [closed EXCEPT ![s] = TRUE]
  /\ UNCHANGED <<accepted, output, ended>>

\* The reader gets more bytes, the end of the stream, or both.
Deliver(s) ==
  /\ ~ended[s]
  /\ \E n \in Len(output[s])..accepted[s] :
       output' = [output EXCEPT ![s] = [i \in 1..n |-> i]]
  /\ ended'[s] => closed[s] /\ Len(output'[s]) = accepted[s]
  /\ ended' = [ended EXCEPT ![s] = ended'[s]]
  /\ UNCHANGED <<accepted, closed>>

Next == \E s \in Streams : Accept(s) \/ Close(s) \/ Deliver(s)

Spec == Init /\ [][Next]_vars
=============================================================================
