----------------------------- MODULE PacketQueue -----------------------------
(***************************************************************************)
(* Class Queue of src/src/internal/common.ts, in which a session keeps its *)
(* unacknowledged packets: operators over a queue made of two arrays.  New *)
(* items go to the end of tail, old ones are taken from head, in which     *)
(* offset items have been taken already; when head is used up the arrays   *)
(* change places.  pop, unshift and migrateTo are not called by anything.  *)
(***************************************************************************)
EXTENDS Integers, Sequences

EmptyQueue == [tail |-> <<>>, head |-> <<>>, offset |-> 0, hLength |-> 0]

Length(q) == q.hLength + Len(q.tail) - q.offset

\* first(): undefined for an empty queue, which its callers test.
First(q) == IF q.hLength = q.offset THEN q.tail[1] ELSE q.head[q.offset + 1]

Push(q, item) == [q EXCEPT !.tail = Append(@, item)]

\* Mutant: the offset is not reset when the arrays change places.
ShiftStale(q) ==
  IF q.offset = q.hLength
  THEN [tail |-> <<>>, head |-> q.tail, offset |-> q.offset + 1, hLength |-> Len(q.tail)]
  ELSE [q EXCEPT !.offset = @ + 1]

\* shift(), for a queue that is not empty: what it leaves behind.  The item it
\* returns is First.
Shift(q) ==
  IF q.offset = q.hLength
  THEN [tail |-> <<>>, head |-> q.tail, offset |-> 1, hLength |-> Len(q.tail)]
  ELSE [q EXCEPT !.offset = @ + 1]

\* reset()
Reset(q) == EmptyQueue

\* What the queue holds, in order.
Items(q) == SubSeq(q.head, q.offset + 1, q.hLength) \o q.tail

\* What its operations keep up between the two arrays.
WellFormed(q) == q.hLength = Len(q.head) /\ q.offset \in 0..q.hLength

\* The queues with items of S.
Queues(S) ==
  {q \in [tail : Seq(S), head : Seq(S), offset : Nat, hLength : Nat] : WellFormed(q)}
=============================================================================
