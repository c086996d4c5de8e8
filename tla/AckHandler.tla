----------------------------- MODULE AckHandler -----------------------------
(***************************************************************************)
(* The receiving half of the packet layer: class ACKHandler of             *)
(* src/src/session.ts.  Pure operators over one handler's state, used by   *)
(* PacketLayer.                                                            *)
(*                                                                         *)
(* numbersAcked is an array that the code sorts and scans for maximal runs *)
(* and in which duplicates are skipped, so it is a SET here.  misshit, the *)
(* time stamps and the length test of ack() only decide WHEN an            *)
(* acknowledgement is due: that is a free choice (MayAckNow).              *)
(***************************************************************************)
EXTENDS Integers, FiniteSets

CONSTANT MaxAckRanges    \* 0xff in numWritableNackRanges(): ranges of an ACK frame

ASSUME AckRangesAssumption == MaxAckRanges \in Nat /\ MaxAckRanges >= 2

HandlerState == [lowestAcked : Int, largestAcked : Int, numbersAcked : SUBSET Int]

NewACKHandler == [lowestAcked |-> 0, largestAcked |-> 0, numbersAcked |-> {}]

\* lowest(): STOP_WAITING raises the low-water mark and never lowers it.
Lowest(h, pn) ==
  IF pn > h.lowestAcked THEN [h EXCEPT !.lowestAcked = pn] ELSE h

\* Mutant: the last number to arrive is taken for the largest.
LargestLast(h, pn) == pn

LargestAfter(h, pn) == IF pn > h.largestAcked THEN pn ELSE h.largestAcked

\* Packets that carry nothing to acknowledge are absorbed silently when they
\* leave no gap above the low-water mark.
Absorbs(h, pn, needAck) ==
  ~needAck /\ LargestAfter(h, pn) - h.lowestAcked <= 1

\* ack(): the handler's state after packet pn arrived.
Ack(h, pn, needAck) ==
  IF pn < h.lowestAcked THEN h
  ELSE LET largest == LargestAfter(h, pn)
       IN IF Absorbs(h, pn, needAck)
          THEN [lowestAcked |-> largest, largestAcked |-> largest, numbersAcked |-> {pn}]
          ELSE [lowestAcked |-> h.lowestAcked, largestAcked |-> largest,
                numbersAcked |-> h.numbersAcked \cup {pn}]

\* ack() may return true: 512 ms since the last ACK, 17 misses or 511 numbers.
MayAckNow(h, pn, needAck) == pn >= h.lowestAcked /\ ~Absorbs(h, pn, needAck)

-----------------------------------------------------------------------------
(* toFrame(): HasFrame(h) tells whether it returns a frame, AckFrameOf(h)  *)
(* is that frame and AfterFrame(h) the handler it leaves behind.           *)

HasFrame(h) == \E n \in h.numbersAcked : n > h.lowestAcked

Kept(h) == {n \in h.numbersAcked : n >= h.lowestAcked}

\* The first number of each maximal run of S.
RunStarts(S) == {n \in S : n - 1 \notin S}

Contiguous(S) == Cardinality(RunStarts(S)) = 1

\* Runs are numbered from the highest, which is 0.
RunIndex(S, n) == Cardinality({m \in RunStarts(S) : m > n})

\* Mutant: a truncated or broken frame is one range from end to end.
ReportedFilled(S) == {n \in 0..Cardinality(S) + 8 : \E i, j \in S : i <= n /\ n <= j}

\* Of more runs than MaxAckRanges only the highest get onto the wire.  A gap
\* of more than 255 numbers, of which PacketLayer has none, takes the room of
\* several runs: see AckWire.
Reported(S) == {n \in S : RunIndex(S, n) < MaxAckRanges}

\* Mutant: the frame names the next number as the largest.
AckFrameOneMore(h) ==
  [type |-> "ACK", largestAcked |-> h.largestAcked + 1,
   acked |-> Reported(Kept(h)), missing |-> ~Contiguous(Kept(h))]

AckFrameOf(h) ==
  [type         |-> "ACK",
   largestAcked |-> h.largestAcked,
   acked        |-> Reported(Kept(h)),          \* acksPacket(n) <=> n \in acked
   missing      |-> ~Contiguous(Kept(h))]       \* hasMissingRanges()

AfterFrame(h) ==
  LET Left(lowest, largest, numbers) ==
        [lowestAcked |-> lowest, largestAcked |-> largest, numbersAcked |-> numbers]
  IN IF h.numbersAcked = {} THEN h
     ELSE IF ~HasFrame(h) THEN Left(h.lowestAcked, h.lowestAcked, {})
     ELSE IF Contiguous(Kept(h)) THEN Left(h.largestAcked, h.largestAcked, {h.largestAcked})
     ELSE Left(h.lowestAcked, h.largestAcked, Kept(h))
=============================================================================
