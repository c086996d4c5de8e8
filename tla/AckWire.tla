------------------------------- MODULE AckWire -------------------------------
(***************************************************************************)
(* An ACK frame on its way from toFrame() to the peer: class AckFrame of   *)
(* src/src/internal/frame.ts.  Its ranges are written as blocks, each the  *)
(* numbers it skips below the range before and the length of its range.  A *)
(* gap too long for a byte becomes several blocks, all but the last of     *)
(* length 0.  Only the meaning of the fields is kept: the lengths are      *)
(* written in as many bytes as the longest of them needs.                  *)
(***************************************************************************)
EXTENDS AckHandler, SequencesExt

CONSTANT MaxGap      \* 0xff in writeTo(): numbers that one block can skip

ASSUME MaxGapAssumption == MaxGap \in Nat \ {0}

\* What ack(), lowest() and toFrame() keep of a handler: its largest number is
\* one of the list unless nothing above the low-water mark is left in it.
HandlerSound(h) ==
  /\ h \in HandlerState /\ h.lowestAcked >= 0 /\ h.largestAcked >= 0
  /\ \A n \in h.numbersAcked : 0 < n /\ n <= h.largestAcked
  /\ h.largestAcked \in h.numbersAcked \/ h.largestAcked <= h.lowestAcked

AckRange(first, last) == [first |-> first, last |-> last]
RangeLen(r) == r.last - r.first + 1

\* The i-th highest maximal run of S, and all of them as the loop of toFrame()
\* finds them.
RunOf(S, i) ==
  LET start == CHOOSE n \in RunStarts(S) : RunIndex(S, n) = i - 1
  IN AckRange(start, Max({n \in S : start..n \subseteq S}))

RangesOf(S) == [i \in 1..Cardinality(RunStarts(S)) |-> RunOf(S, i)]

\* toFrame() keeps 256 ranges, one more than the wire holds, the last for the
\* lowest one.
CutRanges(ranges) ==
  IF Len(ranges) > MaxAckRanges + 1
  THEN Append(SubSeq(ranges, 1, MaxAckRanges), Last(ranges))
  ELSE ranges

ToFrame(h) ==
  [largestAcked |-> h.largestAcked,
   lowestAcked  |-> Min(Kept(h)),
   ackRanges    |-> IF Contiguous(Kept(h)) THEN <<>> ELSE CutRanges(RangesOf(Kept(h)))]

-----------------------------------------------------------------------------
(* Writing                                                                 *)

\* The numbers missing below the i-th range.
Gap(ranges, i) == ranges[i].first - ranges[i + 1].last - 1

NoLongGap(ranges) == \A i \in 1..Len(ranges) - 1 : Gap(ranges, i) <= MaxGap

BlocksFor(gap) ==
  IF gap % MaxGap = 0 THEN gap \div MaxGap ELSE gap \div MaxGap + 1

\* How many blocks the first k gaps take.
BlockCount(ranges) ==
  LET count[k \in 0..Len(ranges) - 1] ==
        IF k = 0 THEN 0 ELSE count[k - 1] + BlocksFor(Gap(ranges, k))
  IN count

\* numWritableNackRanges(): ranges are written as long as their blocks fit.
\* This is the number of them behind the first.
Writable(ranges) ==
  Max({k \in 0..Len(ranges) - 1 : BlockCount(ranges)[k] < MaxAckRanges})

\* Mutant: the rest of a long gap is its remainder, 0 for a multiple of MaxGap.
BlocksRemainder(gap, length) ==
  LET n == BlocksFor(gap)
  IN [j \in 1..n |-> IF j < n THEN [gap |-> MaxGap, length |-> 0]
                     ELSE [gap |-> gap % MaxGap, length |-> length]]

Blocks(gap, length) ==
  LET n == BlocksFor(gap)
  IN [j \in 1..n |-> IF j < n THEN [gap |-> MaxGap, length |-> 0]
                     ELSE [gap |-> 1 + ((gap - 1) % MaxGap), length |-> length]]

\* The blocks of the first k gaps and of the ranges below them.
Written(ranges) ==
  LET written[k \in 0..Len(ranges) - 1] ==
        IF k = 0 THEN <<>>
        ELSE written[k - 1] \o Blocks(Gap(ranges, k), RangeLen(ranges[k + 1]))
  IN written

\* writeTo() writes the second range before it looks at the number of ranges,
\* and throws ("Inconsistent number of ACK ranges written") when that one
\* alone, after more than 254 * 255 missing numbers, has too many blocks.
WriteThrows(f) == f.ackRanges # <<>> /\ Writable(f.ackRanges) = 0

WriteTo(f) ==
  LET ranges == f.ackRanges
  IN IF ranges = <<>>
     THEN [largestAcked |-> f.largestAcked, missing |-> FALSE,
           length |-> f.largestAcked - f.lowestAcked + 1, blocks |-> <<>>]
     ELSE [largestAcked |-> f.largestAcked, missing |-> TRUE,
           length |-> RangeLen(ranges[1]), blocks |-> Written(ranges)[Writable(ranges)]]

-----------------------------------------------------------------------------
(* Reading                                                                 *)

\* Mutant: the block that ends a long gap starts a range of its own.
ReadBlockApart(state, block) ==
  LET last  == state.ranges[Len(state.ranges)].first - block.gap - 1
  IN [ranges   |-> Append(state.ranges, AckRange(last - block.length + 1, last)),
      inLong   |-> block.length = 0,
      complete |-> block.length > 0]

\* One round of the loop of fromBuffer().  A block of length 0 leaves a range
\* that the next block moves further down.
ReadBlock(state, block) ==
  LET before == state.ranges[Len(state.ranges)]
      next   == before.first - block.gap - 1
      moved  == AckRange(before.first - block.gap - block.length, before.last - block.gap)
  IN [ranges   |-> IF state.inLong
                   THEN [state.ranges EXCEPT ![Len(state.ranges)] = moved]
                   ELSE Append(state.ranges, AckRange(next - block.length + 1, next)),
      inLong   |-> block.length = 0,
      complete |-> block.length > 0 \/ (state.inLong /\ state.complete)]

\* The loop after each block of w.
Reading(w) ==
  LET first == AckRange(w.largestAcked - w.length + 1, w.largestAcked)
      state[j \in 0..Len(w.blocks)] ==
        IF j = 0 THEN [ranges |-> <<first>>, inLong |-> FALSE, complete |-> FALSE]
        ELSE ReadBlock(state[j - 1], w.blocks[j])
  IN state

\* fromBuffer(): the ranges of a frame as its receiver sees them, without a
\* last one that is not complete.
ReadRanges(w) ==
  LET read == Reading(w)[Len(w.blocks)]
  IN IF w.missing /\ ~read.complete THEN Front(read.ranges) ELSE read.ranges

\* fromBuffer() throws for a frame whose first block is too short or too long,
\* that lacks the blocks it announces, or that fails validateAckRanges().
ValidRanges(w) ==
  LET ranges == ReadRanges(w)
  IN /\ w.length <= w.largestAcked /\ (w.largestAcked > 0 => w.length > 0)
     /\ w.missing =>
          /\ w.blocks # <<>> /\ Len(ranges) > 1
          /\ \A i \in 1..Len(ranges) : 0 < ranges[i].first /\ ranges[i].first <= ranges[i].last
          /\ \A i \in 2..Len(ranges) : ranges[i].last + 1 < ranges[i - 1].first

\* The frame read, in the form that AckHandler gives it: acksPacket(n) is
\* n \in acked.
FromBuffer(w) ==
  [type |-> "ACK", largestAcked |-> w.largestAcked, missing |-> w.missing,
   acked |-> UNION {r.first..r.last : r \in Range(ReadRanges(w))}]
=============================================================================
