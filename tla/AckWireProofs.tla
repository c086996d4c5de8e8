---------------------------- MODULE AckWireProofs ----------------------------
(***************************************************************************)
(* What the peer reads from an ACK frame is what toFrame() has put into    *)
(* it, for every set of numbers, limit of ranges and length of a gap: the  *)
(* proofs about AckHandler and AckWire.                                    *)
(***************************************************************************)
EXTENDS AckWire, FiniteSetTheorems, SequenceTheorems, WellFoundedInduction, TLAPS

-----------------------------------------------------------------------------
(* Numbers                                                                 *)

\* Every set of numbers has a least one.
LEMMA LeastNumber ==
  ASSUME NEW S \in SUBSET Nat, S # {}
  PROVE  \E least \in S : \A n \in S : least <= n
<1> DEFINE R == OpToRel(<, Nat)
<1>1. IsWellFoundedOn(R, Nat)
  BY NatLessThanWellFounded
<1>2. \E x \in S : \A y \in S : ~ (<<y, x>> \in R)
  <2> HIDE DEF R
  <2> QED
    BY <1>1, WFMin
<1>3. PICK x \in S : \A y \in S : ~ (<<y, x>> \in R)
  BY <1>2
<1>4. ASSUME NEW y \in S
      PROVE  x <= y
  <2>1. y < x => <<y, x>> \in R
    BY DEF OpToRel
  <2> HIDE DEF R
  <2> QED
    BY <1>3, <2>1
<1> QED
  BY <1>4

\* Induction up to n, for the numbers in a set.
LEMMA Climb ==
  ASSUME NEW n \in Nat, NEW S, 0 \in S, \A k \in 0..n : k < n /\ k \in S => k + 1 \in S
  PROVE  0..n \subseteq S
<1> DEFINE Out == {k \in 0..n : k \notin S}
<1> SUFFICES ASSUME Out # {} PROVE FALSE
  OBVIOUS
<1>1. Out \in SUBSET Nat
  OBVIOUS
<1>2. \E least \in Out : \A k \in Out : least <= k
  <2> HIDE DEF Out
  <2> QED
    BY <1>1, LeastNumber
<1>3. PICK least \in Out : \A k \in Out : least <= k
  BY <1>2
<1>4. least - 1 \in 0..n /\ least - 1 < n /\ ~(least <= least - 1)
  OBVIOUS
<1>5. least - 1 \in S
  BY <1>3, <1>4
<1>6. (least - 1) + 1 = least
  BY <1>3
<1> QED
  BY <1>4, <1>5, <1>6

\* What the n rounds of a loop make of the states in T.
Rounds(T, n) == [T \X (1..n) -> T]

\* The states before and after each of them.
States(T, n) == [0..n -> T]

\* g runs the loop that starts at base.
Runs(g, T, n, base, s) ==
  g \in States(T, n) /\ g[0] = base /\ \A k \in 1..n : g[k] = s[<<g[k - 1], k>>]

\* A loop of n rounds has its states.
LEMMA LoopStates ==
  ASSUME NEW n \in Nat, NEW T, NEW base \in T, NEW s \in Rounds(T, n)
  PROVE  \E g : Runs(g, T, n, base, s)
<1> DEFINE Upto(m, g) == /\ g \in [0..m -> T] /\ g[0] = base
                         /\ \A k \in 1..m : g[k] = s[<<g[k - 1], k>>]
           S == {m \in 0..n : \E g : Upto(m, g)}
<1>1. 0 \in S
  <2>1. Upto(0, [k \in 0..0 |-> base])
    OBVIOUS
  <2> HIDE DEF Upto
  <2> QED
    BY <2>1
<1>2. ASSUME NEW m \in 0..n, m < n, m \in S
      PROVE  m + 1 \in S
  <2>1. PICK g : Upto(m, g)
    BY <1>2
  <2> DEFINE h == [k \in 0..m + 1 |-> IF k = m + 1 THEN s[<<g[m], m + 1>>] ELSE g[k]]
  <2>2. g[m] \in T /\ m + 1 \in 1..n
    BY <1>2, <2>1
  <2>3. s[<<g[m], m + 1>>] \in T
    BY <2>2 DEF Rounds
  <2>4. h \in [0..m + 1 -> T] /\ h[0] = base
    BY <2>1, <2>3
  <2>5. ASSUME NEW k \in 1..m + 1
        PROVE  h[k] = s[<<h[k - 1], k>>]
    <3>1. h[k - 1] = g[k - 1]
      OBVIOUS
    <3>2. CASE k = m + 1
      <4>1. k - 1 = m /\ h[k] = s[<<g[m], m + 1>>]
        BY <3>2
      <4> HIDE DEF h
      <4> QED
        BY <3>1, <3>2, <4>1
    <3>3. CASE k # m + 1
      <4>1. k \in 1..m /\ h[k] = g[k]
        BY <3>3
      <4> QED
        BY <2>1, <3>1, <4>1
    <3> QED
      BY <3>2, <3>3
  <2>6. Upto(m + 1, h)
    BY <2>4, <2>5
  <2> HIDE DEF Upto
  <2> QED
    BY <2>2, <2>6
<1>3. 0..n \subseteq S
  <2> HIDE DEF S
  <2> QED
    BY <1>1, <1>2, Climb
<1>4. \E g : Upto(n, g)
  BY <1>3
<1> QED
  BY <1>4 DEF Runs, States

\* The states of a loop are of the type that its rounds keep.
LEMMA LoopTyped ==
  ASSUME NEW n \in Nat, NEW T, NEW c, c = [k \in 0..n |-> c[k]],
         c[0] \in T, \A k \in 1..n : c[k - 1] \in T => c[k] \in T
  PROVE  c \in States(T, n)
<1> DEFINE S == {k \in 0..n : c[k] \in T}
<1>1. 0 \in S
  OBVIOUS
<1>2. ASSUME NEW k \in 0..n, k < n, k \in S
      PROVE  k + 1 \in S
  <2>1. k + 1 \in 1..n /\ (k + 1) - 1 = k
    BY <1>2
  <2> QED
    BY <1>2, <2>1
<1>3. 0..n \subseteq S
  <2> HIDE DEF S
  <2> QED
    BY <1>1, <1>2, Climb
<1> QED
  BY <1>3 DEF States

\* Quotient and remainder.
LEMMA Division ==
  ASSUME NEW a \in Nat, NEW m \in Nat, m > 0
  PROVE  a \div m \in Nat /\ (a % m) \in 0..m - 1 /\ a = m * (a \div m) + (a % m)
<1>1. a \div m \in Nat
  OBVIOUS
<1>2. (a % m) \in 0..m - 1
  OBVIOUS
<1>3. a = m * (a \div m) + (a % m)
  OBVIOUS
<1> QED
  BY <1>1, <1>2, <1>3

LEMMA OneDivision ==
  ASSUME NEW m \in Nat, m > 0, NEW p \in Int, NEW q \in Int,
         NEW r \in 0..m - 1, NEW s \in 0..m - 1, m * p + r = m * q + s
  PROVE  p = q /\ r = s
<1>1. CASE p < q
  <2>1. m * (p + 1) <= m * q
    BY <1>1
  <2> QED
    BY <2>1
<1>2. CASE q < p
  <2>1. m * (q + 1) <= m * p
    BY <1>2
  <2> QED
    BY <2>1
<1> QED
  BY <1>1, <1>2

\* The gaps of the blocks add up to the gap they stand for.
LEMMA GapSplits ==
  ASSUME NEW gap \in Nat, gap > 0
  PROVE  LET n    == BlocksFor(gap)
             rest == 1 + ((gap - 1) % MaxGap)
         IN /\ n \in Nat /\ n > 0 /\ rest \in 1..MaxGap
            /\ gap = (n - 1) * MaxGap + rest
            /\ gap <= MaxGap => n = 1
<1> DEFINE q == (gap - 1) \div MaxGap
           r == (gap - 1) % MaxGap
           p == gap \div MaxGap
           s == gap % MaxGap
<1>1. MaxGap \in Nat /\ MaxGap > 0
  BY MaxGapAssumption
<1>2. q \in Nat /\ r \in 0..MaxGap - 1 /\ gap - 1 = MaxGap * q + r
  BY <1>1, Division
<1>3. p \in Nat /\ s \in 0..MaxGap - 1 /\ gap = MaxGap * p + s
  BY <1>1, Division
<1>4. BlocksFor(gap) = IF s = 0 THEN p ELSE p + 1
  BY DEF BlocksFor
<1> HIDE DEF q, r, p, s
<1>5. BlocksFor(gap) = q + 1
  <2>1. CASE s = 0
    <3>1. MaxGap * (p - 1) + (MaxGap - 1) = MaxGap * q + r
      BY <1>1, <1>2, <1>3, <2>1
    <3>2. p - 1 = q
      BY <1>1, <1>2, <1>3, <3>1, OneDivision
    <3> QED
      BY <1>2, <1>3, <1>4, <2>1, <3>2
  <2>2. CASE s # 0
    <3>1. MaxGap * p + (s - 1) = MaxGap * q + r /\ s - 1 \in 0..MaxGap - 1
      BY <1>1, <1>2, <1>3, <2>2
    <3>2. p = q
      BY <1>1, <1>2, <1>3, <3>1, OneDivision
    <3> QED
      BY <1>2, <1>3, <1>4, <2>2, <3>2
  <2> QED
    BY <2>1, <2>2
<1>6. gap = q * MaxGap + 1 + r
  BY <1>1, <1>2
<1>7. gap <= MaxGap => q = 0
  <2> SUFFICES ASSUME gap <= MaxGap PROVE q = 0
    OBVIOUS
  <2>1. MaxGap * q + r = MaxGap * 0 + (gap - 1) /\ gap - 1 \in 0..MaxGap - 1
    BY <1>1, <1>2
  <2> QED
    BY <1>1, <1>2, <2>1, OneDivision
<1> QED
  BY <1>1, <1>2, <1>5, <1>6, <1>7 DEF r

-----------------------------------------------------------------------------
(* Ranges and the blocks they are written as                               *)

Spans == [first : Int, last : Int]
AckBlocks == [gap : Nat, length : Nat]

\* Ranges from the highest to the lowest, with numbers missing in between.
Descending(ranges) ==
  /\ ranges \in Seq(Spans) /\ Len(ranges) > 0
  /\ \A i \in 1..Len(ranges) : 0 < ranges[i].first /\ ranges[i].first <= ranges[i].last
  /\ \A i \in 1..Len(ranges) - 1 : Gap(ranges, i) > 0

LEMMA RangeFields ==
  ASSUME NEW ranges, Descending(ranges)
  PROVE  /\ Len(ranges) \in Nat /\ Len(ranges) - 1 \in Nat
         /\ \A i \in 1..Len(ranges) :
              /\ ranges[i] \in Spans /\ ranges[i].first \in Nat /\ ranges[i].last \in Nat
              /\ RangeLen(ranges[i]) \in Nat /\ RangeLen(ranges[i]) > 0
         /\ \A i \in 1..Len(ranges) - 1 :
              /\ Gap(ranges, i) \in Nat /\ Gap(ranges, i) > 0
              /\ BlocksFor(Gap(ranges, i)) \in Nat /\ BlocksFor(Gap(ranges, i)) > 0
<1>1. Len(ranges) \in Nat /\ Len(ranges) - 1 \in Nat
  BY LenProperties DEF Descending
<1>2. ASSUME NEW i \in 1..Len(ranges)
      PROVE  /\ ranges[i] \in Spans /\ ranges[i].first \in Nat /\ ranges[i].last \in Nat
             /\ RangeLen(ranges[i]) \in Nat /\ RangeLen(ranges[i]) > 0
  <2>1. ranges[i] \in Spans
    BY ElementOfSeq DEF Descending
  <2> QED
    BY <2>1 DEF Descending, Spans, RangeLen
<1>3. ASSUME NEW i \in 1..Len(ranges) - 1
      PROVE  Gap(ranges, i) \in Nat /\ Gap(ranges, i) > 0
  <2>1. i \in 1..Len(ranges) /\ i + 1 \in 1..Len(ranges)
    BY <1>1
  <2>2. Gap(ranges, i) \in Int
    BY <1>2, <2>1 DEF Gap
  <2> QED
    BY <2>2 DEF Descending
<1> QED
  BY <1>1, <1>2, <1>3, GapSplits

\* The loop of numWritableNackRanges().
LEMMA CountLoop ==
  ASSUME NEW ranges, Descending(ranges)
  PROVE  LET count == BlockCount(ranges)
             n     == Len(ranges) - 1
         IN /\ count \in [0..n -> Nat] /\ count[0] = 0
            /\ \A k \in 1..n : count[k] = count[k - 1] + BlocksFor(Gap(ranges, k))
<1> DEFINE n == Len(ranges) - 1
           Is(c) == c = [k \in 0..n |->
                          IF k = 0 THEN 0 ELSE c[k - 1] + BlocksFor(Gap(ranges, k))]
           s == [x \in Nat \X (1..n) |-> x[1] + BlocksFor(Gap(ranges, x[2]))]
<1>1. n \in Nat /\ \A k \in 1..n : BlocksFor(Gap(ranges, k)) \in Nat
  BY RangeFields
<1>2. s \in Rounds(Nat, n)
  BY <1>1 DEF Rounds
<1>3. \E g : Runs(g, Nat, n, 0, s)
  <2>1. 0 \in Nat
    OBVIOUS
  <2> HIDE DEF s, n
  <2> QED
    BY <1>1, <1>2, <2>1, LoopStates
<1>4. PICK g \in [0..n -> Nat] : g[0] = 0 /\ \A k \in 1..n : g[k] = s[<<g[k - 1], k>>]
  BY <1>3 DEF Runs, States
<1>5. \A k \in 1..n : g[k] = g[k - 1] + BlocksFor(Gap(ranges, k))
  <2> SUFFICES ASSUME NEW k \in 1..n
               PROVE  g[k] = g[k - 1] + BlocksFor(Gap(ranges, k))
    OBVIOUS
  <2>1. k - 1 \in 0..n /\ g[k - 1] \in Nat
    BY <1>1, <1>4
  <2> QED
    BY <1>4, <2>1
<1> HIDE DEF n, s
<1>6. Is(g)
  BY <1>1, <1>4, <1>5
<1> HIDE DEF Is
<1>7. BlockCount(ranges) = CHOOSE c : Is(c)
  BY DEF BlockCount, Is, n
<1>8. Is(BlockCount(ranges))
  BY <1>6, <1>7
<1>9. ASSUME NEW c, Is(c)
      PROVE  /\ c \in [0..n -> Nat] /\ c[0] = 0
             /\ \A k \in 1..n : c[k] = c[k - 1] + BlocksFor(Gap(ranges, k))
  <2>1. c = [k \in 0..n |-> c[k]]
    BY <1>9 DEF Is
  <2>2. ASSUME NEW k \in 0..n
        PROVE  c[k] = IF k = 0 THEN 0 ELSE c[k - 1] + BlocksFor(Gap(ranges, k))
    BY <1>9 DEF Is
  <2>3. c[0] = 0
    BY <1>1, <2>2
  <2>4. ASSUME NEW k \in 1..n
        PROVE  c[k] = c[k - 1] + BlocksFor(Gap(ranges, k))
    BY <1>1, <2>2
  <2>5. \A k \in 1..n : c[k - 1] \in Nat => c[k] \in Nat
    BY <1>1, <2>4
  <2>6. 0 \in Nat
    OBVIOUS
  <2>7. c \in States(Nat, n)
    BY <1>1, <2>1, <2>3, <2>5, <2>6, LoopTyped
  <2> QED
    BY <2>3, <2>4, <2>7 DEF States
<1> QED
  BY <1>8, <1>9 DEF n

\* Every range takes a block at least, and just one when its gap is short.
LEMMA CountRises ==
  ASSUME NEW ranges, Descending(ranges),
         NEW k \in 0..Len(ranges) - 1, NEW m \in 0..Len(ranges) - 1, k <= m
  PROVE  LET count == BlockCount(ranges)
         IN /\ count[k] \in Nat /\ count[m] \in Nat /\ count[k] + (m - k) <= count[m]
            /\ (\A i \in 1..Len(ranges) - 1 : Gap(ranges, i) <= MaxGap)
                 => count[k] + (m - k) = count[m]
<1> DEFINE n == Len(ranges) - 1
           count == BlockCount(ranges)
           Short == \A i \in 1..n : Gap(ranges, i) <= MaxGap
           S == {d \in 0..m - k : /\ count[k] + d <= count[k + d]
                                  /\ Short => count[k] + d = count[k + d]}
<1>1. n \in Nat /\ k \in 0..n /\ m \in 0..n /\ m - k \in Nat
  BY RangeFields
<1>2. /\ \A i \in 0..n : count[i] \in Nat
      /\ \A i \in 1..n : count[i] = count[i - 1] + BlocksFor(Gap(ranges, i))
  BY CountLoop
<1>3. ASSUME NEW i \in 1..n
      PROVE  /\ BlocksFor(Gap(ranges, i)) \in Nat /\ BlocksFor(Gap(ranges, i)) >= 1
             /\ Short => BlocksFor(Gap(ranges, i)) = 1
  <2>1. Gap(ranges, i) \in Nat /\ Gap(ranges, i) > 0
    BY RangeFields
  <2>2. /\ BlocksFor(Gap(ranges, i)) \in Nat /\ BlocksFor(Gap(ranges, i)) > 0
        /\ Gap(ranges, i) <= MaxGap => BlocksFor(Gap(ranges, i)) = 1
    BY <2>1, GapSplits
  <2> QED
    BY <2>2
<1> HIDE DEF n, count, Short
<1>4. 0 \in S
  BY <1>1, <1>2
<1>5. ASSUME NEW d \in 0..m - k, d < m - k, d \in S
      PROVE  d + 1 \in S
  <2>1. k + (d + 1) \in 1..n /\ (k + (d + 1)) - 1 = k + d /\ k + d \in 0..n /\ k \in 0..n
    BY <1>1, <1>5
  <2>2. count[k + (d + 1)] = count[k + d] + BlocksFor(Gap(ranges, k + (d + 1)))
    BY <1>2, <2>1
  <2>3. count[k + (d + 1)] \in Nat /\ count[k + d] \in Nat /\ count[k] \in Nat
    BY <1>2, <2>1
  <2>4. /\ BlocksFor(Gap(ranges, k + (d + 1))) \in Nat
        /\ BlocksFor(Gap(ranges, k + (d + 1))) >= 1
        /\ Short => BlocksFor(Gap(ranges, k + (d + 1))) = 1
    BY <1>3, <2>1
  <2>5. count[k] + d <= count[k + d] /\ (Short => count[k] + d = count[k + d])
    BY <1>5
  <2>6. /\ count[k] + (d + 1) <= count[k + (d + 1)]
        /\ Short => count[k] + (d + 1) = count[k + (d + 1)]
    <3> DEFINE start == count[k]
               old   == count[k + d]
               new   == count[k + (d + 1)]
               more  == BlocksFor(Gap(ranges, k + (d + 1)))
    <3>1. d \in Nat /\ start \in Nat /\ old \in Nat /\ new \in Nat /\ more \in Nat
      BY <2>3, <2>4
    <3>2. new = old + more /\ more >= 1 /\ (Short => more = 1)
      BY <2>2, <2>4
    <3>3. start + d <= old /\ (Short => start + d = old)
      BY <2>5
    <3> HIDE DEF start, old, new, more
    <3>4. start + (d + 1) <= new /\ (Short => start + (d + 1) = new)
      BY <3>1, <3>2, <3>3
    <3> QED
      BY <3>4 DEF start, new
  <2>7. d + 1 \in 0..m - k
    BY <1>1, <1>5
  <2> QED
    BY <2>6, <2>7
<1>6. 0..m - k \subseteq S
  <2> HIDE DEF S
  <2> QED
    BY <1>1, <1>4, <1>5, Climb
<1>7. m - k \in S
  BY <1>1, <1>6
<1>8. k + (m - k) = m
  BY <1>1
<1> QED
  BY <1>1, <1>2, <1>7, <1>8 DEF n, count, Short

\* The blocks of one gap and the range below it.
LEMMA BlocksShape ==
  ASSUME NEW gap \in Nat, gap > 0, NEW length \in Nat
  PROVE  LET blocks == Blocks(gap, length)
             n      == BlocksFor(gap)
         IN /\ blocks \in Seq(AckBlocks) /\ Len(blocks) = n
            /\ \A j \in 1..n - 1 : blocks[j] = [gap |-> MaxGap, length |-> 0]
            /\ blocks[n] = [gap |-> 1 + ((gap - 1) % MaxGap), length |-> length]
<1> DEFINE n == BlocksFor(gap)
           rest == 1 + ((gap - 1) % MaxGap)
           At(j) == IF j < n THEN [gap |-> MaxGap, length |-> 0]
                    ELSE [gap |-> rest, length |-> length]
<1>1. n \in Nat /\ n > 0 /\ rest \in 1..MaxGap /\ MaxGap \in Nat
  BY GapSplits, MaxGapAssumption
<1>2. Blocks(gap, length) = [j \in 1..n |-> At(j)]
  BY DEF Blocks
<1> HIDE DEF n, rest
<1>3. \A j \in 1..n : At(j) \in AckBlocks
  BY <1>1 DEF AckBlocks
<1> HIDE DEF At
<1>4. [j \in 1..n |-> At(j)] \in Seq(AckBlocks) /\ Len([j \in 1..n |-> At(j)]) = n
  <2>1. \A j \in 1..n : At(j) \in AckBlocks
    BY <1>3
  <2> QED
    BY <1>1, <2>1, IsASeq
<1>5. \A j \in 1..n - 1 : Blocks(gap, length)[j] = [gap |-> MaxGap, length |-> 0]
  BY <1>1, <1>2 DEF At
<1>6. Blocks(gap, length)[n] = [gap |-> rest, length |-> length]
  BY <1>1, <1>2 DEF At
<1> QED
  BY <1>2, <1>4, <1>5, <1>6 DEF n, rest

\* The blocks behind the first k gaps are those before and those of gap k.
LEMMA WrittenLoop ==
  ASSUME NEW ranges, Descending(ranges)
  PROVE  LET written == Written(ranges)
             n       == Len(ranges) - 1
         IN /\ written \in [0..n -> Seq(AckBlocks)] /\ written[0] = <<>>
            /\ \A k \in 1..n : written[k] = written[k - 1]
                 \o Blocks(Gap(ranges, k), RangeLen(ranges[k + 1]))
<1> DEFINE n == Len(ranges) - 1
           T == Seq(AckBlocks)
           B(k) == Blocks(Gap(ranges, k), RangeLen(ranges[k + 1]))
           Is(c) == c = [k \in 0..n |-> IF k = 0 THEN <<>> ELSE c[k - 1] \o B(k)]
           s == [x \in T \X (1..n) |-> x[1] \o B(x[2])]
<1>1. n \in Nat /\ <<>> \in T
  BY RangeFields, EmptySeq
<1>2. ASSUME NEW k \in 1..n
      PROVE  B(k) \in T
  <2>1. /\ k + 1 \in 1..Len(ranges) /\ Gap(ranges, k) \in Nat /\ Gap(ranges, k) > 0
        /\ RangeLen(ranges[k + 1]) \in Nat
    BY RangeFields
  <2> QED
    BY <2>1, BlocksShape
<1>3. \A c \in T : \A k \in 1..n : c \o B(k) \in T
  BY <1>2, ConcatProperties
<1> HIDE DEF T, B
<1>4. s \in Rounds(T, n)
  BY <1>3 DEF Rounds
<1>5. \E g : Runs(g, T, n, <<>>, s)
  <2> HIDE DEF s, n
  <2> QED
    BY <1>1, <1>4, LoopStates
<1>6. PICK g : Runs(g, T, n, <<>>, s)
  BY <1>5
<1>7. Is(g)
  <2>1. g = [k \in 0..n |-> g[k]] /\ g[0] = <<>>
    BY <1>6 DEF Runs, States
  <2>2. ASSUME NEW k \in 1..n
        PROVE  g[k] = g[k - 1] \o B(k)
    <3>1. k - 1 \in 0..n /\ g[k - 1] \in T
      BY <1>1, <1>6 DEF Runs, States
    <3>2. s[<<g[k - 1], k>>] = g[k - 1] \o B(k)
      BY <3>1
    <3> QED
      BY <1>6, <3>2 DEF Runs
  <2>3. \A k \in 0..n : g[k] = IF k = 0 THEN <<>> ELSE g[k - 1] \o B(k)
    <3> SUFFICES ASSUME NEW k \in 0..n
                 PROVE  g[k] = IF k = 0 THEN <<>> ELSE g[k - 1] \o B(k)
      OBVIOUS
    <3>1. k # 0 => k \in 1..n
      BY <1>1
    <3> HIDE DEF n, s
    <3> QED
      BY <2>1, <2>2, <3>1
  <2> HIDE DEF n, s
  <2> QED
    BY <2>1, <2>3
<1> HIDE DEF Is, s, n
<1>8. Written(ranges) = CHOOSE c : Is(c)
  BY DEF Written, Is, n, B
<1>9. Is(Written(ranges))
  BY <1>7, <1>8
<1>10. ASSUME NEW c, Is(c)
       PROVE  c \in [0..n -> T] /\ c[0] = <<>> /\ \A k \in 1..n : c[k] = c[k - 1] \o B(k)
  <2>1. c = [k \in 0..n |-> c[k]]
    BY <1>10 DEF Is
  <2>2. ASSUME NEW k \in 0..n
        PROVE  c[k] = IF k = 0 THEN <<>> ELSE c[k - 1] \o B(k)
    BY <1>10 DEF Is
  <2>3. c[0] = <<>>
    BY <1>1, <2>2
  <2>4. ASSUME NEW k \in 1..n
        PROVE  c[k] = c[k - 1] \o B(k)
    <3>1. k \in 0..n /\ k # 0
      BY <1>1
    <3> QED
      BY <2>2, <3>1
  <2>5. \A k \in 1..n : c[k - 1] \in T => c[k] \in T
    BY <1>3, <2>4
  <2>6. c \in States(T, n)
    BY <1>1, <2>1, <2>3, <2>5, LoopTyped
  <2> QED
    BY <2>3, <2>4, <2>6 DEF States
<1> QED
  BY <1>9, <1>10 DEF n, T, B

\* A block of one gap stands below those of the gaps after it.
LEMMA StandsBelow ==
  ASSUME NEW before \in Nat, NEW mine \in Nat, NEW all \in Nat, NEW more \in Nat,
         NEW j \in 1..mine, before + mine <= all
  PROVE  before + j \in 1..all + more /\ before + j <= all
OBVIOUS

\* Where the blocks of the first m gaps stand.
Laid(blocks, ranges, m) ==
  LET count == BlockCount(ranges)
  IN /\ blocks \in Seq(AckBlocks) /\ Len(blocks) = count[m]
     /\ \A k \in 1..m : \A j \in 1..BlocksFor(Gap(ranges, k)) :
          blocks[count[k - 1] + j] = Blocks(Gap(ranges, k), RangeLen(ranges[k + 1]))[j]

\* numWritableNackRanges() counts the blocks that writeTo() writes, and each
\* of them keeps its place when more follow.
LEMMA WrittenItems ==
  ASSUME NEW ranges, Descending(ranges), NEW m \in 0..Len(ranges) - 1
  PROVE  Laid(Written(ranges)[m], ranges, m)
<1> DEFINE n == Len(ranges) - 1
           w == Written(ranges)
           count == BlockCount(ranges)
           B(k) == Blocks(Gap(ranges, k), RangeLen(ranges[k + 1]))
           size(k) == BlocksFor(Gap(ranges, k))
           Placed(i) == \A k \in 1..i : \A j \in 1..size(k) : w[i][count[k - 1] + j] = B(k)[j]
           S == {i \in 0..m : Len(w[i]) = count[i] /\ Placed(i)}
<1>1. n \in Nat /\ m \in 0..n
  BY RangeFields
<1>2. /\ \A i \in 0..n : count[i] \in Nat
      /\ count[0] = 0 /\ \A i \in 1..n : count[i] = count[i - 1] + size(i)
  BY CountLoop
<1>3. /\ \A i \in 0..n : w[i] \in Seq(AckBlocks)
      /\ w[0] = <<>> /\ \A i \in 1..n : w[i] = w[i - 1] \o B(i)
  BY WrittenLoop
<1>4. ASSUME NEW i \in 1..n
      PROVE  size(i) \in Nat /\ B(i) \in Seq(AckBlocks) /\ Len(B(i)) = size(i)
  <2>1. /\ i + 1 \in 1..Len(ranges) /\ Gap(ranges, i) \in Nat /\ Gap(ranges, i) > 0
        /\ RangeLen(ranges[i + 1]) \in Nat /\ size(i) \in Nat
    BY RangeFields
  <2> QED
    BY <2>1, BlocksShape
<1>5. \A i, k \in 0..n : i <= k => count[i] <= count[k]
  <2> SUFFICES ASSUME NEW i \in 0..n, NEW k \in 0..n, i <= k
               PROVE  count[i] <= count[k]
    OBVIOUS
  <2>1. count[i] \in Nat /\ count[k] \in Nat /\ count[i] + (k - i) <= count[k]
    BY CountRises
  <2> QED
    BY <1>1, <2>1
<1> HIDE DEF n, w, count, B, size
<1>6. 0 \in S
  BY <1>1, <1>2, <1>3, EmptySeq
<1>7. ASSUME NEW i \in 0..m, i < m, i \in S
      PROVE  i + 1 \in S
  <2>1. i + 1 \in 1..n /\ i + 1 \in 0..m /\ i \in 0..n /\ (i + 1) - 1 = i /\ i \in Nat
    BY <1>1, <1>7
  <2>2. /\ w[i + 1] = w[i] \o B(i + 1) /\ count[i + 1] = count[i] + size(i + 1)
        /\ Len(w[i]) = count[i] /\ count[i] \in Nat
    BY <1>2, <1>3, <1>7, <2>1
  <2>3. /\ w[i] \in Seq(AckBlocks) /\ B(i + 1) \in Seq(AckBlocks)
        /\ Len(B(i + 1)) = size(i + 1) /\ size(i + 1) \in Nat
    BY <1>3, <1>4, <2>1
  <2>4. /\ Len(w[i + 1]) = count[i + 1]
        /\ \A x \in 1..count[i] + size(i + 1) :
             w[i + 1][x] = IF x <= count[i] THEN w[i][x] ELSE B(i + 1)[x - count[i]]
    <3> DEFINE a == w[i]
               b == B(i + 1)
    <3>1. a \in Seq(AckBlocks) /\ b \in Seq(AckBlocks)
      BY <2>3
    <3>2. Len(a) = count[i] /\ Len(b) = size(i + 1) /\ w[i + 1] = a \o b
      BY <2>2, <2>3
    <3> HIDE DEF a, b
    <3>3. /\ Len(a \o b) = Len(a) + Len(b)
          /\ \A x \in 1..Len(a) + Len(b) :
               (a \o b)[x] = IF x <= Len(a) THEN a[x] ELSE b[x - Len(a)]
      BY <3>1, ConcatProperties
    <3> QED
      BY <2>2, <3>2, <3>3 DEF a, b
  <2>5. Placed(i)
    BY <1>7
  <2>6. count[i] \in Nat /\ size(i + 1) \in Nat
    BY <2>2, <2>3
  <2>7. ASSUME NEW k \in 1..i + 1, NEW j \in 1..size(k)
        PROVE  w[i + 1][count[k - 1] + j] = B(k)[j]
    <3>1. CASE k = i + 1
      <4>1. k - 1 = i /\ j \in 1..size(i + 1)
        BY <2>1, <3>1
      <4>2. /\ count[i] + j \in 1..count[i] + size(i + 1) /\ ~(count[i] + j <= count[i])
            /\ (count[i] + j) - count[i] = j
        BY <2>6, <4>1
      <4> QED
        BY <2>4, <3>1, <4>1, <4>2
    <3>2. CASE k # i + 1
      <4>1. k \in 1..i /\ k \in 0..n /\ k - 1 \in 0..n /\ k <= i /\ k \in 1..n
        BY <1>1, <2>1, <3>2
      <4>2. /\ count[k] <= count[i] /\ count[k] = count[k - 1] + size(k)
            /\ count[k - 1] \in Nat /\ size(k) \in Nat /\ count[k] \in Nat
        BY <1>2, <1>4, <1>5, <2>1, <4>1
      <4>3. count[k - 1] + j \in 1..count[i] + size(i + 1) /\ count[k - 1] + j <= count[i]
        <5>1. count[k - 1] + size(k) <= count[i]
          BY <4>2
        <5> HIDE DEF Placed, S
        <5> QED
          BY <2>6, <4>2, <5>1, StandsBelow
      <4>4. w[i][count[k - 1] + j] = B(k)[j]
        BY <2>5, <4>1
      <4> QED
        BY <2>4, <4>3, <4>4
    <3> QED
      BY <3>1, <3>2
  <2>8. Placed(i + 1)
    BY <2>7
  <2> HIDE DEF Placed
  <2> QED
    BY <2>1, <2>4, <2>8
<1>8. 0..m \subseteq S
  <2> HIDE DEF S
  <2> QED
    BY <1>1, <1>6, <1>7, Climb
<1>9. m \in S /\ w[m] \in Seq(AckBlocks)
  BY <1>1, <1>3, <1>8
<1> QED
  BY <1>9 DEF n, w, count, B, size, Laid

-----------------------------------------------------------------------------
(* The blocks read back                                                    *)

\* What fromBuffer() keeps between two blocks: there is always a range.
ReaderStates ==
  {st \in [ranges : Seq(Spans), inLong : BOOLEAN, complete : BOOLEAN] : Len(st.ranges) > 0}

LEMMA ReadBlockTyped ==
  ASSUME NEW st \in ReaderStates, NEW block \in AckBlocks
  PROVE  ReadBlock(st, block) \in ReaderStates
<1> DEFINE n == Len(st.ranges)
           before == st.ranges[n]
           next == before.first - block.gap - 1
           moved == AckRange(before.first - block.gap - block.length, before.last - block.gap)
           added == AckRange(next - block.length + 1, next)
<1>1. st.ranges \in Seq(Spans) /\ n \in Nat /\ n > 0 /\ n \in 1..n
  BY LenProperties DEF ReaderStates
<1>2. before \in Spans
  BY <1>1, ElementOfSeq
<1>3. moved \in Spans /\ added \in Spans
  <2>1. /\ before.first \in Int /\ before.last \in Int
        /\ block.gap \in Int /\ block.length \in Int
    BY <1>2 DEF Spans, AckBlocks
  <2> HIDE DEF before
  <2> QED
    BY <2>1 DEF Spans, AckRange
<1>4. /\ Append(st.ranges, added) \in Seq(Spans)
      /\ Len(Append(st.ranges, added)) = n + 1
  <2> HIDE DEF added
  <2> QED
    BY <1>1, <1>3, AppendProperties
<1>5. /\ [st.ranges EXCEPT ![n] = moved] \in Seq(Spans)
      /\ Len([st.ranges EXCEPT ![n] = moved]) = n
  <2> HIDE DEF moved
  <2> QED
    BY <1>1, <1>3, ExceptSeq
<1>6. ReadBlock(st, block) =
        [ranges   |-> IF st.inLong THEN [st.ranges EXCEPT ![n] = moved]
                      ELSE Append(st.ranges, added),
         inLong   |-> block.length = 0,
         complete |-> block.length > 0 \/ (st.inLong /\ st.complete)]
  BY DEF ReadBlock
<1> HIDE DEF n, moved, added
<1> QED
  BY <1>1, <1>4, <1>5, <1>6 DEF ReaderStates

\* The loop of fromBuffer().
LEMMA ReadingLoop ==
  ASSUME NEW w, w.blocks \in Seq(AckBlocks), w.largestAcked \in Int, w.length \in Int
  PROVE  LET state == Reading(w)
             n     == Len(w.blocks)
         IN /\ n \in Nat /\ state \in [0..n -> ReaderStates]
            /\ state[0].ranges = <<AckRange(w.largestAcked - w.length + 1, w.largestAcked)>>
            /\ ~state[0].inLong
            /\ \A k \in 1..n : state[k] = ReadBlock(state[k - 1], w.blocks[k])
<1> DEFINE n == Len(w.blocks)
           T == ReaderStates
           first == AckRange(w.largestAcked - w.length + 1, w.largestAcked)
           base == [ranges |-> <<first>>, inLong |-> FALSE, complete |-> FALSE]
           Is(c) == c = [k \in 0..n |-> IF k = 0 THEN base ELSE ReadBlock(c[k - 1], w.blocks[k])]
           s == [x \in T \X (1..n) |-> ReadBlock(x[1], w.blocks[x[2]])]
<1>1. n \in Nat /\ \A k \in 1..n : w.blocks[k] \in AckBlocks
  BY LenProperties, ElementOfSeq
<1>2. base \in T
  <2>1. first \in Spans
    BY DEF Spans, AckRange
  <2> HIDE DEF first
  <2>2. <<first>> \in Seq(Spans) /\ Len(<<first>>) = 1
    BY <2>1
  <2>3. /\ Len(base.ranges) > 0
        /\ base \in [ranges : Seq(Spans), inLong : BOOLEAN, complete : BOOLEAN]
    BY <2>2
  <2> HIDE DEF base
  <2> QED
    BY <2>3 DEF ReaderStates
<1>3. \A c \in T : \A k \in 1..n : ReadBlock(c, w.blocks[k]) \in T
  BY <1>1, ReadBlockTyped
<1> HIDE DEF T
<1>4. s \in Rounds(T, n)
  BY <1>3 DEF Rounds
<1>5. \E g : Runs(g, T, n, base, s)
  <2> HIDE DEF s, n, base
  <2> QED
    BY <1>1, <1>2, <1>4, LoopStates
<1>6. PICK g : Runs(g, T, n, base, s)
  BY <1>5
<1> HIDE DEF base
<1>7. Is(g)
  <2>1. g = [k \in 0..n |-> g[k]] /\ g[0] = base
    BY <1>6 DEF Runs, States
  <2>2. ASSUME NEW k \in 1..n
        PROVE  g[k] = ReadBlock(g[k - 1], w.blocks[k])
    <3>1. k - 1 \in 0..n /\ g[k - 1] \in T
      BY <1>1, <1>6 DEF Runs, States
    <3>2. s[<<g[k - 1], k>>] = ReadBlock(g[k - 1], w.blocks[k])
      BY <3>1
    <3> QED
      BY <1>6, <3>2 DEF Runs
  <2>3. \A k \in 0..n : g[k] = IF k = 0 THEN base ELSE ReadBlock(g[k - 1], w.blocks[k])
    <3> SUFFICES ASSUME NEW k \in 0..n
                 PROVE  g[k] = IF k = 0 THEN base ELSE ReadBlock(g[k - 1], w.blocks[k])
      OBVIOUS
    <3>1. k # 0 => k \in 1..n
      BY <1>1
    <3> HIDE DEF n, s
    <3> QED
      BY <2>1, <2>2, <3>1
  <2> HIDE DEF n, s
  <2> QED
    BY <2>1, <2>3
<1> HIDE DEF Is, s, n
<1>8. Reading(w) = CHOOSE c : Is(c)
  BY DEF Reading, Is, n, base
<1>9. Is(Reading(w))
  BY <1>7, <1>8
<1>10. ASSUME NEW c, Is(c)
       PROVE  /\ c \in [0..n -> T] /\ c[0] = base
              /\ \A k \in 1..n : c[k] = ReadBlock(c[k - 1], w.blocks[k])
  <2>1. c = [k \in 0..n |-> c[k]]
    BY <1>10 DEF Is
  <2>2. ASSUME NEW k \in 0..n
        PROVE  c[k] = IF k = 0 THEN base ELSE ReadBlock(c[k - 1], w.blocks[k])
    BY <1>10 DEF Is
  <2>3. c[0] = base
    BY <1>1, <2>2
  <2>4. ASSUME NEW k \in 1..n
        PROVE  c[k] = ReadBlock(c[k - 1], w.blocks[k])
    <3>1. k \in 0..n /\ k # 0
      BY <1>1
    <3> QED
      BY <2>2, <3>1
  <2>5. \A k \in 1..n : c[k - 1] \in T => c[k] \in T
    BY <1>3, <2>4
  <2>6. c \in States(T, n)
    BY <1>1, <1>2, <2>1, <2>3, <2>5, LoopTyped
  <2> QED
    BY <2>3, <2>4, <2>6 DEF States
<1>11. base.ranges = <<first>> /\ ~base.inLong
  BY DEF base
<1> QED
  BY <1>1, <1>9, <1>10, <1>11 DEF n, T

\* The first r ranges have been read ...
ReadUpTo(st, ranges, r) ==
  /\ Len(st.ranges) = r /\ \A i \in 1..r : st.ranges[i] = ranges[i]
  /\ ~st.inLong /\ (r > 1 => st.complete)

\* ... and d numbers of the gap below them: what stands for the next range is
\* empty and lies right below those.
InGap(st, ranges, r, d) ==
  /\ Len(st.ranges) = r + 1 /\ \A i \in 1..r : st.ranges[i] = ranges[i]
  /\ st.ranges[r + 1] = AckRange(ranges[r].first - d, ranges[r].first - d - 1)
  /\ st.inLong

ReadTo(st, ranges, r, d) ==
  IF d = 0 THEN ReadUpTo(st, ranges, r) ELSE InGap(st, ranges, r, d)

\* A block of length 0 goes further down.
LEMMA LongBlock ==
  ASSUME NEW ranges, Descending(ranges), NEW r \in 1..Len(ranges), NEW d \in Nat,
         NEW st \in ReaderStates, ReadTo(st, ranges, r, d),
         NEW gap \in Nat
  PROVE  InGap(ReadBlock(st, [gap |-> gap, length |-> 0]), ranges, r, d + gap)
<1> DEFINE block == [gap |-> gap, length |-> 0]
           n == Len(st.ranges)
           before == st.ranges[n]
           next == before.first - block.gap - 1
           moved == AckRange(before.first - block.gap - block.length, before.last - block.gap)
           added == AckRange(next - block.length + 1, next)
           read == ReadBlock(st, block)
<1>1. st.ranges \in Seq(Spans) /\ n \in Nat /\ n > 0 /\ n \in 1..n
  BY LenProperties DEF ReaderStates
<1>2. before \in Spans
  BY <1>1, ElementOfSeq
<1>3. ranges[r].first \in Nat /\ r \in Nat
  BY RangeFields
<1>4. block.gap = gap /\ block.length = 0 /\ block \in AckBlocks
  BY DEF AckBlocks
<1>5. /\ read.ranges = IF st.inLong THEN [st.ranges EXCEPT ![n] = moved]
                       ELSE Append(st.ranges, added)
      /\ read.inLong = TRUE
  BY <1>4 DEF ReadBlock
<1>6. moved \in Spans /\ added \in Spans
  <2>1. before.first \in Int /\ before.last \in Int
    BY <1>2 DEF Spans
  <2> HIDE DEF before
  <2> QED
    BY <1>4, <2>1 DEF Spans, AckRange
<1>7. CASE d = 0
  <2>1. /\ ~st.inLong /\ n = r /\ before = ranges[r]
        /\ \A i \in 1..r : st.ranges[i] = ranges[i]
    BY <1>3, <1>7 DEF ReadUpTo, ReadTo
  <2>2. added = AckRange(ranges[r].first - gap, ranges[r].first - gap - 1)
    BY <1>3, <1>4, <2>1 DEF AckRange
  <2> HIDE DEF added, before, n, block
  <2>3. /\ read.ranges = Append(st.ranges, added) /\ Len(read.ranges) = n + 1
        /\ read.ranges[n + 1] = added
        /\ \A i \in 1..n : read.ranges[i] = st.ranges[i]
    BY <1>1, <1>5, <1>6, <2>1, AppendProperties DEF n
  <2> QED
    BY <1>3, <1>5, <1>7, <2>1, <2>2, <2>3 DEF InGap, block
<1>8. CASE d # 0
  <2>1. /\ st.inLong /\ n = r + 1
        /\ before = AckRange(ranges[r].first - d, ranges[r].first - d - 1)
        /\ \A i \in 1..r : st.ranges[i] = ranges[i]
    BY <1>3, <1>8 DEF InGap, ReadTo
  <2>2. moved = AckRange(ranges[r].first - (d + gap), ranges[r].first - (d + gap) - 1)
    <3>1. before.first = ranges[r].first - d /\ before.last = ranges[r].first - d - 1
      BY <2>1 DEF AckRange
    <3> HIDE DEF before, block
    <3>2. /\ before.first - block.gap - block.length = ranges[r].first - (d + gap)
          /\ before.last - block.gap = ranges[r].first - (d + gap) - 1
      BY <1>3, <1>4, <3>1
    <3> QED
      BY <3>2
  <2> HIDE DEF moved, before, n, block
  <2>3. /\ read.ranges = [st.ranges EXCEPT ![n] = moved] /\ Len(read.ranges) = n
        /\ read.ranges[n] = moved
        /\ \A i \in 1..n : i # n => read.ranges[i] = st.ranges[i]
    BY <1>1, <1>5, <1>6, <2>1, ExceptSeq DEF n
  <2> QED
    BY <1>3, <1>5, <2>1, <2>2, <2>3 DEF InGap, block
<1> QED
  BY <1>7, <1>8

LEMMA BelowGap ==
  ASSUME NEW a \in Int, NEW b \in Int, NEW c \in Int, NEW d \in Int, NEW gap \in Int,
         NEW size \in Int, size = c - b + 1, d + gap = a - c - 1
  PROVE  /\ (a - d) - gap - size = b
         /\ (a - d - 1) - gap = c
         /\ d = 0 => a - gap - 1 = c
         /\ c - size + 1 = b
  OBVIOUS

\* A block with a length ends the gap and gives the range below it.
LEMMA LastBlock ==
  ASSUME NEW ranges, Descending(ranges), NEW r \in 1..Len(ranges) - 1, NEW d \in Nat,
         NEW st \in ReaderStates, ReadTo(st, ranges, r, d),
         NEW gap \in Nat, d + gap = Gap(ranges, r),
         NEW length \in Nat, length = RangeLen(ranges[r + 1])
  PROVE  ReadUpTo(ReadBlock(st, [gap |-> gap, length |-> length]), ranges, r + 1)
<1> DEFINE block == [gap |-> gap, length |-> length]
           n == Len(st.ranges)
           before == st.ranges[n]
           next == before.first - block.gap - 1
           moved == AckRange(before.first - block.gap - block.length, before.last - block.gap)
           added == AckRange(next - block.length + 1, next)
           read == ReadBlock(st, block)
<1>1. st.ranges \in Seq(Spans) /\ n \in Nat /\ n > 0 /\ n \in 1..n
  BY LenProperties DEF ReaderStates
<1>2. before \in Spans
  BY <1>1, ElementOfSeq
<1>3. /\ r \in 1..Len(ranges) /\ r + 1 \in 1..Len(ranges) /\ r \in Nat
      /\ ranges[r].first \in Nat /\ ranges[r + 1].first \in Nat /\ ranges[r + 1].last \in Nat
      /\ ranges[r + 1] \in Spans /\ length \in Nat /\ length > 0
  BY RangeFields
<1>4. /\ length = ranges[r + 1].last - ranges[r + 1].first + 1
      /\ d + gap = ranges[r].first - ranges[r + 1].last - 1
      /\ ranges[r + 1] = AckRange(ranges[r + 1].first, ranges[r + 1].last)
  <2>1. ranges[r + 1] = AckRange(ranges[r + 1].first, ranges[r + 1].last)
    <3>1. \A x \in Spans : x = AckRange(x.first, x.last)
      BY DEF Spans, AckRange
    <3> QED
      BY <1>3, <3>1
  <2>2. length = ranges[r + 1].last - ranges[r + 1].first + 1
    BY DEF RangeLen
  <2>3. d + gap = ranges[r].first - ranges[r + 1].last - 1
    BY DEF Gap
  <2> QED
    BY <2>1, <2>2, <2>3
<1>a. /\ (ranges[r].first - d) - gap - length = ranges[r + 1].first
      /\ (ranges[r].first - d - 1) - gap = ranges[r + 1].last
      /\ d = 0 => ranges[r].first - gap - 1 = ranges[r + 1].last
      /\ ranges[r + 1].last - length + 1 = ranges[r + 1].first
  <2>1. /\ ranges[r].first \in Int /\ ranges[r + 1].first \in Int
        /\ ranges[r + 1].last \in Int /\ d \in Int /\ gap \in Int /\ length \in Int
    BY <1>3
  <2>2. /\ length = ranges[r + 1].last - ranges[r + 1].first + 1
        /\ d + gap = ranges[r].first - ranges[r + 1].last - 1
    BY <1>4
  <2> DEFINE a == ranges[r].first
             b == ranges[r + 1].first
             c == ranges[r + 1].last
  <2>3. a \in Int /\ b \in Int /\ c \in Int
    BY <2>1
  <2>4. d \in Int /\ gap \in Int /\ length \in Int
    BY <2>1
  <2>5. length = c - b + 1 /\ d + gap = a - c - 1
    BY <2>2
  <2> HIDE DEF a, b, c
  <2>6. /\ (a - d) - gap - length = b
        /\ (a - d - 1) - gap = c
        /\ d = 0 => a - gap - 1 = c
        /\ c - length + 1 = b
    BY <2>3, <2>4, <2>5, BelowGap
  <2> QED
    BY <2>6 DEF a, b, c
<1>5. /\ block.gap = gap /\ block.length = length /\ block \in AckBlocks
      /\ gap \in Int /\ length \in Int /\ length > 0
  BY <1>3 DEF AckBlocks
<1>6. /\ read.ranges = IF st.inLong THEN [st.ranges EXCEPT ![n] = moved]
                       ELSE Append(st.ranges, added)
      /\ ~read.inLong /\ read.complete
  <2>1. ~read.inLong /\ read.complete
    <3>1. /\ read.inLong = (block.length = 0)
          /\ read.complete = (block.length > 0 \/ (st.inLong /\ st.complete))
      BY DEF ReadBlock
    <3>2. block.length > 0 /\ block.length # 0
      BY <1>5
    <3> HIDE DEF read, block
    <3> QED
      BY <3>1, <3>2
  <2>2. read.ranges = IF st.inLong THEN [st.ranges EXCEPT ![n] = moved]
                      ELSE Append(st.ranges, added)
    BY DEF ReadBlock
  <2> HIDE DEF read
  <2> QED
    BY <1>3, <2>1, <2>2
<1>7. moved \in Spans /\ added \in Spans
  <2>1. before.first \in Int /\ before.last \in Int
    BY <1>2 DEF Spans
  <2> HIDE DEF before
  <2> QED
    <3>1. block.gap \in Int /\ block.length \in Int
      BY <1>3, <1>5
    <3> HIDE DEF block
    <3>2. /\ before.first - block.gap - block.length \in Int /\ before.last - block.gap \in Int
          /\ next \in Int /\ next - block.length + 1 \in Int
      <4> DEFINE x == before.first
                 y == before.last
                 u == block.gap
                 v == block.length
      <4>1. x \in Int /\ y \in Int /\ u \in Int /\ v \in Int
        BY <2>1, <3>1
      <4> HIDE DEF x, y, u, v
      <4>2. x - u - v \in Int /\ y - u \in Int /\ x - u - 1 \in Int /\ x - u - 1 - v + 1 \in Int
        BY <4>1
      <4> QED
        BY <4>2 DEF x, y, u, v
    <3>3. \A x, y \in Int : AckRange(x, y) \in Spans
      BY DEF AckRange, Spans
    <3> HIDE DEF next
    <3> QED
      BY <3>2, <3>3
<1>8. CASE d = 0
  <2>1. /\ ~st.inLong /\ n = r /\ before = ranges[r]
        /\ \A i \in 1..r : st.ranges[i] = ranges[i]
    BY <1>3, <1>8 DEF ReadUpTo, ReadTo
  <2>2. added = ranges[r + 1]
    <3>1. before.first = ranges[r].first
      BY <2>1
    <3> HIDE DEF before, block
    <3>2. next = ranges[r + 1].last
      BY <1>5, <1>8, <1>a, <3>1
    <3> HIDE DEF next
    <3>3. next - block.length + 1 = ranges[r + 1].first
      BY <1>5, <1>a, <3>2
    <3>4. added = AckRange(ranges[r + 1].first, ranges[r + 1].last)
      BY <3>2, <3>3
    <3> QED
      BY <1>4, <3>4
  <2> HIDE DEF added, before, n, block
  <2>3. /\ read.ranges = Append(st.ranges, added) /\ Len(read.ranges) = n + 1
        /\ read.ranges[n + 1] = added
        /\ \A i \in 1..n : read.ranges[i] = st.ranges[i]
    BY <1>1, <1>6, <1>7, <2>1, AppendProperties DEF n
  <2>4. Len(read.ranges) = r + 1 /\ read.ranges[r + 1] = ranges[r + 1]
    BY <2>1, <2>2, <2>3
  <2>5. \A i \in 1..r + 1 : read.ranges[i] = ranges[i]
    BY <1>3, <2>1, <2>3, <2>4
  <2> HIDE DEF read
  <2> QED
    BY <1>6, <2>4, <2>5 DEF ReadUpTo, read, block
<1>9. CASE d # 0
  <2>1. /\ st.inLong /\ n = r + 1
        /\ before = AckRange(ranges[r].first - d, ranges[r].first - d - 1)
        /\ \A i \in 1..r : st.ranges[i] = ranges[i]
    BY <1>3, <1>9 DEF InGap, ReadTo
  <2>2. moved = ranges[r + 1]
    <3>1. before.first = ranges[r].first - d /\ before.last = ranges[r].first - d - 1
      BY <2>1 DEF AckRange
    <3> HIDE DEF before, block
    <3>2. /\ before.first - block.gap - block.length = ranges[r + 1].first
          /\ before.last - block.gap = ranges[r + 1].last
      BY <1>5, <1>a, <3>1
    <3>3. moved = AckRange(ranges[r + 1].first, ranges[r + 1].last)
      BY <3>2
    <3> HIDE DEF moved
    <3> QED
      BY <1>4, <3>3
  <2> HIDE DEF moved, before, n, block
  <2>3. /\ read.ranges = [st.ranges EXCEPT ![n] = moved] /\ Len(read.ranges) = n
        /\ read.ranges[n] = moved
        /\ \A i \in 1..n : i # n => read.ranges[i] = st.ranges[i]
    BY <1>1, <1>6, <1>7, <2>1, ExceptSeq DEF n
  <2>4. Len(read.ranges) = r + 1 /\ read.ranges[r + 1] = ranges[r + 1]
    BY <2>1, <2>2, <2>3
  <2>5. \A i \in 1..r + 1 : read.ranges[i] = ranges[i]
    BY <1>3, <2>1, <2>3, <2>4
  <2> HIDE DEF read
  <2> QED
    BY <1>6, <2>4, <2>5 DEF ReadUpTo, read, block
<1> QED
  BY <1>8, <1>9

\* The blocks of the gap below range r take the reader to range r + 1.
LEMMA GapRead ==
  ASSUME NEW ranges, Descending(ranges), NEW r \in 1..Len(ranges) - 1, NEW p \in Nat, NEW g,
         \A j \in 0..BlocksFor(Gap(ranges, r)) : g[p + j] \in ReaderStates,
         \A j \in 1..BlocksFor(Gap(ranges, r)) :
            g[p + j] = ReadBlock(g[p + j - 1],
                                 Blocks(Gap(ranges, r), RangeLen(ranges[r + 1]))[j]),
         ReadUpTo(g[p], ranges, r)
  PROVE  ReadUpTo(g[p + BlocksFor(Gap(ranges, r))], ranges, r + 1)
<1> DEFINE gap == Gap(ranges, r)
           n == BlocksFor(gap)
           rest == 1 + ((gap - 1) % MaxGap)
           length == RangeLen(ranges[r + 1])
           blocks == Blocks(gap, length)
           S == {j \in 0..n - 1 : ReadTo(g[p + j], ranges, r, j * MaxGap)}
<1>1. /\ r \in 1..Len(ranges) /\ r + 1 \in 1..Len(ranges)
      /\ gap \in Nat /\ gap > 0 /\ length \in Nat
  BY RangeFields
<1>2. /\ n \in Nat /\ n > 0 /\ rest \in 1..MaxGap /\ gap = (n - 1) * MaxGap + rest
      /\ MaxGap \in Nat /\ MaxGap > 0
  <2> HIDE DEF gap
  <2>1. n \in Nat /\ n > 0 /\ rest \in 1..MaxGap /\ gap = (n - 1) * MaxGap + rest
    <3>1. gap \in Nat /\ gap > 0
      BY <1>1
    <3> QED
      BY <3>1, GapSplits
  <2> HIDE DEF n, rest
  <2> QED
    BY <2>1, MaxGapAssumption
<1>3. /\ \A j \in 1..n - 1 : blocks[j] = [gap |-> MaxGap, length |-> 0]
      /\ blocks[n] = [gap |-> rest, length |-> length]
  <2> HIDE DEF gap, length
  <2> QED
    BY <1>1, BlocksShape DEF n, rest, blocks
<1>4. /\ \A j \in 0..n : g[p + j] \in ReaderStates
      /\ \A j \in 1..n : g[p + j] = ReadBlock(g[p + j - 1], blocks[j])
      /\ ReadUpTo(g[p], ranges, r)
  OBVIOUS
<1> HIDE DEF gap, n, rest, length, blocks
<1>5. 0 \in S
  <2>1. 0 \in 0..n - 1 /\ p + 0 = p /\ 0 * MaxGap = 0
    BY <1>2
  <2>2. ReadTo(g[p], ranges, r, 0)
    BY <1>4 DEF ReadTo
  <2> QED
    BY <2>1, <2>2
<1>6. \A j \in 0..n - 1 : j < n - 1 /\ j \in S => j + 1 \in S
  <2> SUFFICES ASSUME NEW j \in 0..n - 1, j < n - 1, j \in S
               PROVE  j + 1 \in S
    OBVIOUS
  <2>1. /\ j + 1 \in 1..n - 1 /\ j + 1 \in 0..n - 1 /\ j + 1 \in 1..n /\ j \in 0..n /\ j \in Nat
        /\ p + (j + 1) - 1 = p + j
    BY <1>2
  <2>2. /\ j * MaxGap \in Nat /\ j * MaxGap + MaxGap = (j + 1) * MaxGap
        /\ (j + 1) * MaxGap # 0
    <3>1. /\ j * MaxGap \in Int /\ j * MaxGap >= 0
      BY <1>2, <2>1
    <3>2. (j + 1) * MaxGap = j * MaxGap + MaxGap
      BY <1>2, <2>1
    <3> QED
      BY <1>2, <3>1, <3>2
  <2>3. ReadTo(g[p + j], ranges, r, j * MaxGap)
    OBVIOUS
  <2>4. g[p + j] \in ReaderStates
    BY <1>4, <2>1
  <2>5. InGap(ReadBlock(g[p + j], [gap |-> MaxGap, length |-> 0]), ranges, r, j * MaxGap + MaxGap)
    <3> DEFINE st == g[p + j]
               d == j * MaxGap
    <3>1. st \in ReaderStates /\ d \in Nat /\ ReadTo(st, ranges, r, d)
      BY <2>2, <2>3, <2>4
    <3> HIDE DEF st, d
    <3>2. InGap(ReadBlock(st, [gap |-> MaxGap, length |-> 0]), ranges, r, d + MaxGap)
      BY <1>1, <1>2, <3>1, LongBlock
    <3> QED
      BY <3>2 DEF st, d
  <2>6. g[p + (j + 1)] = ReadBlock(g[p + j], [gap |-> MaxGap, length |-> 0])
    <3>1. g[p + (j + 1)] = ReadBlock(g[p + (j + 1) - 1], blocks[j + 1])
      BY <1>4, <2>1
    <3>2. blocks[j + 1] = [gap |-> MaxGap, length |-> 0]
      BY <1>3, <2>1
    <3> QED
      BY <2>1, <3>1, <3>2
  <2>7. ReadTo(g[p + (j + 1)], ranges, r, (j + 1) * MaxGap)
    BY <2>2, <2>5, <2>6 DEF ReadTo
  <2> QED
    BY <2>1, <2>7
<1>7. n - 1 \in S
  <2>1. n - 1 \in Nat /\ n - 1 \in 0..n - 1
    BY <1>2
  <2> HIDE DEF S
  <2>2. 0..n - 1 \subseteq S
    BY <1>5, <1>6, <2>1, Climb
  <2> QED
    BY <2>1, <2>2
<1>8. /\ n - 1 \in 0..n /\ n \in 1..n /\ p + n - 1 = p + (n - 1)
      /\ (n - 1) * MaxGap \in Nat /\ rest \in Nat
  <2>1. n - 1 \in Nat
    BY <1>2
  <2>2. (n - 1) * MaxGap \in Nat
    BY <1>2, <2>1
  <2> QED
    BY <1>2, <2>1, <2>2
<1>9. ReadTo(g[p + (n - 1)], ranges, r, (n - 1) * MaxGap) /\ g[p + (n - 1)] \in ReaderStates
  BY <1>4, <1>7, <1>8
<1>10. ReadUpTo(ReadBlock(g[p + (n - 1)], [gap |-> rest, length |-> length]), ranges, r + 1)
  <2> DEFINE st == g[p + (n - 1)]
             d == (n - 1) * MaxGap
  <2>1. /\ st \in ReaderStates /\ d \in Nat /\ ReadTo(st, ranges, r, d)
        /\ d + rest = Gap(ranges, r) /\ length = RangeLen(ranges[r + 1])
    BY <1>2, <1>8, <1>9 DEF gap, length
  <2> HIDE DEF st, d
  <2>2. ReadUpTo(ReadBlock(st, [gap |-> rest, length |-> length]), ranges, r + 1)
    BY <1>1, <1>8, <2>1, LastBlock
  <2> QED
    BY <2>2 DEF st
<1>11. g[p + n] = ReadBlock(g[p + (n - 1)], [gap |-> rest, length |-> length])
  BY <1>3, <1>4, <1>8
<1>12. ReadUpTo(g[p + n], ranges, r + 1)
  BY <1>10, <1>11
<1> QED
  BY <1>12 DEF n, gap

\* The blocks of the first m gaps take the reader to range m + 1.
LEMMA AllGapsRead ==
  ASSUME NEW ranges, Descending(ranges), NEW m \in 0..Len(ranges) - 1,
         NEW w, Laid(w.blocks, ranges, m),
         w.largestAcked = ranges[1].last, w.length = RangeLen(ranges[1])
  PROVE  LET read == Reading(w)[Len(w.blocks)]
         IN read \in ReaderStates /\ ReadUpTo(read, ranges, m + 1)
<1> DEFINE count == BlockCount(ranges)
           g == Reading(w)
           n == Len(w.blocks)
           size(k) == BlocksFor(Gap(ranges, k))
           B(k) == Blocks(Gap(ranges, k), RangeLen(ranges[k + 1]))
           S == {k \in 0..m : ReadUpTo(g[count[k]], ranges, k + 1)}
<1>1. m \in Nat /\ m <= Len(ranges) - 1 /\ Len(ranges) \in Nat
  BY RangeFields
<1>2. /\ w.blocks \in Seq(AckBlocks) /\ n = count[m]
      /\ \A k \in 1..m : \A j \in 1..size(k) : w.blocks[count[k - 1] + j] = B(k)[j]
  BY DEF Laid
<1>3. /\ \A k \in 0..m : count[k] \in Nat /\ count[k] <= count[m]
      /\ count[0] = 0
      /\ \A k \in 1..m : count[k] = count[k - 1] + size(k) /\ size(k) \in Nat
  <2>1. ASSUME NEW k \in 0..m
        PROVE  count[k] \in Nat /\ count[k] <= count[m]
    <3>1. k \in 0..Len(ranges) - 1 /\ k <= m
      BY <1>1
    <3>2. count[k] \in Nat /\ count[m] \in Nat /\ count[k] + (m - k) <= count[m]
      BY <3>1, CountRises
    <3> HIDE DEF count
    <3> QED
      BY <1>1, <3>1, <3>2
  <2>2. count[0] = 0
    BY CountLoop
  <2>3. ASSUME NEW k \in 1..m
        PROVE  count[k] = count[k - 1] + size(k) /\ size(k) \in Nat
    <3>1. k \in 1..Len(ranges) - 1
      BY <1>1
    <3> QED
      BY <3>1, CountLoop, RangeFields
  <2> HIDE DEF count, size
  <2> QED
    BY <2>1, <2>2, <2>3
<1>4. /\ n \in Nat /\ g \in [0..n -> ReaderStates]
      /\ g[0].ranges = <<AckRange(w.largestAcked - w.length + 1, w.largestAcked)>>
      /\ ~g[0].inLong
      /\ \A k \in 1..n : g[k] = ReadBlock(g[k - 1], w.blocks[k])
  <2>1. 1 \in 1..Len(ranges) /\ w.largestAcked \in Int /\ w.length \in Int
    BY <1>1, RangeFields
  <2> QED
    BY <1>2, <2>1, ReadingLoop
<1> HIDE DEF count, g, n, size, B
<1>5. 0 \in S
  <2>1. g[0].ranges = <<ranges[1]>>
    <3> DEFINE x == ranges[1].first
               y == ranges[1].last
    <3>1. ranges[1] \in Spans /\ x \in Nat /\ y \in Nat
      BY <1>1, RangeFields
    <3>2. \A z \in Spans : z = AckRange(z.first, z.last)
      BY DEF Spans, AckRange
    <3>3. w.largestAcked = y /\ w.length = y - x + 1
      BY DEF RangeLen
    <3>4. w.largestAcked - w.length + 1 = x
      <4> HIDE DEF x, y
      <4> QED
        BY <3>1, <3>3
    <3>5. ranges[1] = AckRange(x, y)
      BY <3>1, <3>2
    <3> HIDE DEF x, y
    <3> QED
      BY <1>4, <3>3, <3>4, <3>5
  <2>2. Len(g[0].ranges) = 1 /\ g[0].ranges[1] = ranges[1]
    BY <2>1
  <2>3. ReadUpTo(g[0], ranges, 1)
    BY <1>4, <2>2 DEF ReadUpTo
  <2> QED
    BY <1>1, <1>3, <2>3
<1>6. \A k \in 0..m : k < m /\ k \in S => k + 1 \in S
  <2> SUFFICES ASSUME NEW k \in 0..m, k < m, k \in S
               PROVE  k + 1 \in S
    OBVIOUS
  <2> DEFINE r == k + 1
             p == count[k]
  <2>1. /\ r \in 1..Len(ranges) - 1 /\ r \in 1..m /\ r \in 0..m /\ r - 1 = k /\ p \in Nat
        /\ ReadUpTo(g[p], ranges, r)
    BY <1>1, <1>3
  <2>2. count[r] = p + size(r) /\ size(r) \in Nat /\ count[r] <= n
    BY <1>2, <1>3, <2>1
  <2> HIDE DEF r, p
  <2>3. ASSUME NEW j \in 0..size(r)
        PROVE  p + j \in 0..n
    BY <1>4, <2>1, <2>2
  <2>4. ASSUME NEW j \in 1..size(r)
        PROVE  g[p + j] = ReadBlock(g[p + j - 1], B(r)[j])
    <3>1. p + j \in 1..n
      BY <1>4, <2>1, <2>2
    <3>2. w.blocks[p + j] = B(r)[j]
      <4>1. w.blocks[count[r - 1] + j] = B(r)[j]
        BY <1>2, <2>1
      <4>2. count[r - 1] = p
        BY <2>1 DEF p
      <4> QED
        BY <4>1, <4>2
    <3>3. g[p + j] = ReadBlock(g[p + j - 1], w.blocks[p + j])
      <4> DEFINE i == p + j
      <4>1. i \in 1..n
        BY <3>1
      <4> HIDE DEF i
      <4>2. g[i] = ReadBlock(g[i - 1], w.blocks[i])
        BY <1>4, <4>1
      <4>3. i = p + j /\ i - 1 = p + j - 1
        BY <2>1, <2>2 DEF i
      <4> QED
        BY <4>2, <4>3
    <3> QED
      BY <3>2, <3>3
  <2>5. ReadUpTo(g[p + size(r)], ranges, r + 1)
    <3>1. \A j \in 0..size(r) : g[p + j] \in ReaderStates
      BY <1>4, <2>3
    <3> QED
      BY <2>1, <2>4, <3>1, GapRead DEF size, B
  <2> QED
    BY <2>1, <2>2, <2>5 DEF r
<1>7. m \in S
  <2> HIDE DEF S
  <2>1. 0..m \subseteq S
    BY <1>1, <1>5, <1>6, Climb
  <2> QED
    BY <1>1, <2>1
<1>8. g[n] \in ReaderStates /\ ReadUpTo(g[n], ranges, m + 1)
  BY <1>2, <1>4, <1>7
<1> QED
  BY <1>8 DEF g, n

\* What the peer reads from a frame with several ranges is those of them that
\* fit on the wire, in their order and with their ends.
LEMMA ReadIsWritten ==
  ASSUME NEW f, f.ackRanges # <<>>, Descending(f.ackRanges), f.largestAcked = f.ackRanges[1].last,
         Writable(f.ackRanges) \in 1..Len(f.ackRanges) - 1
  PROVE  LET ranges == f.ackRanges
             m      == Writable(ranges)
             read   == ReadRanges(WriteTo(f))
         IN /\ read \in Seq(Spans) /\ Len(read) = m + 1
            /\ \A i \in 1..m + 1 : read[i] = ranges[i]
<1> DEFINE ranges == f.ackRanges
           m == Writable(ranges)
           w == WriteTo(f)
           read == Reading(w)[Len(w.blocks)]
<1>1. /\ w.blocks = Written(ranges)[m] /\ w.largestAcked = ranges[1].last
      /\ w.length = RangeLen(ranges[1]) /\ w.missing
  BY DEF WriteTo
<1>2. m \in 0..Len(ranges) - 1 /\ m \in Nat /\ m > 0 /\ Descending(ranges)
  BY RangeFields
<1>3. ReadRanges(w) = IF w.missing /\ ~read.complete THEN Front(read.ranges) ELSE read.ranges
  BY DEF ReadRanges
<1> HIDE DEF ranges, m, w
<1>4. read \in ReaderStates /\ ReadUpTo(read, ranges, m + 1)
  <2>1. Laid(w.blocks, ranges, m)
    BY <1>1, <1>2, WrittenItems
  <2> QED
    BY <1>1, <1>2, <2>1, AllGapsRead
<1> HIDE DEF read
<1>5. read.complete
  BY <1>2, <1>4 DEF ReadUpTo
<1>6. ReadRanges(w) = read.ranges
  BY <1>3, <1>5
<1>7. /\ read.ranges \in Seq(Spans) /\ Len(read.ranges) = m + 1
      /\ \A i \in 1..m + 1 : read.ranges[i] = ranges[i]
  BY <1>4 DEF ReaderStates, ReadUpTo
<1> QED
  BY <1>6, <1>7 DEF ranges, m, w

-----------------------------------------------------------------------------
(* The maximal runs of a set of numbers                                    *)

LEMMA LeastOf ==
  ASSUME NEW S \in SUBSET Nat, S # {}
  PROVE  Min(S) \in S /\ \A n \in S : Min(S) <= n
<1>1. \E least \in S : \A n \in S : least <= n
  BY LeastNumber
<1> QED
  BY <1>1 DEF Min

LEMMA LargestOf ==
  ASSUME NEW b \in Nat, NEW S \in SUBSET (0..b), S # {}
  PROVE  Max(S) \in S /\ \A n \in S : n <= Max(S)
<1> DEFINE T == {n \in 0..b : b - n \in S}
<1>1. T \in SUBSET Nat
  OBVIOUS
<1>2. T # {}
  <2>1. PICK n \in S : TRUE
    OBVIOUS
  <2>2. b - n \in T
    BY <2>1
  <2> QED
    BY <2>2
<1>3. PICK least \in T : \A n \in T : least <= n
  <2> HIDE DEF T
  <2> QED
    BY <1>1, <1>2, LeastNumber
<1>4. b - least \in S
  BY <1>3
<1>5. ASSUME NEW n \in S
      PROVE  b - least >= n
  <2>1. b - n \in T
    OBVIOUS
  <2>2. least <= b - n
    BY <1>3, <2>1
  <2> QED
    BY <1>3, <2>2
<1>6. \E x \in S : \A y \in S : x >= y
  BY <1>4, <1>5
<1>7. Max(S) \in S /\ \A y \in S : Max(S) >= y
  BY <1>6 DEF Max
<1> QED
  BY <1>7

\* The numbers that can stand in a list of arrived packets.
RunSets(b) == {S \in SUBSET (1..b) : S # {}}

\* The last number of the run that starts with s.
RunEnd(S, s) == Max({n \in S : s..n \subseteq S})

LEMMA RunEnds ==
  ASSUME NEW b \in Nat, NEW S \in RunSets(b), NEW s \in S
  PROVE  /\ s \in Nat /\ s > 0 /\ RunEnd(S, s) \in S /\ s <= RunEnd(S, s)
         /\ s..RunEnd(S, s) \subseteq S /\ RunEnd(S, s) + 1 \notin S
         /\ \A n \in S : s..n \subseteq S => n <= RunEnd(S, s)
<1> DEFINE T == {n \in S : s..n \subseteq S}
           e == Max(T)
<1>1. s \in Nat /\ s > 0 /\ s \in T /\ T \in SUBSET (0..b)
  <2>1. s \in Nat /\ s > 0 /\ S \in SUBSET (0..b)
    BY DEF RunSets
  <2>2. s..s = {s}
    BY <2>1
  <2> QED
    BY <2>1, <2>2
<1>2. e \in T /\ \A n \in T : n <= e
  <2> HIDE DEF T
  <2> QED
    BY <1>1, LargestOf
<1>3. e \in Nat /\ s <= e
  <2>1. e \in Nat /\ s \in T
    BY <1>1, <1>2
  <2> HIDE DEF T, e
  <2> QED
    BY <1>2, <2>1
<1> HIDE DEF e
<1>4. e + 1 \notin S
  <2>1. SUFFICES ASSUME e + 1 \in S PROVE FALSE
    OBVIOUS
  <2>2. s..e + 1 \subseteq S
    BY <1>1, <1>2, <1>3, <2>1
  <2>3. e + 1 \in T
    BY <2>1, <2>2
  <2>4. e + 1 <= e
    BY <1>2, <2>3
  <2> QED
    BY <1>3, <2>4
<1>5. e \in S /\ s..e \subseteq S /\ \A n \in S : s..n \subseteq S => n <= e
  BY <1>2
<1>6. e = RunEnd(S, s)
  BY DEF RunEnd, e
<1> HIDE DEF T
<1> QED
  BY <1>1, <1>3, <1>4, <1>5, <1>6

\* Each number lies in one of the runs.
LEMMA InARun ==
  ASSUME NEW b \in Nat, NEW S \in RunSets(b), NEW n \in S
  PROVE  \E s \in RunStarts(S) : s <= n /\ s..n \subseteq S /\ n <= RunEnd(S, s)
<1> DEFINE T == {k \in 0..n : k..n \subseteq S}
<1>1. n \in Nat /\ n > 0 /\ n \in T /\ T \in SUBSET Nat /\ 0 \notin S /\ \A k \in S : k \in Nat
  BY DEF RunSets
<1>2. PICK s \in T : \A k \in T : s <= k
  <2> HIDE DEF T
  <2> QED
    BY <1>1, LeastNumber
<1>3. s \in Nat /\ s <= n /\ s..n \subseteq S /\ s \in S
  BY <1>1, <1>2
<1>4. s - 1 \notin S
  <2>1. SUFFICES ASSUME s - 1 \in S PROVE FALSE
    OBVIOUS
  <2>2. s - 1 \in 0..n /\ (s - 1)..n \subseteq S
    BY <1>1, <1>3, <2>1
  <2>3. s <= s - 1
    BY <1>2, <2>2
  <2> QED
    BY <1>3, <2>3
<1>5. s \in RunStarts(S)
  BY <1>3, <1>4 DEF RunStarts
<1>6. n <= RunEnd(S, s)
  BY <1>3, RunEnds
<1> QED
  BY <1>3, <1>5, <1>6

\* There are finitely many runs, and each number has fewer runs above it.
LEMMA RunCount ==
  ASSUME NEW b \in Nat, NEW S \in RunSets(b)
  PROVE  /\ RunStarts(S) \subseteq S /\ IsFiniteSet(RunStarts(S))
         /\ Cardinality(RunStarts(S)) \in Nat /\ Cardinality(RunStarts(S)) > 0
         /\ \A n \in S : /\ IsFiniteSet({m \in RunStarts(S) : m > n})
                         /\ RunIndex(S, n) \in 0..Cardinality(RunStarts(S)) - 1
<1> DEFINE R == RunStarts(S)
           Above(n) == {m \in R : m > n}
<1>1. R \in SUBSET S /\ S \in SUBSET (1..b) /\ S # {}
  BY DEF RunStarts, RunSets
<1>2. IsFiniteSet(R) /\ Cardinality(R) \in Nat
  <2>1. IsFiniteSet(1..b)
    BY FS_Interval
  <2>2. R \in SUBSET (1..b)
    BY <1>1
  <2> HIDE DEF R
  <2>3. IsFiniteSet(R)
    BY <2>1, <2>2, FS_Subset
  <2> QED
    BY <2>3, FS_CardinalityType
<1>3. ASSUME NEW n \in S
      PROVE  IsFiniteSet(Above(n)) /\ RunIndex(S, n) \in 0..Cardinality(R) - 1
  <2>1. PICK s \in R : s <= n
    BY InARun
  <2>2. s \in Nat /\ n \in Nat
    <3>1. s \in S /\ \A k \in S : k \in Nat
      BY <1>1, <2>1
    <3> QED
      BY <3>1
  <2>3. Above(n) \in SUBSET R /\ s \notin Above(n)
    BY <2>1, <2>2
  <2>4. RunIndex(S, n) = Cardinality(Above(n))
    BY DEF RunIndex
  <2> HIDE DEF Above, R
  <2>5. IsFiniteSet(Above(n)) /\ Cardinality(Above(n)) <= Cardinality(R)
    BY <1>2, <2>3, FS_Subset
  <2>6. Cardinality(Above(n)) # Cardinality(R)
    BY <1>2, <2>1, <2>3, FS_Subset
  <2>7. Cardinality(Above(n)) \in Nat
    BY <2>5, FS_CardinalityType
  <2> QED
    BY <1>2, <2>4, <2>5, <2>6, <2>7
<1>4. Cardinality(R) > 0
  <2>1. PICK n \in S : TRUE
    BY <1>1
  <2>2. RunIndex(S, n) \in 0..Cardinality(R) - 1
    BY <1>3
  <2> HIDE DEF R
  <2> QED
    BY <1>2, <2>2
<1> QED
  BY <1>1, <1>2, <1>3, <1>4

\* Going down, runs are only added.
LEMMA IndexRises ==
  ASSUME NEW b \in Nat, NEW S \in RunSets(b), NEW n \in S, NEW m \in S, n <= m
  PROVE  /\ RunIndex(S, m) <= RunIndex(S, n)
         /\ m \in RunStarts(S) /\ n # m => RunIndex(S, m) < RunIndex(S, n)
<1> DEFINE A == {k \in RunStarts(S) : k > m}
           B == {k \in RunStarts(S) : k > n}
<1>1. \A k \in S : k \in Nat
  BY DEF RunSets
<1>2. IsFiniteSet(B) /\ RunIndex(S, m) = Cardinality(A) /\ RunIndex(S, n) = Cardinality(B)
  BY RunCount DEF RunIndex
<1>3. A \in SUBSET B
  BY <1>1, RunCount
<1>4. m \in RunStarts(S) /\ n # m => m \in B /\ m \notin A
  BY <1>1
<1>5. RunIndex(S, m) \in Nat /\ RunIndex(S, n) \in Nat
  <2>1. \A k \in S : RunIndex(S, k) \in 0..Cardinality(RunStarts(S)) - 1
    BY RunCount
  <2> QED
    BY <2>1
<1> HIDE DEF A, B
<1>6. Cardinality(A) <= Cardinality(B) /\ (Cardinality(B) = Cardinality(A) => B = A)
  BY <1>2, <1>3, FS_Subset
<1> QED
  BY <1>2, <1>4, <1>5, <1>6

\* The numbers of one run have the same runs above them.
LEMMA SameRun ==
  ASSUME NEW b \in Nat, NEW S \in RunSets(b), NEW s \in RunStarts(S),
         NEW n \in S, s <= n, s..n \subseteq S
  PROVE  RunIndex(S, n) = RunIndex(S, s)
<1>1. \A k \in RunStarts(S) : k \in Nat /\ k - 1 \notin S
  BY DEF RunSets, RunStarts
<1>2. n \in Nat
  BY DEF RunSets
<1>3. ASSUME NEW k \in RunStarts(S), k > s, ~(k > n)
      PROVE  FALSE
  <2>1. k - 1 \in s..n
    BY <1>1, <1>2, <1>3
  <2> QED
    BY <1>1, <2>1
<1>4. {k \in RunStarts(S) : k > n} = {k \in RunStarts(S) : k > s}
  BY <1>1, <1>2, <1>3
<1> QED
  BY <1>4 DEF RunIndex

\* Every index below the number of runs is that of one run.
LEMMA OneRunEach ==
  ASSUME NEW b \in Nat, NEW S \in RunSets(b), NEW i \in 0..Cardinality(RunStarts(S)) - 1
  PROVE  \E s \in RunStarts(S) : /\ RunIndex(S, s) = i
                                 /\ \A t \in RunStarts(S) : RunIndex(S, t) = i => t = s
<1> DEFINE R == RunStarts(S)
           K == Cardinality(R)
           T == 0..K - 1
           g == [s \in R |-> RunIndex(S, s)]
<1>1. R \subseteq S /\ IsFiniteSet(R) /\ K \in Nat /\ K > 0 /\ \A s \in R : g[s] \in T
  BY RunCount
<1>2. ASSUME NEW s \in R, NEW t \in R, g[s] = g[t]
      PROVE  s = t
  <2>1. s \in Nat /\ t \in Nat /\ s \in S /\ t \in S
    <3>1. \A k \in S : k \in Nat
      BY DEF RunSets
    <3>2. s \in S /\ t \in S
      BY <1>1
    <3> QED
      BY <3>1, <3>2
  <2>2. g[s] \in Nat /\ g[t] \in Nat /\ g[s] = RunIndex(S, s) /\ g[t] = RunIndex(S, t)
    BY <1>1
  <2>3. s < t => g[t] < g[s]
    BY <2>1, <2>2, IndexRises
  <2>4. t < s => g[s] < g[t]
    BY <2>1, <2>2, IndexRises
  <2> HIDE DEF g
  <2> QED
    BY <1>2, <2>1, <2>2, <2>3, <2>4
<1>3. g \in Injection(R, T)
  BY <1>1, <1>2 DEF Injection, IsInjective
<1>4. IsFiniteSet(T) /\ Cardinality(T) = K
  <2>1. 0 \in Int /\ K - 1 \in Int
    BY <1>1
  <2>2. IsFiniteSet(T) /\ Cardinality(T) = IF 0 > K - 1 THEN 0 ELSE K - 1 - 0 + 1
    BY <2>1, FS_Interval
  <2> HIDE DEF T, K
  <2> QED
    BY <1>1, <2>2
<1>5. g \in Surjection(R, T)
  <2> HIDE DEF g, T
  <2> QED
    BY <1>3, <1>4, FS_Injection
<1>6. PICK s \in R : g[s] = i
  BY <1>5 DEF Surjection
<1> QED
  BY <1>2, <1>6

\* A range goes from the start of its run to the end.
LEMMA RangeEnds ==
  ASSUME NEW b \in Nat, NEW S \in RunSets(b), NEW i \in 1..Cardinality(RunStarts(S))
  PROVE  LET r == RunOf(S, i)
         IN /\ r \in Spans /\ r.first \in RunStarts(S) /\ RunIndex(S, r.first) = i - 1
            /\ r.first \in S /\ r.first \in Nat /\ r.first > 0 /\ r.first - 1 \notin S
            /\ r.last = RunEnd(S, r.first) /\ r.last \in S /\ r.last \in Nat
            /\ r.first <= r.last /\ r.first..r.last \subseteq S /\ r.last + 1 \notin S
            /\ \A t \in RunStarts(S) : RunIndex(S, t) = i - 1 => t = r.first
<1> DEFINE R == RunStarts(S)
           start == CHOOSE n \in R : RunIndex(S, n) = i - 1
           r == RunOf(S, i)
<1>1. i - 1 \in 0..Cardinality(R) - 1
  <2> DEFINE K == Cardinality(R)
  <2>1. K \in Nat /\ i \in 1..K
    BY RunCount
  <2> HIDE DEF K
  <2>2. i - 1 \in 0..K - 1
    BY <2>1
  <2> QED
    BY <2>2 DEF K
<1>2. PICK s \in R : RunIndex(S, s) = i - 1 /\ \A t \in R : RunIndex(S, t) = i - 1 => t = s
  BY <1>1, OneRunEach
<1>3. start = s
  BY <1>2
<1>4. r = AckRange(start, RunEnd(S, start))
  BY DEF RunOf, RunEnd
<1> HIDE DEF r, start
<1>5. r.first = s /\ r.last = RunEnd(S, s) /\ r = AckRange(s, RunEnd(S, s))
  BY <1>3, <1>4 DEF AckRange
<1>6. s \in S /\ s - 1 \notin S
  BY <1>2 DEF RunStarts
<1>7. /\ s \in Nat /\ s > 0 /\ RunEnd(S, s) \in S /\ s <= RunEnd(S, s)
      /\ s..RunEnd(S, s) \subseteq S /\ RunEnd(S, s) + 1 \notin S
  BY <1>6, RunEnds
<1>8. RunEnd(S, s) \in Nat
  <2>1. \A k \in S : k \in Nat
    BY DEF RunSets
  <2> QED
    BY <1>7, <2>1
<1>9. r \in Spans
  BY <1>5, <1>7, <1>8 DEF Spans, AckRange
<1> QED
  BY <1>2, <1>5, <1>6, <1>7, <1>8, <1>9 DEF r

\* A number lies in the range that its index says.
LEMMA RangeNumbers ==
  ASSUME NEW b \in Nat, NEW S \in RunSets(b), NEW i \in 1..Cardinality(RunStarts(S)), NEW n
  PROVE  n \in RunOf(S, i).first..RunOf(S, i).last <=> n \in S /\ RunIndex(S, n) = i - 1
<1> DEFINE r == RunOf(S, i)
           f == r.first
           e == r.last
<1>1. /\ f \in RunStarts(S) /\ RunIndex(S, f) = i - 1
      /\ e = RunEnd(S, f) /\ f \in Nat /\ e \in Nat /\ f..e \subseteq S
      /\ \A t \in RunStarts(S) : RunIndex(S, t) = i - 1 => t = f
  BY RangeEnds
<1> HIDE DEF f, e
<1>2. ASSUME n \in f..e
      PROVE  n \in S /\ RunIndex(S, n) = i - 1
  <2>1. n \in S /\ f <= n /\ f..n \subseteq S
    BY <1>1, <1>2
  <2> QED
    BY <1>1, <2>1, SameRun
<1>3. ASSUME n \in S, RunIndex(S, n) = i - 1
      PROVE  n \in f..e
  <2>1. PICK s \in RunStarts(S) : s <= n /\ s..n \subseteq S /\ n <= RunEnd(S, s)
    BY <1>3, InARun
  <2>2. RunIndex(S, s) = i - 1
    BY <1>3, <2>1, SameRun
  <2>3. s = f
    BY <1>1, <2>2
  <2>4. n \in Nat
    BY <1>3 DEF RunSets
  <2> QED
    BY <1>1, <2>1, <2>3, <2>4
<1> QED
  BY <1>2, <1>3 DEF f, e

\* toFrame() finds the ranges from the highest to the lowest.
LEMMA RangesDescend ==
  ASSUME NEW b \in Nat, NEW S \in RunSets(b)
  PROVE  /\ Len(RangesOf(S)) = Cardinality(RunStarts(S))
         /\ \A i \in 1..Cardinality(RunStarts(S)) : RangesOf(S)[i] = RunOf(S, i)
         /\ Descending(RangesOf(S))
<1> DEFINE K == Cardinality(RunStarts(S))
           ranges == RangesOf(S)
<1>1. K \in Nat /\ K > 0
  BY RunCount
<1>2. ranges = [i \in 1..K |-> RunOf(S, i)]
  BY DEF RangesOf
<1>3. \A i \in 1..K : RunOf(S, i) \in Spans
  BY RangeEnds
<1> HIDE DEF K, ranges
<1>4. ranges \in Seq(Spans) /\ Len(ranges) = K /\ \A i \in 1..K : ranges[i] = RunOf(S, i)
  BY <1>1, <1>2, <1>3
<1>5. ASSUME NEW i \in 1..K
      PROVE  0 < ranges[i].first /\ ranges[i].first <= ranges[i].last
  BY <1>4, RangeEnds DEF K
<1>6. ASSUME NEW i \in 1..K - 1
      PROVE  Gap(ranges, i) > 0
  <2> DEFINE f == RunOf(S, i).first
             low == RunOf(S, i + 1).first
             e == RunOf(S, i + 1).last
  <2>1. i \in 1..K /\ i + 1 \in 1..K
    BY <1>1
  <2>2. /\ f \in S /\ f \in Nat /\ f - 1 \notin S /\ RunIndex(S, f) = i - 1
    BY <2>1, RangeEnds DEF K
  <2>3. /\ low \in S /\ low \in Nat /\ RunIndex(S, low) = (i + 1) - 1
        /\ e \in Nat /\ low..e \subseteq S /\ e + 1 \notin S
    BY <2>1, RangeEnds DEF K
  <2>4. Gap(ranges, i) = f - e - 1
    BY <1>4, <2>1 DEF Gap
  <2> HIDE DEF f, low, e
  <2>5. ~(f <= low)
    <3>1. SUFFICES ASSUME f <= low PROVE FALSE
      OBVIOUS
    <3>2. RunIndex(S, low) <= RunIndex(S, f)
      BY <2>2, <2>3, <3>1, IndexRises
    <3> QED
      BY <2>1, <2>2, <2>3, <3>2
  <2>6. ~(f <= e)
    <3>1. SUFFICES ASSUME f <= e PROVE FALSE
      OBVIOUS
    <3>2. f - 1 \in low..e
      BY <2>2, <2>3, <2>5, <3>1
    <3> QED
      BY <2>2, <2>3, <3>2
  <2>7. f # e + 1
    BY <2>2, <2>3
  <2> QED
    BY <2>2, <2>3, <2>4, <2>6, <2>7
<1>7. Descending(ranges)
  BY <1>1, <1>4, <1>5, <1>6 DEF Descending
<1> QED
  BY <1>4, <1>7 DEF K, ranges

\* No number lies above the first range.
LEMMA TopRange ==
  ASSUME NEW b \in Nat, NEW S \in RunSets(b), NEW top \in S, \A n \in S : n <= top
  PROVE  RunOf(S, 1).last = top
<1> DEFINE e == RunOf(S, 1).last
           K == Cardinality(RunStarts(S))
<1>1. K \in Nat /\ 1 \in 1..K /\ \A n \in S : RunIndex(S, n) \in 0..K - 1
  <2>1. K \in Nat /\ K > 0 /\ \A n \in S : RunIndex(S, n) \in 0..K - 1
    BY RunCount
  <2> HIDE DEF K
  <2> QED
    BY <2>1
<1>2. e \in S /\ e \in Nat /\ RunOf(S, 1).first \in Nat /\ RunOf(S, 1).first <= e
  BY <1>1, RangeEnds
<1>3. e <= top /\ top \in Nat
  BY <1>2 DEF RunSets
<1>4. e \in RunOf(S, 1).first..RunOf(S, 1).last
  BY <1>2
<1>5. RunIndex(S, e) = 0
  <2>1. RunIndex(S, e) = 1 - 1
    BY <1>1, <1>4, RangeNumbers
  <2> QED
    BY <2>1
<1> HIDE DEF K
<1>6. RunIndex(S, top) = 0
  <2>1. RunIndex(S, top) <= RunIndex(S, e)
    BY <1>2, <1>3, IndexRises
  <2> QED
    BY <1>1, <1>5, <2>1
<1>7. top \in RunOf(S, 1).first..RunOf(S, 1).last
  <2>1. RunIndex(S, top) = 1 - 1
    BY <1>6
  <2> QED
    BY <1>1, <2>1, RangeNumbers DEF K
<1>8. top <= e
  BY <1>2, <1>7
<1> QED
  BY <1>2, <1>3, <1>8

-----------------------------------------------------------------------------
(* The ranges that get onto the wire                                       *)

\* A range lies below every one before it.
LEMMA RangesApart ==
  ASSUME NEW ranges, Descending(ranges), NEW i \in 1..Len(ranges), NEW j \in 1..Len(ranges), i < j
  PROVE  ranges[i].first - ranges[j].last - 1 > 0
<1> DEFINE n == j - i - 1
           S == {k \in 0..n : ranges[i].first - ranges[i + 1 + k].last - 1 > 0}
<1>1. /\ Len(ranges) \in Nat /\ i \in Nat /\ j \in Nat /\ n \in Nat
      /\ i \in 1..Len(ranges) - 1
      /\ \A x \in 1..Len(ranges) : ranges[x].first \in Nat /\ ranges[x].last \in Nat
  BY RangeFields
<1>2. \A x \in 1..Len(ranges) - 1 : ranges[x].first - ranges[x + 1].last - 1 > 0
  BY DEF Descending, Gap
<1>3. \A x \in 1..Len(ranges) : ranges[x].first <= ranges[x].last
  BY DEF Descending
<1>4. 0 \in S
  <2>1. 0 \in 0..n /\ i + 1 + 0 = i + 1
    BY <1>1
  <2> QED
    BY <1>1, <1>2, <2>1
<1>5. \A k \in 0..n : k < n /\ k \in S => k + 1 \in S
  <2> SUFFICES ASSUME NEW k \in 0..n, k < n, k \in S
               PROVE  k + 1 \in S
    OBVIOUS
  <2> DEFINE x == i + 1 + k
  <2>1. x \in 1..Len(ranges) - 1 /\ x \in 1..Len(ranges) /\ x + 1 \in 1..Len(ranges)
        /\ i + 1 + (k + 1) = x + 1 /\ k + 1 \in 0..n
    <3>1. k \in Nat /\ k + 1 <= n /\ n = j - i - 1 /\ j <= Len(ranges) /\ i > 0
      BY <1>1
    <3> DEFINE len == Len(ranges)
    <3> HIDE DEF n, len
    <3>2. x \in Nat /\ x > 0 /\ x + 1 <= len /\ len \in Nat
      BY <1>1, <3>1 DEF len
    <3>3. i + 1 + (k + 1) = x + 1 /\ k + 1 \in 0..n
      BY <1>1, <3>1
    <3> HIDE DEF x
    <3>4. x \in 1..len - 1 /\ x \in 1..len /\ x + 1 \in 1..len
      BY <3>2
    <3> QED
      BY <3>3, <3>4 DEF len
  <2>2. ranges[i].first - ranges[x].last - 1 > 0
    OBVIOUS
  <2> HIDE DEF x, S, n
  <2>3. ranges[i].first - ranges[x + 1].last - 1 > 0
    <3> DEFINE a == ranges[i].first
               p == ranges[x].last
               q == ranges[x].first
               r == ranges[x + 1].last
    <3>1. a \in Nat /\ p \in Nat /\ q \in Nat /\ r \in Nat
      BY <1>1, <2>1
    <3>2. a - p - 1 > 0 /\ q <= p /\ q - r - 1 > 0
      BY <1>2, <1>3, <2>1, <2>2
    <3> HIDE DEF a, p, q, r
    <3>3. a - r - 1 > 0
      BY <3>1, <3>2
    <3> QED
      BY <3>3 DEF a, r
  <2> QED
    BY <2>1, <2>3 DEF S
<1>6. n \in S
  <2> HIDE DEF S, n
  <2>1. 0..n \subseteq S
    BY <1>1, <1>4, <1>5, Climb
  <2> QED
    BY <1>1, <2>1
<1>7. i + 1 + n = j
  BY <1>1
<1> QED
  BY <1>6, <1>7

\* toFrame() keeps the highest ranges, and writeTo() sends none of the others.
LEMMA CutKeeps ==
  ASSUME NEW ranges, Descending(ranges)
  PROVE  LET cut == CutRanges(ranges)
         IN /\ Descending(cut) /\ Len(cut) \in Nat /\ Len(cut) <= Len(ranges)
            /\ Len(ranges) > 1 => Len(cut) > 1
            /\ Len(cut) = Len(ranges) \/ Len(cut) = MaxAckRanges + 1
            /\ \A i \in 1..Len(cut) : i <= MaxAckRanges => cut[i] = ranges[i]
<1> DEFINE cut == CutRanges(ranges)
           M == MaxAckRanges
           high == SubSeq(ranges, 1, M)
           low == ranges[Len(ranges)]
<1>1. Len(ranges) \in Nat /\ Len(ranges) > 0 /\ ranges \in Seq(Spans) /\ M \in Nat /\ M >= 2
  BY RangeFields, AckRangesAssumption DEF Descending
<1>2. CASE Len(ranges) <= M + 1
  <2>1. cut = ranges
    BY <1>1, <1>2 DEF CutRanges
  <2> QED
    BY <1>1, <2>1
<1>3. CASE Len(ranges) > M + 1
  <2>1. cut = Append(high, low)
    BY <1>3 DEF CutRanges, Last
  <2>2. \A i \in 1..Len(ranges) : ranges[i] \in Spans
    BY RangeFields
  <2>3. /\ high \in Seq(Spans) /\ Len(high) = M
        /\ \A i \in 1..M : high[i] = ranges[i]
    <3>1. \A i \in 1..M : ranges[i] \in Spans
      BY <1>1, <1>3, <2>2
    <3>2. /\ high \in Seq(Spans) /\ Len(high) = IF 1 <= M THEN M - 1 + 1 ELSE 0
          /\ \A i \in 1..M - 1 + 1 : high[i] = ranges[1 + i - 1]
      BY <1>1, <3>1, SubSeqProperties
    <3> HIDE DEF high
    <3>3. \A i \in 1..M : i \in 1..M - 1 + 1 /\ 1 + i - 1 = i
      BY <1>1
    <3> QED
      <4>1. Len(high) = M
        BY <1>1, <3>2
      <4>2. ASSUME NEW i \in 1..M
            PROVE  high[i] = ranges[i]
        <5>1. high[i] = ranges[1 + i - 1] /\ 1 + i - 1 = i
          BY <3>2, <3>3
        <5> QED
          BY <5>1
      <4> QED
        BY <3>2, <4>1, <4>2
  <2>4. low \in Spans
    BY <1>1, <2>2
  <2> HIDE DEF high, low, cut
  <2>5. /\ cut \in Seq(Spans) /\ Len(cut) = M + 1
        /\ \A i \in 1..M : cut[i] = ranges[i]
        /\ cut[M + 1] = low
    BY <2>1, <2>3, <2>4, AppendProperties
  <2>6. ASSUME NEW i \in 1..M + 1
        PROVE  \E j \in 1..Len(ranges) : cut[i] = ranges[j] /\ i <= j
    <3>1. CASE i = M + 1
      BY <1>1, <1>3, <2>5, <3>1 DEF low
    <3>2. CASE i # M + 1
      <4>1. i \in 1..M /\ i \in 1..Len(ranges)
        BY <1>1, <1>3, <3>2
      <4> QED
        BY <2>5, <4>1
    <3> QED
      BY <3>1, <3>2
  <2>7. \A i \in 1..M + 1 : 0 < cut[i].first /\ cut[i].first <= cut[i].last
    BY <2>6 DEF Descending
  <2>8. ASSUME NEW i \in 1..M
        PROVE  cut[i].first - cut[i + 1].last - 1 > 0
    <3>1. i \in 1..Len(ranges) /\ i + 1 \in 1..M + 1 /\ i \in Nat
      BY <1>1, <1>3
    <3>2. PICK j \in 1..Len(ranges) : cut[i + 1] = ranges[j] /\ i + 1 <= j
      BY <2>6, <3>1
    <3>3. i < j
      BY <3>1, <3>2
    <3>4. ranges[i].first - ranges[j].last - 1 > 0
      BY <3>1, <3>3, RangesApart
    <3> QED
      BY <2>5, <3>2, <3>4
  <2>9. Descending(cut)
    <3>1. Len(cut) - 1 = M /\ Len(cut) > 0
      BY <1>1, <2>5
    <3> QED
      BY <2>5, <2>7, <2>8, <3>1 DEF Descending, Gap
  <2> QED
    BY <1>1, <1>3, <2>5, <2>9 DEF cut
<1> QED
  BY <1>1, <1>2, <1>3

\* writeTo() sends less than MaxAckRanges ranges behind the first, and as many as
\* there are when no gap is too long for one block.
LEMMA WritableIs ==
  ASSUME NEW ranges, Descending(ranges)
  PROVE  LET m == Writable(ranges)
         IN /\ m \in 0..Len(ranges) - 1 /\ m \in Nat /\ m < MaxAckRanges
            /\ NoLongGap(ranges) => m = Len(ranges) - 1 \/ m = MaxAckRanges - 1
<1> DEFINE count == BlockCount(ranges)
           n == Len(ranges) - 1
           T == {k \in 0..n : count[k] < MaxAckRanges}
           m == Max(T)
           Short == NoLongGap(ranges)
<1>1. n \in Nat /\ MaxAckRanges \in Nat /\ MaxAckRanges >= 2
  BY RangeFields, AckRangesAssumption
<1>2. /\ count[0] = 0 /\ \A k \in 0..n : count[k] \in Nat /\ k <= count[k]
      /\ Short => \A k \in 0..n : count[k] = k
  <2>1. count[0] = 0
    BY CountLoop
  <2>2. ASSUME NEW k \in 0..n
        PROVE  count[k] \in Nat /\ k <= count[k] /\ (Short => count[k] = k)
    <3>1. 0 \in 0..n /\ 0 <= k /\ k \in Nat
      BY <1>1
    <3>2. count[k] \in Nat /\ count[0] + (k - 0) <= count[k] /\ (Short => count[0] + (k - 0) = count[k])
      BY <3>1, CountRises DEF NoLongGap
    <3> HIDE DEF count, Short
    <3> QED
      BY <2>1, <3>1, <3>2
  <2> HIDE DEF count, Short
  <2> QED
    BY <2>1, <2>2
<1> HIDE DEF count, n, Short
<1>3. m \in T /\ \A k \in T : k <= m
  <2>1. 0 \in T /\ T \in SUBSET (0..n)
    BY <1>1, <1>2
  <2> HIDE DEF T
  <2> QED
    BY <1>1, <2>1, LargestOf
<1> HIDE DEF m
<1>4. m \in 0..n /\ m \in Nat /\ m < MaxAckRanges
  BY <1>1, <1>2, <1>3
<1>5. Short => m = n \/ m = MaxAckRanges - 1
  <2> SUFFICES ASSUME Short, m # n, m # MaxAckRanges - 1
               PROVE  FALSE
    OBVIOUS
  <2>1. m + 1 \in 0..n /\ m + 1 < MaxAckRanges
    BY <1>1, <1>4
  <2>2. m + 1 \in T
    BY <1>2, <2>1
  <2>3. m + 1 <= m
    BY <1>3, <2>2
  <2> QED
    BY <1>4, <2>3
<1>6. m = Writable(ranges)
  BY DEF Writable, m, n, count
<1> QED
  BY <1>4, <1>5, <1>6 DEF n, Short

-----------------------------------------------------------------------------
(* An ACK frame and what is read of it                                     *)

\* The numbers that toFrame() puts into a frame.
LEMMA KeptNumbers ==
  ASSUME NEW h, HandlerSound(h), HasFrame(h)
  PROVE  /\ h.largestAcked \in Nat /\ h.largestAcked > 0
         /\ Kept(h) \in RunSets(h.largestAcked) /\ Kept(h) \subseteq h.numbersAcked
         /\ h.largestAcked \in Kept(h) /\ \A n \in Kept(h) : n <= h.largestAcked
<1>1. /\ h.lowestAcked \in Int /\ h.largestAcked \in Int /\ h.numbersAcked \subseteq Int
      /\ h.lowestAcked >= 0
  BY DEF HandlerSound, HandlerState
<1>2. PICK n \in h.numbersAcked : n > h.lowestAcked
  BY DEF HasFrame
<1>3. \A m \in h.numbersAcked : 0 < m /\ m <= h.largestAcked
  BY DEF HandlerSound
<1>4. h.largestAcked > h.lowestAcked
  BY <1>1, <1>2, <1>3
<1>5. h.largestAcked \in Nat /\ h.largestAcked > 0 /\ h.largestAcked \in h.numbersAcked
  BY <1>1, <1>4 DEF HandlerSound
<1>6. h.largestAcked \in Kept(h) /\ Kept(h) \subseteq h.numbersAcked
  BY <1>1, <1>4, <1>5 DEF Kept
<1>7. Kept(h) \in RunSets(h.largestAcked)
  <2>1. \A m \in h.numbersAcked : m \in 1..h.largestAcked
    BY <1>1, <1>3
  <2> QED
    BY <1>6, <2>1 DEF RunSets
<1> QED
  BY <1>3, <1>5, <1>6, <1>7

\* The first ranges of S, and all that a frame has room for when no gap is long.
TopRanges(read, S, ranges) ==
  LET K == Cardinality(RunStarts(S))
  IN /\ read \in Seq(Spans) /\ Len(read) \in Nat /\ Len(read) \in 1..K
     /\ Len(read) <= MaxAckRanges
     /\ \A i \in 1..Len(read) : read[i] = RunOf(S, i)
     /\ NoLongGap(ranges) => Len(read) = K \/ Len(read) = MaxAckRanges

\* A frame without gaps is read as the one range that it stands for.
LEMMA ContiguousRead ==
  ASSUME NEW h, HandlerSound(h), HasFrame(h), Contiguous(Kept(h))
  PROVE  LET frame == ToFrame(h)
             wire  == WriteTo(frame)
         IN /\ TopRanges(ReadRanges(wire), Kept(h), frame.ackRanges) /\ ValidRanges(wire)
            /\ wire.largestAcked = h.largestAcked /\ wire.missing = FALSE
<1> DEFINE S == Kept(h)
           top == h.largestAcked
           frame == ToFrame(h)
           wire == WriteTo(frame)
           r == RunOf(S, 1)
           state == Reading(wire)
           read == ReadRanges(wire)
<1>1. /\ top \in Nat /\ top > 0 /\ S \in RunSets(top) /\ top \in S /\ \A n \in S : n <= top
      /\ Cardinality(RunStarts(S)) = 1
  BY KeptNumbers DEF Contiguous
<1>2. wire = [largestAcked |-> top, missing |-> FALSE, length |-> top - Min(S) + 1, blocks |-> <<>>]
  BY DEF ToFrame, WriteTo
<1> HIDE DEF S, top, wire
<1>3. 1 \in 1..Cardinality(RunStarts(S))
  BY <1>1
<1>4. /\ r \in Spans /\ r.first \in S /\ r.first \in Nat /\ r.first > 0
      /\ r.last = top /\ r.first <= top
  BY <1>1, <1>3, RangeEnds, TopRange
<1>5. Min(S) = r.first
  <2>1. S \in SUBSET Nat /\ S # {}
    BY <1>1 DEF RunSets
  <2>2. Min(S) \in S /\ \A n \in S : Min(S) <= n
    BY <2>1, LeastOf
  <2>3. RunIndex(S, Min(S)) = 1 - 1
    <3>1. \A n \in S : RunIndex(S, n) \in 0..Cardinality(RunStarts(S)) - 1
      BY <1>1, RunCount
    <3> QED
      <4>1. RunIndex(S, Min(S)) \in 0..Cardinality(RunStarts(S)) - 1
        BY <2>2, <3>1
      <4>2. Cardinality(RunStarts(S)) - 1 = 0
        BY <1>1
      <4> QED
        BY <4>1, <4>2
  <2>4. Min(S) \in r.first..r.last
    BY <1>1, <1>3, <2>2, <2>3, RangeNumbers
  <2>5. Min(S) <= r.first /\ Min(S) \in Nat
    BY <1>4, <2>1, <2>2
  <2> HIDE DEF r
  <2> QED
    BY <1>4, <2>4, <2>5
<1>6. r = AckRange(r.first, top)
  <2>1. \A x \in Spans : x = AckRange(x.first, x.last)
    BY DEF Spans, AckRange
  <2> HIDE DEF r
  <2> QED
    BY <1>4, <2>1
<1>7. /\ wire.largestAcked = top /\ wire.missing = FALSE /\ wire.blocks = <<>>
      /\ wire.length = top - r.first + 1 /\ wire.length \in Nat /\ wire.length > 0
      /\ wire.length <= top
  <2> HIDE DEF r
  <2>1. wire.length = top - r.first + 1
    BY <1>2, <1>5
  <2>2. wire.largestAcked = top /\ wire.missing = FALSE /\ wire.blocks = <<>>
    BY <1>2
  <2> QED
    BY <1>1, <1>4, <2>1, <2>2
<1>8. read = <<r>>
  <2>1. wire.blocks \in Seq(AckBlocks) /\ Len(wire.blocks) = 0
    BY <1>7
  <2>2. state[0].ranges = <<AckRange(wire.largestAcked - wire.length + 1, wire.largestAcked)>>
    <3>1. wire.largestAcked \in Int /\ wire.length \in Int
      BY <1>1, <1>7
    <3> QED
      BY <2>1, <3>1, ReadingLoop
  <2>3. wire.largestAcked - wire.length + 1 = r.first
    <3> HIDE DEF r
    <3> QED
      BY <1>1, <1>4, <1>7
  <2>4. state[0].ranges = <<r>>
    <3> HIDE DEF r, state
    <3> QED
      BY <1>6, <1>7, <2>2, <2>3
  <2>5. read = IF wire.missing /\ ~state[0].complete THEN Front(state[0].ranges) ELSE state[0].ranges
    BY <2>1 DEF ReadRanges
  <2> HIDE DEF read, state
  <2> QED
    BY <1>7, <2>4, <2>5
<1> HIDE DEF read, r
<1>9. read \in Seq(Spans) /\ Len(read) = 1 /\ read[1] = r
  BY <1>4, <1>8
<1>10. TopRanges(read, S, frame.ackRanges)
  <2>1. Len(read) \in 1..Cardinality(RunStarts(S)) /\ Len(read) <= MaxAckRanges
    BY <1>1, <1>9, AckRangesAssumption
  <2>2. \A i \in 1..Len(read) : read[i] = RunOf(S, i)
    BY <1>9 DEF r
  <2> HIDE DEF frame
  <2> QED
    BY <1>1, <1>9, <2>1, <2>2 DEF TopRanges
<1>11. ValidRanges(wire)
  BY <1>1, <1>7 DEF ValidRanges
<1> QED
  BY <1>7, <1>10, <1>11 DEF wire, read, S, top

\* A frame with gaps is read as the highest of its ranges.
LEMMA MissingRead ==
  ASSUME NEW h, HandlerSound(h), HasFrame(h), ~Contiguous(Kept(h)), ~WriteThrows(ToFrame(h))
  PROVE  LET frame == ToFrame(h)
             wire  == WriteTo(frame)
         IN /\ TopRanges(ReadRanges(wire), Kept(h), frame.ackRanges) /\ ValidRanges(wire)
            /\ wire.largestAcked = h.largestAcked /\ wire.missing = TRUE
<1> DEFINE S == Kept(h)
           top == h.largestAcked
           frame == ToFrame(h)
           wire == WriteTo(frame)
           all == RangesOf(S)
           ranges == frame.ackRanges
           m == Writable(ranges)
           K == Cardinality(RunStarts(S))
           read == ReadRanges(wire)
<1>1. /\ top \in Nat /\ top > 0 /\ S \in RunSets(top) /\ top \in S /\ \A n \in S : n <= top
      /\ K # 1
  BY KeptNumbers DEF Contiguous
<1>2. ranges = CutRanges(all) /\ frame.largestAcked = top /\ ~WriteThrows(frame)
  BY DEF ToFrame
<1> HIDE DEF S, top, frame
<1>3. K \in Nat /\ K > 1
  <2>1. K \in Nat /\ K > 0
    BY <1>1, RunCount
  <2> HIDE DEF K
  <2> QED
    BY <1>1, <2>1
<1>4. Len(all) = K /\ Descending(all) /\ \A i \in 1..K : all[i] = RunOf(S, i)
  BY <1>1, RangesDescend
<1>5. /\ Descending(ranges) /\ Len(ranges) \in Nat /\ Len(ranges) > 1 /\ Len(ranges) <= K
      /\ Len(ranges) = K \/ Len(ranges) = MaxAckRanges + 1
      /\ \A i \in 1..Len(ranges) : i <= MaxAckRanges => ranges[i] = all[i]
  <2> HIDE DEF all, ranges, K
  <2> QED
    BY <1>2, <1>3, <1>4, CutKeeps
<1>6. ranges # <<>>
  <2> HIDE DEF ranges
  <2> QED
    BY <1>5
<1>7. /\ m \in 1..Len(ranges) - 1 /\ m \in Nat /\ m < MaxAckRanges
      /\ NoLongGap(ranges) => m = Len(ranges) - 1 \/ m = MaxAckRanges - 1
  <2>1. m # 0
    BY <1>2, <1>6 DEF WriteThrows
  <2>2. /\ m \in 0..Len(ranges) - 1 /\ m \in Nat /\ m < MaxAckRanges
        /\ NoLongGap(ranges) => m = Len(ranges) - 1 \/ m = MaxAckRanges - 1
    BY <1>5, WritableIs
  <2> HIDE DEF m, ranges
  <2> QED
    BY <1>5, <2>1, <2>2
<1>8. ranges[1] = RunOf(S, 1) /\ ranges[1].last = top
  <2>1. 1 \in 1..Len(ranges) /\ 1 \in 1..K /\ 1 <= MaxAckRanges
    <3> HIDE DEF ranges, K
    <3> QED
      BY <1>3, <1>5, AckRangesAssumption
  <2>2. ranges[1] = RunOf(S, 1)
    BY <1>4, <1>5, <2>1
  <2> QED
    BY <1>1, <2>2, TopRange
<1>9. /\ read \in Seq(Spans) /\ Len(read) = m + 1
      /\ \A i \in 1..m + 1 : read[i] = ranges[i]
  BY <1>2, <1>5, <1>6, <1>7, <1>8, ReadIsWritten
<1>10. /\ wire.largestAcked = top /\ wire.missing = TRUE
       /\ wire.length = RangeLen(ranges[1]) /\ wire.blocks = Written(ranges)[m]
  BY <1>2, <1>6 DEF WriteTo
<1>11. Laid(wire.blocks, ranges, m)
  <2>1. m \in 0..Len(ranges) - 1
    <3> HIDE DEF m, ranges
    <3> QED
      BY <1>7
  <2>2. Laid(Written(ranges)[m], ranges, m)
    BY <1>5, <2>1, WrittenItems
  <2> QED
    BY <1>10, <2>2
<1>12. wire.blocks # <<>>
  <2>1. Len(wire.blocks) = BlockCount(ranges)[m]
    BY <1>11 DEF Laid
  <2>2. 0 \in 0..Len(ranges) - 1 /\ m \in 0..Len(ranges) - 1 /\ 0 <= m
    <3> HIDE DEF m, ranges
    <3> QED
      BY <1>5, <1>7
  <2>3. /\ BlockCount(ranges)[0] \in Nat /\ BlockCount(ranges)[m] \in Nat
        /\ BlockCount(ranges)[0] + (m - 0) <= BlockCount(ranges)[m]
    BY <1>5, <2>2, CountRises
  <2> HIDE DEF m, ranges, wire
  <2>4. Len(wire.blocks) > 0
    BY <1>7, <2>1, <2>3
  <2> QED
    BY <2>4
<1> HIDE DEF m, ranges, wire, all, read, K
<1>13. \A i \in 1..m + 1 : read[i] = RunOf(S, i) /\ i \in 1..K /\ i \in 1..Len(ranges)
  <2> SUFFICES ASSUME NEW i \in 1..m + 1
               PROVE  read[i] = RunOf(S, i) /\ i \in 1..K /\ i \in 1..Len(ranges)
    OBVIOUS
  <2>1. i \in 1..Len(ranges) /\ i <= MaxAckRanges /\ i \in 1..K
    BY <1>3, <1>5, <1>7, AckRangesAssumption
  <2> QED
    BY <1>4, <1>5, <1>9, <2>1
<1>14. TopRanges(read, S, ranges)
  <2>1. Len(read) \in 1..K /\ Len(read) <= MaxAckRanges /\ Len(read) \in Nat
    BY <1>3, <1>5, <1>7, <1>9, AckRangesAssumption
  <2>2. NoLongGap(ranges) => Len(read) = K \/ Len(read) = MaxAckRanges
    BY <1>3, <1>5, <1>7, <1>9, AckRangesAssumption
  <2>3. \A i \in 1..Len(read) : read[i] = RunOf(S, i)
    BY <1>9, <1>13
  <2> QED
    BY <1>9, <2>1, <2>2, <2>3 DEF TopRanges, K
<1>15. ValidRanges(wire)
  <2>1. wire.length <= wire.largestAcked /\ wire.length > 0
    <3> DEFINE x == ranges[1].first
               y == ranges[1].last
    <3>1. /\ x \in Nat /\ x > 0 /\ y = top /\ x <= y
      <4>1. 1 \in 1..Len(ranges)
        BY <1>5
      <4> QED
        BY <1>5, <1>8, <4>1, RangeFields DEF Descending
    <3>2. wire.length = y - x + 1
      BY <1>10 DEF RangeLen
    <3> HIDE DEF x, y
    <3> QED
      BY <1>1, <1>10, <3>1, <3>2
  <2>2. Len(read) > 1
    BY <1>7, <1>9
  <2>3. \A i \in 1..Len(read) : 0 < read[i].first /\ read[i].first <= read[i].last
    BY <1>5, <1>9, <1>13 DEF Descending
  <2>4. ASSUME NEW i \in 2..Len(read)
        PROVE  read[i].last + 1 < read[i - 1].first
    <3>1. /\ i \in 1..m + 1 /\ i - 1 \in 1..m + 1 /\ i - 1 \in 1..Len(ranges) - 1
          /\ (i - 1) + 1 = i
      BY <1>5, <1>7, <1>9
    <3>2. Gap(ranges, i - 1) > 0
      BY <1>5, <3>1 DEF Descending
    <3>3. ranges[i - 1].first - ranges[i].last - 1 > 0
      BY <3>1, <3>2 DEF Gap
    <3>4. read[i] = ranges[i] /\ read[i - 1] = ranges[i - 1]
      BY <1>9, <3>1
    <3>5. ranges[i].last \in Nat /\ ranges[i - 1].first \in Nat
      BY <1>5, <1>13, <3>1, RangeFields
    <3> DEFINE a == ranges[i - 1].first
               c == ranges[i].last
    <3>6. a \in Nat /\ c \in Nat /\ a - c - 1 > 0
      BY <3>3, <3>5
    <3> HIDE DEF a, c
    <3>7. c + 1 < a
      BY <3>6
    <3> QED
      BY <3>4, <3>7 DEF a, c
  <2>5. ReadRanges(wire) = read
    BY DEF read
  <2> HIDE DEF read
  <2> QED
    BY <1>12, <2>1, <2>2, <2>3, <2>4, <2>5 DEF ValidRanges
<1> QED
  BY <1>10, <1>14, <1>15 DEF S, top, frame, wire, ranges, read

\* The numbers of the first ranges are those with few runs above them.
LEMMA NumbersRead ==
  ASSUME NEW b \in Nat, NEW S \in RunSets(b), NEW read, NEW ranges, TopRanges(read, S, ranges)
  PROVE  UNION {r.first..r.last : r \in Range(read)} = {n \in S : RunIndex(S, n) < Len(read)}
<1> DEFINE U == UNION {r.first..r.last : r \in Range(read)}
           K == Cardinality(RunStarts(S))
           L == Len(read)
<1>1. /\ read \in Seq(Spans) /\ L \in Nat /\ L \in 1..K /\ K \in Nat
      /\ \A i \in 1..L : read[i] = RunOf(S, i)
      /\ \A n \in S : RunIndex(S, n) \in 0..K - 1
  BY RunCount DEF TopRanges
<1>2. Range(read) = {read[i] : i \in 1..L}
  <2>1. DOMAIN read = 1..L
    BY <1>1, LenProperties
  <2> QED
    BY <2>1 DEF Range
<1> HIDE DEF K, L
<1>3. ASSUME NEW n \in U
      PROVE  n \in S /\ RunIndex(S, n) < L
  <2>1. PICK i \in 1..L : n \in read[i].first..read[i].last
    BY <1>2
  <2>2. i \in 1..K /\ read[i] = RunOf(S, i)
    BY <1>1
  <2>3. n \in S /\ RunIndex(S, n) = i - 1
    BY <2>1, <2>2, RangeNumbers DEF K
  <2> QED
    BY <1>1, <2>3
<1>4. ASSUME NEW n \in S, RunIndex(S, n) < L
      PROVE  n \in U
  <2> DEFINE i == RunIndex(S, n) + 1
  <2>1. RunIndex(S, n) \in 0..K - 1
    BY <1>1
  <2>2. i \in 1..L /\ i \in 1..K /\ RunIndex(S, n) = i - 1
    BY <1>1, <1>4, <2>1
  <2> HIDE DEF i
  <2>3. read[i] = RunOf(S, i)
    BY <1>1, <2>2
  <2>4. n \in read[i].first..read[i].last
    BY <2>2, <2>3, RangeNumbers DEF K
  <2>5. read[i] \in Range(read)
    BY <1>2, <2>2
  <2> QED
    BY <2>4, <2>5
<1>5. U = {n \in S : RunIndex(S, n) < L}
  <2> HIDE DEF U
  <2> QED
    BY <1>3, <1>4
<1> QED
  BY <1>5 DEF L

\* What the peer reads is valid and says of the packets what AckHandler says,
\* except that of more ranges than the frame has room for the lowest are missing.
THEOREM FrameIsRead ==
  ASSUME NEW h, HandlerSound(h), HasFrame(h), ~WriteThrows(ToFrame(h))
  PROVE  LET frame == ToFrame(h)
             wire  == WriteTo(frame)
             read  == FromBuffer(wire)
             meant == AckFrameOf(h)
         IN /\ ValidRanges(wire)
            /\ read = [meant EXCEPT !.acked = read.acked]
            /\ read \in [type : {"ACK"}, largestAcked : Nat \ {0},
                         acked : SUBSET h.numbersAcked, missing : BOOLEAN]
            /\ \A n \in meant.acked : (\E m \in read.acked : m <= n) <=> n \in read.acked
            /\ NoLongGap(frame.ackRanges) => read = meant
<1> DEFINE S == Kept(h)
           top == h.largestAcked
           frame == ToFrame(h)
           ranges == frame.ackRanges
           wire == WriteTo(frame)
           list == ReadRanges(wire)
           L == Len(list)
           K == Cardinality(RunStarts(S))
           acked == {n \in S : RunIndex(S, n) < L}
           mean == {n \in S : RunIndex(S, n) < MaxAckRanges}
           read == FromBuffer(wire)
           meant == AckFrameOf(h)
<1>1. /\ TopRanges(list, S, ranges) /\ ValidRanges(wire)
      /\ wire.largestAcked = top /\ wire.missing = ~Contiguous(S)
  <2>1. CASE Contiguous(S)
    BY <2>1, ContiguousRead
  <2>2. CASE ~Contiguous(S)
    BY <2>2, MissingRead
  <2> QED
    BY <2>1, <2>2
<1>2. /\ top \in Nat /\ top > 0 /\ S \in RunSets(top) /\ S \subseteq h.numbersAcked
      /\ \A n \in S : n \in Nat
  <2>1. top \in Nat /\ top > 0 /\ S \in RunSets(top) /\ S \subseteq h.numbersAcked
    BY KeptNumbers
  <2> HIDE DEF S, top
  <2>2. \A n \in S : n \in Nat
    BY <2>1 DEF RunSets
  <2> QED
    BY <2>1, <2>2
<1>3. /\ L \in Nat /\ L \in 1..K /\ L <= MaxAckRanges /\ K \in Nat
      /\ NoLongGap(ranges) => L = K \/ L = MaxAckRanges
      /\ \A n \in S : RunIndex(S, n) \in 0..K - 1
  <2> HIDE DEF S, top, ranges, list
  <2> QED
    BY <1>1, <1>2, RunCount DEF TopRanges
<1>4. read = [type |-> "ACK", largestAcked |-> top, missing |-> ~Contiguous(S), acked |-> acked]
  <2>1. UNION {r.first..r.last : r \in Range(list)} = acked
    <3> HIDE DEF S, top, ranges, list
    <3> QED
      BY <1>1, <1>2, NumbersRead
  <2> HIDE DEF acked, S, top, wire
  <2> QED
    BY <1>1, <2>1 DEF FromBuffer
<1>5. meant = [type |-> "ACK", largestAcked |-> top, missing |-> ~Contiguous(S), acked |-> mean]
  BY DEF AckFrameOf, Reported
<1> HIDE DEF S, top, ranges, wire, list, L, K, read, meant
<1>6. acked \subseteq mean /\ acked \in SUBSET h.numbersAcked
  BY <1>2, <1>3, AckRangesAssumption
<1>7. NoLongGap(ranges) => acked = mean
  BY <1>3, AckRangesAssumption
<1>8. ASSUME NEW n \in mean, NEW m \in acked, m <= n
      PROVE  n \in acked
  <2>1. RunIndex(S, n) <= RunIndex(S, m)
    BY <1>2, <1>8, IndexRises
  <2>2. RunIndex(S, n) \in Nat /\ RunIndex(S, m) \in Nat /\ RunIndex(S, m) < L
    BY <1>3
  <2> QED
    BY <1>3, <2>1, <2>2
<1>9. \A n \in mean : (\E m \in acked : m <= n) <=> n \in acked
  BY <1>2, <1>8
<1> HIDE DEF acked, mean
<1>10. read = [meant EXCEPT !.acked = read.acked] /\ read.acked = acked /\ meant.acked = mean
  BY <1>4, <1>5
<1>11. read \in [type : {"ACK"}, largestAcked : Nat \ {0}, acked : SUBSET h.numbersAcked,
                 missing : BOOLEAN]
  BY <1>2, <1>4, <1>6
<1>12. NoLongGap(ranges) => read = meant
  BY <1>4, <1>5, <1>7
<1>13. \A n \in meant.acked : (\E m \in read.acked : m <= n) <=> n \in read.acked
  BY <1>9, <1>10
<1> QED
  BY <1>1, <1>10, <1>11, <1>12, <1>13 DEF read, meant, wire, ranges

-----------------------------------------------------------------------------
(* What a handler goes through                                             *)

LEMMA AckKeeps ==
  ASSUME NEW h, HandlerSound(h), NEW pn \in Nat \ {0}, NEW needAck \in BOOLEAN
  PROVE  /\ HandlerSound(Ack(h, pn, needAck))
         /\ Ack(h, pn, needAck).numbersAcked \subseteq h.numbersAcked \cup {pn}
<1>1. CASE pn < h.lowestAcked
  BY <1>1 DEF Ack
<1>2. CASE ~(pn < h.lowestAcked) /\ Absorbs(h, pn, needAck)
  BY <1>2 DEF Ack, LargestAfter, HandlerSound, HandlerState
<1>3. CASE ~(pn < h.lowestAcked) /\ ~Absorbs(h, pn, needAck)
  BY <1>3 DEF Ack, LargestAfter, HandlerSound, HandlerState
<1> QED
  BY <1>1, <1>2, <1>3

LEMMA LowestKeeps ==
  ASSUME NEW h, HandlerSound(h), NEW least \in Nat
  PROVE  HandlerSound(Lowest(h, least)) /\ Lowest(h, least).numbersAcked = h.numbersAcked
BY DEF Lowest, HandlerSound, HandlerState

LEMMA AfterFrameKeeps ==
  ASSUME NEW h, HandlerSound(h)
  PROVE  HandlerSound(AfterFrame(h)) /\ AfterFrame(h).numbersAcked \subseteq h.numbersAcked
<1>1. CASE h.numbersAcked = {}
  BY <1>1 DEF AfterFrame
<1>2. CASE h.numbersAcked # {} /\ ~HasFrame(h)
  BY <1>2 DEF AfterFrame, HandlerSound, HandlerState
<1>3. CASE h.numbersAcked # {} /\ HasFrame(h)
  <2>1. /\ h.largestAcked \in Nat /\ h.largestAcked > 0
        /\ Kept(h) \subseteq h.numbersAcked /\ h.largestAcked \in Kept(h)
    BY <1>3, KeptNumbers
  <2>2. CASE Contiguous(Kept(h))
    BY <1>3, <2>1, <2>2 DEF AfterFrame, HandlerSound, HandlerState
  <2>3. CASE ~Contiguous(Kept(h))
    BY <1>3, <2>1, <2>3 DEF AfterFrame, HandlerSound, HandlerState
  <2> QED
    BY <2>2, <2>3
<1> QED
  BY <1>1, <1>2, <1>3
=============================================================================
