------------------------ MODULE RetransmissionProofs ------------------------
(***************************************************************************)
(* That the loop of _retransmit over the two arrays of the queue takes no  *)
(* packet twice and comes to the single step of SendQueue, for every limit *)
(* of the queue, every number of packets and all ACK frames.               *)
(***************************************************************************)
EXTENDS Retransmission, PacketQueueProofs, AckWireProofs

USE RetransmissionAssumption

\* The items of a list of packets.
LEMMA ItemFields ==
  ASSUME NEW items \in Seq(Unacked)
  PROVE  /\ Len(items) \in Nat
         /\ \A i \in 1..Len(items) : items[i] \in Unacked /\ items[i].pn \in Nat
<1>1. Len(items) \in Nat
  OBVIOUS
<1>2. ASSUME NEW i \in 1..Len(items)
      PROVE  items[i] \in Unacked
  BY ElementOfSeq
<1>3. \A u \in Unacked : u.pn \in Nat
  BY DEF Unacked
<1> QED
  BY <1>1, <1>2, <1>3

-----------------------------------------------------------------------------
(* Counting the items of an ordered queue                                  *)

\* The number of packets passed over grows by one or not at all.
LEMMA PassedCount ==
  ASSUME NEW items, NEW f, NEW k \in Nat
  PROVE  /\ IsFiniteSet(Passed(items, f, k)) /\ Cardinality(Passed(items, f, k)) \in Nat
         /\ k = 0 => Cardinality(Passed(items, f, k)) = 0
         /\ k > 0 => /\ k \in Passed(items, f, k) =>
                          /\ Passed(items, f, k) = Passed(items, f, k - 1) \cup {k}
                          /\ Cardinality(Passed(items, f, k)) =
                               Cardinality(Passed(items, f, k - 1)) + 1
                     /\ k \notin Passed(items, f, k) =>
                          Passed(items, f, k) = Passed(items, f, k - 1)
<1> DEFINE P(n) == Passed(items, f, n)
<1>1. ASSUME NEW n \in Int
      PROVE  IsFiniteSet(P(n)) /\ Cardinality(P(n)) \in Nat
  <2>1. P(n) \in SUBSET (1..n)
    BY DEF Passed
  <2> HIDE DEF P
  <2>3. IsFiniteSet(1..n)
    BY FS_Interval
  <2>2. IsFiniteSet(P(n))
    BY <2>1, <2>3, FS_Subset
  <2> QED
    BY <2>2, FS_CardinalityType
<1>2. CASE k = 0
  <2>1. P(k) = {}
    BY <1>2 DEF Passed
  <2> QED
    BY <1>1, <1>2, <2>1, FS_EmptySet
<1>3. CASE k > 0
  <2>1. k \notin P(k - 1)
    BY DEF Passed
  <2>2. k \in P(k) => P(k) = P(k - 1) \cup {k}
    BY <1>3 DEF Passed
  <2>3. k \notin P(k) => P(k) = P(k - 1)
    BY <1>3 DEF Passed
  <2>4. IsFiniteSet(P(k - 1)) /\ IsFiniteSet(P(k)) /\ Cardinality(P(k)) \in Nat
    BY <1>1
  <2> HIDE DEF P
  <2>5. k \in P(k) => Cardinality(P(k)) = Cardinality(P(k - 1)) + 1
    BY <2>1, <2>2, <2>4, FS_AddElement
  <2> QED
    BY <1>3, <2>2, <2>3, <2>4, <2>5 DEF P
<1> QED
  BY <1>2, <1>3

\* Different items have different numbers, so there are as many of them as places.
LEMMA ItemsCount ==
  ASSUME NEW items \in Seq(Unacked), NEW n \in Nat, Ordered(items, n),
         NEW J \in SUBSET (1..Len(items))
  PROVE  LET S == {items[j] : j \in J}
         IN /\ IsFiniteSet(J) /\ IsFiniteSet(S) /\ Cardinality(J) \in Nat
            /\ Cardinality(S) = Cardinality(J)
<1> DEFINE S == {items[j] : j \in J}
           g == [j \in J |-> items[j]]
<1>1. Len(items) \in Nat /\ \A i \in 1..Len(items) : items[i].pn \in Nat
  BY ItemFields
<1>2. IsFiniteSet(J)
  <2>1. IsFiniteSet(1..Len(items))
    BY <1>1, FS_Interval
  <2> QED
    BY <2>1, FS_Subset
<1>3. g \in Surjection(J, S)
  BY DEF Surjection
<1>4. ASSUME NEW i \in J, NEW j \in J, g[i] = g[j]
      PROVE  i = j
  <2>1. items[i].pn = items[j].pn /\ i \in 1..Len(items) /\ j \in 1..Len(items)
    BY <1>4
  <2>2. ~(i < j) /\ ~(j < i)
    BY <1>1, <2>1 DEF Ordered
  <2> QED
    BY <1>1, <2>1, <2>2
<1>5. g \in Bijection(J, S)
  BY <1>3, <1>4 DEF Bijection, Injection, IsInjective, Surjection
<1>6. ExistsBijection(J, S)
  BY <1>5 DEF ExistsBijection
<1> HIDE DEF S
<1>7. IsFiniteSet(S) /\ Cardinality(S) = Cardinality(J)
  BY <1>2, <1>6, FS_Bijection
<1> QED
  BY <1>2, <1>7, FS_CardinalityType DEF S

\* A queue has as many packets as its length says.
LEMMA QueueCount ==
  ASSUME NEW items \in Seq(Unacked), NEW n \in Nat, Ordered(items, n)
  PROVE  /\ Len(items) \in Nat /\ IsFiniteSet(ItemSet(items))
         /\ Cardinality(ItemSet(items)) = Len(items)
<1>1. Len(items) \in Nat
  BY LenProperties
<1>2. Cardinality(1..Len(items)) = Len(items)
  <2>1. 0 \in Int /\ 1 \in Int /\ Len(items) \in Int
    BY <1>1
  <2>2. Cardinality(1..Len(items)) = IF 1 > Len(items) THEN 0 ELSE Len(items) - 1 + 1
    BY <2>1, FS_Interval
  <2> QED
    BY <1>1, <2>2
<1> QED
  BY <1>1, <1>2, ItemsCount DEF ItemSet

\* push() of a packet with a new number keeps the order.
LEMMA AppendOrdered ==
  ASSUME NEW items \in Seq(Unacked), NEW n \in Nat, Ordered(items, n),
         NEW item \in Unacked, item.pn = n
  PROVE  LET longer == Append(items, item)
         IN /\ longer \in Seq(Unacked) /\ Len(longer) = Len(items) + 1
            /\ \A i \in 1..Len(items) : longer[i] = items[i]
            /\ longer[Len(items) + 1] = item
            /\ Ordered(longer, n + 1) /\ ItemSet(longer) = ItemSet(items) \cup {item}
<1> DEFINE longer == Append(items, item)
<1>1. Len(items) \in Nat /\ \A i \in 1..Len(items) : items[i].pn \in Nat
  BY ItemFields
<1>2. /\ longer \in Seq(Unacked) /\ Len(longer) = Len(items) + 1
      /\ \A i \in 1..Len(items) : longer[i] = items[i]
      /\ longer[Len(items) + 1] = item
  BY AppendProperties, <1>1
<1> HIDE DEF longer
<1>3. Ordered(longer, n + 1)
  <2>1. ASSUME NEW i \in 1..Len(longer)
        PROVE  longer[i].pn < n + 1
    BY <1>1, <1>2 DEF Ordered
  <2>2. ASSUME NEW i \in 1..Len(longer), NEW j \in 1..Len(longer), i < j
        PROVE  longer[i].pn < longer[j].pn
    <3>1. i \in 1..Len(items) /\ longer[i] = items[i]
      BY <1>1, <1>2, <2>2
    <3>2. CASE j = Len(items) + 1
      BY <1>2, <3>1, <3>2 DEF Ordered
    <3>3. CASE j # Len(items) + 1
      <4>1. j \in 1..Len(items) /\ longer[j] = items[j]
        BY <1>1, <1>2, <3>3
      <4> QED
        BY <2>2, <3>1, <4>1 DEF Ordered
    <3> QED
      BY <3>2, <3>3
  <2> QED
    BY <2>1, <2>2 DEF Ordered
<1>4. ItemSet(longer) = ItemSet(items) \cup {item}
  <2>1. 1..Len(longer) = (1..Len(items)) \cup {Len(items) + 1}
    BY <1>1, <1>2
  <2> QED
    BY <1>2, <2>1 DEF ItemSet
<1> QED
  BY <1>2, <1>3, <1>4 DEF longer

\* shift() keeps the order.
LEMMA TailOrdered ==
  ASSUME NEW items \in Seq(Unacked), NEW n \in Nat, Ordered(items, n), Len(items) > 0
  PROVE  LET rest == Tail(items)
         IN /\ rest \in Seq(Unacked) /\ Len(rest) = Len(items) - 1
            /\ \A i \in 1..Len(rest) : rest[i] = items[i + 1]
            /\ Ordered(rest, n)
            /\ Head(items) = items[1] /\ items[1] \in Unacked
<1> DEFINE rest == Tail(items)
<1>1. Len(items) \in Nat /\ items # <<>>
  BY LenProperties, EmptySeq
<1>2. /\ rest \in Seq(Unacked) /\ Len(rest) = Len(items) - 1
      /\ \A i \in 1..Len(rest) : rest[i] = items[i + 1]
      /\ Head(items) = items[1]
  BY <1>1, HeadTailProperties
<1>3. items[1] \in Unacked
  BY <1>1, ElementOfSeq
<1> HIDE DEF rest
<1>4. ASSUME NEW i \in 1..Len(rest)
      PROVE  i + 1 \in 1..Len(items) /\ rest[i] = items[i + 1]
  BY <1>1, <1>2
<1>5. Ordered(rest, n)
  <2>1. ASSUME NEW i \in 1..Len(rest)
        PROVE  rest[i].pn < n
    BY <1>4 DEF Ordered
  <2>2. ASSUME NEW i \in 1..Len(rest), NEW j \in 1..Len(rest), i < j
        PROVE  rest[i].pn < rest[j].pn
    <3>1. i + 1 < j + 1
      BY <2>2
    <3> QED
      BY <1>4, <3>1 DEF Ordered
  <2> QED
    BY <2>1, <2>2 DEF Ordered
<1> QED
  BY <1>2, <1>3, <1>5 DEF rest

\* The places of an ordered queue are in the order of its numbers.
LEMMA PlacesOrdered ==
  ASSUME NEW items \in Seq(Unacked), NEW n \in Nat, Ordered(items, n),
         NEW i \in 1..Len(items), NEW j \in 1..Len(items)
  PROVE  i < j <=> items[i].pn < items[j].pn
<1>1. items[i].pn \in Nat /\ items[j].pn \in Nat /\ i \in Nat /\ j \in Nat
  BY ItemFields
<1>2. (i < j => items[i].pn < items[j].pn) /\ (j < i => items[j].pn < items[i].pn)
  BY DEF Ordered
<1> QED
  BY <1>1, <1>2

-----------------------------------------------------------------------------
(* What the loop comes to                                                  *)

\* The ACK frames f and g say the same of every packet of items.
Agree(f, g, items) ==
  /\ g.largestAcked = f.largestAcked
  /\ \A u \in ItemSet(items) : u.pn \in g.acked <=> u.pn \in f.acked

\* SendQueue counts as this module does.
LEMMA SameCardinality == \A S : AtOnce!Cardinality(S) = Cardinality(S)
  BY DEF AtOnce!Cardinality, Cardinality

\* The packets that the loop has sent again.
AllResent(b, f) == {Resent(b, f, k) : k \in Passed(b.items, f, b.rounds)}

\* When the k-th packet is pushed again, the queue holds it, those behind it and
\* those before it that were passed over.
LEMMA OverfullCounts ==
  ASSUME NEW items \in Seq(Unacked), NEW n \in Nat, Ordered(items, n),
         NEW f, NEW g, Agree(f, g, items), NEW k \in 1..Len(items)
  PROVE  Cardinality({v \in ItemSet(items) : ~(v.pn < items[k].pn /\ v.pn \in g.acked)})
           = Len(items) - k + 1 + Cardinality(Passed(items, f, k - 1))
<1> DEFINE before_k == Passed(items, f, k - 1)
           behind == k..Len(items)
           Stay == before_k \cup behind
           V == {v \in ItemSet(items) : ~(v.pn < items[k].pn /\ v.pn \in g.acked)}
<1>1. Len(items) \in Nat /\ k \in Nat /\ k > 0 /\ k <= Len(items)
  BY ItemFields
<1>2. Stay \in SUBSET (1..Len(items)) /\ before_k \cap behind = {}
  BY <1>1 DEF Passed
<1>3. V = {items[i] : i \in Stay}
  <2>1. ASSUME NEW i \in 1..Len(items)
        PROVE  items[i] \in V <=> i \in Stay
    <3>1. items[i] \in ItemSet(items)
      BY DEF ItemSet
    <3>2. items[i] \in V <=> ~(i < k /\ items[i].pn \in f.acked)
      BY <3>1, PlacesOrdered DEF Agree
    <3>3. i \in Stay <=> ~(i < k /\ items[i].pn \in f.acked)
      BY <1>1 DEF Passed
    <3> QED
      BY <3>2, <3>3
  <2>2. \A v \in V : \E i \in 1..Len(items) : v = items[i]
    BY DEF ItemSet
  <2> HIDE DEF V, Stay
  <2> QED
    BY <1>2, <2>1, <2>2
<1>4. IsFiniteSet(before_k) /\ Cardinality(before_k) \in Nat
  BY <1>1, PassedCount
<1>5. IsFiniteSet(behind) /\ Cardinality(behind) = Len(items) - k + 1
  <2>1. k \in Int /\ Len(items) \in Int
    BY <1>1
  <2>2. /\ IsFiniteSet(behind)
        /\ Cardinality(behind) = IF k > Len(items) THEN 0 ELSE Len(items) - k + 1
    BY <2>1, FS_Interval
  <2> QED
    BY <1>1, <2>2
<1>6. Cardinality(V) = Cardinality(Stay)
  <2> HIDE DEF V, Stay
  <2> QED
    BY <1>2, <1>3, ItemsCount
<1> HIDE DEF V, before_k, behind
<1>7. Cardinality(Stay) = Cardinality(before_k) + Cardinality(behind)
  <2>1. Cardinality(before_k \cap behind) = 0
    BY <1>2, FS_EmptySet
  <2>2. Cardinality(before_k \cup behind) =
          Cardinality(before_k) + Cardinality(behind) - Cardinality(before_k \cap behind)
    BY <1>4, <1>5, FS_Union
  <2> QED
    BY <1>1, <1>4, <1>5, <2>1, <2>2
<1>8. Cardinality(V) = Len(items) - k + 1 + Cardinality(before_k)
  BY <1>1, <1>4, <1>5, <1>6, <1>7
<1> QED
  BY <1>8 DEF V, before_k

\* When the loop ends at a packet newer than the ACK frame, the packets it has
\* passed over are the lost ones, and they have the numbers that SendQueue gives.
LEMMA LoopResult ==
  ASSUME NEW b, NEW f, NEW g, LoopSound(b, f), Agree(f, g, b.items),
         \A i \in b.rounds + 1..Len(b.items) : b.items[i].pn > f.largestAcked
  PROVE  LET passed == Passed(b.items, f, b.rounds)
             lost   == AtOnce!Lost(ItemSet(b.items), g)
         IN /\ lost = {b.items[k] : k \in passed}
            /\ Cardinality(lost) = Cardinality(passed)
            /\ AtOnce!Renumbered(lost, FirstNumber(b, f)) = AllResent(b, f)
            /\ AtOnce!Overflows(ItemSet(b.items), g) => \E k \in passed : Overfull(b.items, f, k)
<1> DEFINE items == b.items
           r == b.rounds
           passed == Passed(items, f, r)
           lost == AtOnce!Lost(ItemSet(items), g)
           At(I) == {items[k] : k \in I}
<1>1. /\ items \in Seq(Unacked) /\ b.nextPN \in Nat /\ Ordered(items, b.nextPN)
      /\ r \in Nat /\ r <= Len(items) /\ Len(items) \in Nat /\ f.largestAcked \in Nat
  BY DEF LoopSound
<1>2. passed \in SUBSET (1..Len(items)) /\ \A k \in passed : k \in 1..r
  BY <1>1 DEF Passed
<1>3. lost = At(passed)
  <2>1. ASSUME NEW i \in 1..Len(items)
        PROVE  items[i] \in lost <=> i \in passed
    <3>1. items[i] \in ItemSet(items) /\ items[i].pn \in Nat
      BY <1>1, ItemFields DEF ItemSet
    <3>2. items[i] \in lost <=> items[i].pn <= f.largestAcked /\ items[i].pn \notin f.acked
      BY <3>1 DEF AtOnce!Lost, Agree
    <3>3. items[i].pn <= f.largestAcked <=> i <= r
      BY <1>1, <3>1 DEF LoopSound
    <3> QED
      BY <1>1, <3>2, <3>3 DEF Passed
  <2>2. \A v \in lost : \E i \in 1..Len(items) : v = items[i]
    BY DEF ItemSet, AtOnce!Lost
  <2> HIDE DEF lost, passed
  <2> QED
    BY <1>2, <2>1, <2>2
<1>4. ASSUME NEW k \in passed
      PROVE  Cardinality({v \in lost : v.pn < items[k].pn}) = Cardinality(Passed(items, f, k - 1))
  <2> DEFINE P == Passed(items, f, k - 1)
             below == {v \in lost : v.pn < items[k].pn}
  <2>1. k \in 1..r /\ k \in 1..Len(items)
    BY <1>1, <1>2
  <2>2. P \in SUBSET (1..Len(items)) /\ \A i \in passed : i \in P <=> i < k
    BY <1>1, <2>1 DEF Passed
  <2>3. P \subseteq passed
    BY <1>1, <2>1 DEF Passed
  <2>4. \A i \in passed : items[i].pn < items[k].pn <=> i < k
    BY <1>1, <1>2, <2>1, PlacesOrdered
  <2>5. below = At(P)
    <3> HIDE DEF lost, passed, P
    <3> QED
      BY <1>3, <2>2, <2>3, <2>4
  <2>6. Cardinality(At(P)) = Cardinality(P)
    <3> HIDE DEF P
    <3> QED
      BY <1>1, <2>2, ItemsCount
  <2> QED
    BY <2>5, <2>6
<1>5. Cardinality(lost) = Cardinality(passed)
  <2> HIDE DEF lost, passed
  <2> QED
    BY <1>1, <1>2, <1>3, ItemsCount
<1>6. AtOnce!Renumbered(lost, FirstNumber(b, f)) = AllResent(b, f)
  <2> DEFINE New(u) == [pn |-> FirstNumber(b, f) + Cardinality({v \in lost : v.pn < u.pn}),
                        frame |-> u.frame]
  <2>1. \A k \in passed : New(items[k]) = Resent(b, f, k)
    BY <1>4 DEF Resent
  <2>2. AtOnce!Renumbered(lost, FirstNumber(b, f)) = {New(u) : u \in lost}
    BY SameCardinality DEF AtOnce!Renumbered
  <2>3. AllResent(b, f) = {Resent(b, f, k) : k \in passed}
    BY DEF AllResent
  <2> HIDE DEF lost, passed, New
  <2> QED
    BY <1>3, <2>1, <2>2, <2>3
<1>7. AtOnce!Overflows(ItemSet(items), g) => \E k \in passed : Overfull(items, f, k)
  <2>1. SUFFICES ASSUME AtOnce!Overflows(ItemSet(items), g)
                 PROVE  \E k \in passed : Overfull(items, f, k)
    OBVIOUS
  <2>2. PICK u \in lost :
          Cardinality({v \in ItemSet(items) : ~(v.pn < u.pn /\ v.pn \in g.acked)}) > MaxUnacked
    BY <2>1, SameCardinality DEF AtOnce!Overflows
  <2> HIDE DEF lost, passed
  <2>3. PICK k \in passed : u = items[k]
    BY <1>3
  <2>4. k \in 1..Len(items)
    BY <1>2
  <2>5. Cardinality({v \in ItemSet(items) : ~(v.pn < items[k].pn /\ v.pn \in g.acked)})
          = Len(items) - k + 1 + Cardinality(Passed(items, f, k - 1))
    BY <1>1, <2>4, OverfullCounts
  <2>6. Overfull(items, f, k)
    BY <2>2, <2>3, <2>5 DEF Overfull
  <2> QED
    BY <2>6
<1> QED
  BY <1>3, <1>5, <1>6, <1>7

\* The packet that is too many for the queue is one that SendQueue finds.
LEMMA LoopOverflows ==
  ASSUME NEW b, NEW f, NEW g, LoopSound(b, f), Agree(f, g, b.items), LoopBroken(b, f)
  PROVE  AtOnce!Overflows(ItemSet(b.items), g)
<1> DEFINE items == b.items
           k == b.rounds
<1>1. /\ items \in Seq(Unacked) /\ b.nextPN \in Nat /\ Ordered(items, b.nextPN)
      /\ k \in 1..Len(items) /\ items[k].pn \notin f.acked /\ items[k].pn <= f.largestAcked
      /\ Overfull(items, f, k)
  BY DEF LoopSound, LoopBroken, Passed
<1>2. items[k] \in AtOnce!Lost(ItemSet(items), g)
  BY <1>1 DEF AtOnce!Lost, ItemSet, Agree
<1>3. Cardinality({v \in ItemSet(items) : ~(v.pn < items[k].pn /\ v.pn \in g.acked)}) > MaxUnacked
  <2> HIDE DEF items, k
  <2>1. Agree(f, g, items)
    BY DEF items
  <2> QED
    BY <1>1, <2>1, OverfullCounts DEF Overfull
<1> QED
  BY <1>2, <1>3, SameCardinality DEF AtOnce!Overflows

-----------------------------------------------------------------------------
(* One round of the loop                                                   *)

\* b2 is b one round later.
Later(b, b2) ==
  /\ b2 \in [items : Seq(Unacked), nextPN : Nat, rounds : Nat]
  /\ b2.items = b.items /\ b2.nextPN = b.nextPN /\ b2.rounds = b.rounds + 1

\* rest is items without the first.
Rest(items, rest) ==
  Len(rest) = Len(items) - 1 /\ \A i \in 1..Len(rest) : rest[i] = items[i + 1]

\* The fields of a loop and what it has counted.
LEMMA LoopFields ==
  ASSUME NEW b, NEW f, LoopSound(b, f)
  PROVE  /\ b.items \in Seq(Unacked) /\ Len(b.items) \in Nat
         /\ b.nextPN \in Nat /\ b.rounds \in Nat /\ b.rounds <= Len(b.items)
         /\ f.largestAcked \in Nat /\ f.largestAcked < b.nextPN
         /\ FirstNumber(b, f) \in Nat /\ b.nextPN <= FirstNumber(b, f)
         /\ Cardinality(Passed(b.items, f, b.rounds)) \in Nat
<1>1. /\ b.items \in Seq(Unacked) /\ Len(b.items) \in Nat
      /\ b.nextPN \in Nat /\ b.rounds \in Nat /\ b.rounds <= Len(b.items)
      /\ f.largestAcked \in 1..b.nextPN - 1 /\ f.missing \in BOOLEAN
  BY DEF LoopSound
<1>2. FirstNumber(b, f) \in Nat /\ b.nextPN <= FirstNumber(b, f)
  BY <1>1 DEF FirstNumber
<1>3. Cardinality(Passed(b.items, f, b.rounds)) \in Nat
  BY <1>1, PassedCount
<1> QED
  BY <1>1, <1>2, <1>3

\* The loop looks at no packet that it has sent again itself: such a packet is
\* newer than the ACK frame.
LEMMA LoopFirst ==
  ASSUME NEW b, NEW f, NEW items, LoopSound(b, f), LoopRuns(b, f, items),
         Len(items) \in Nat, Len(items) > 0, items[1].pn <= f.largestAcked
  PROVE  /\ b.rounds < Len(b.items) /\ items[1] = b.items[b.rounds + 1]
         /\ items[1] \in Unacked
<1> DEFINE left == Len(b.items) - b.rounds
<1>1. left \in Nat /\ b.rounds \in Nat /\ Len(b.items) \in Nat /\ b.items \in Seq(Unacked)
  BY LoopFields
<1>2. left # 0
  <2>1. SUFFICES ASSUME left = 0
                 PROVE  FALSE
    OBVIOUS
  <2>2. 1 \in left + 1..Len(items)
    BY <2>1
  <2>3. PICK k \in Passed(b.items, f, b.rounds) : items[1] = Resent(b, f, k)
    BY <2>2 DEF LoopRuns
  <2>4. k \in 1..b.rounds
    BY DEF Passed
  <2>5. k - 1 \in Nat
    BY <2>4, LoopFields
  <2>6. Cardinality(Passed(b.items, f, k - 1)) \in Nat
    BY <2>5, PassedCount
  <2>7. items[1].pn = FirstNumber(b, f) + Cardinality(Passed(b.items, f, k - 1))
    BY <2>3 DEF Resent
  <2> QED
    BY <2>6, <2>7, LoopFields
<1>3. 1 \in 1..left
  BY <1>1, <1>2
<1>4. items[1] = b.items[b.rounds + 1]
  BY <1>3 DEF LoopRuns
<1>5. b.rounds < Len(b.items) /\ b.rounds + 1 \in 1..Len(b.items)
  BY <1>1, <1>2
<1> QED
  BY <1>1, <1>4, <1>5, ItemFields

\* The next round begins with a sound loop.
LEMMA LaterSound ==
  ASSUME NEW b, NEW f, NEW b2, LoopSound(b, f), Later(b, b2),
         b.rounds < Len(b.items), b.items[b.rounds + 1].pn <= f.largestAcked
  PROVE  LoopSound(b2, f) /\ FirstNumber(b2, f) = FirstNumber(b, f)
<1>1. \A i \in 1..b2.rounds : b2.items[i].pn <= f.largestAcked
  <2>1. \A i \in 1..b2.rounds : i \in 1..b.rounds \/ i = b.rounds + 1
    BY LoopFields DEF Later
  <2> QED
    BY <2>1 DEF Later, LoopSound
<1>2. b2.rounds <= Len(b2.items)
  BY LoopFields DEF Later
<1> QED
  BY <1>1, <1>2 DEF Later, LoopSound, FirstNumber

\* The numbers of the packets sent again do not depend on how far the loop is.
LEMMA LaterResent ==
  ASSUME NEW b, NEW f, NEW b2, Later(b, b2), NEW k
  PROVE  Resent(b2, f, k) = Resent(b, f, k)
BY DEF Later, Resent, FirstNumber

\* A packet that the ACK frame names is shifted out.
LEMMA AckedRound ==
  ASSUME NEW b, NEW f, NEW b2, NEW items, NEW rest,
         LoopSound(b, f), LoopRuns(b, f, items), Later(b, b2), Rest(items, rest),
         Len(items) \in Nat, b.rounds < Len(b.items), b.items[b.rounds + 1].pn \in f.acked
  PROVE  /\ Passed(b2.items, f, b2.rounds) = Passed(b.items, f, b.rounds)
         /\ LoopRuns(b2, f, rest)
<1> DEFINE r == b.rounds
           n == Len(b.items)
           passed == Passed(b.items, f, r)
<1>1. r \in Nat /\ n \in Nat /\ Cardinality(passed) \in Nat
  BY LoopFields
<1>2. /\ b2.items = b.items /\ b2.rounds = r + 1 /\ Len(b2.items) = n
      /\ Len(rest) = Len(items) - 1 /\ \A i \in 1..Len(rest) : rest[i] = items[i + 1]
  BY DEF Later, Rest
<1>3. Passed(b2.items, f, b2.rounds) = passed
  <2>1. r + 1 \notin Passed(b.items, f, r + 1)
    BY DEF Passed
  <2>2. r + 1 \in Nat /\ r + 1 > 0 /\ (r + 1) - 1 = r
    BY <1>1
  <2> QED
    BY <1>2, <2>1, <2>2, PassedCount
<1>4. /\ Len(items) = n - r + Cardinality(passed)
      /\ \A i \in 1..n - r : items[i] = b.items[r + i]
      /\ \A i \in n - r + 1..Len(items) : \E k \in passed : items[i] = Resent(b, f, k)
      /\ \A k \in passed : \E i \in n - r + 1..Len(items) : items[i] = Resent(b, f, k)
      /\ \A k \in passed : ~Overfull(b.items, f, k)
  BY DEF LoopRuns
<1>5. Len(b2.items) - b2.rounds = n - r - 1 /\ n - r - 1 \in Nat
  BY <1>1, <1>2
<1> HIDE DEF r, n, passed
<1>6. Len(rest) = n - r - 1 + Cardinality(passed)
  BY <1>1, <1>2, <1>4
<1>7. ASSUME NEW i \in 1..n - r - 1
      PROVE  rest[i] = b2.items[b2.rounds + i]
  <2>1. i \in 1..Len(rest) /\ i + 1 \in 1..n - r
    BY <1>1, <1>5, <1>6
  <2>2. rest[i] = b.items[r + (i + 1)]
    BY <1>2, <1>4, <2>1
  <2>3. r + (i + 1) = b2.rounds + i
    BY <1>1, <1>2
  <2> QED
    BY <1>2, <2>2, <2>3
<1>8. ASSUME NEW i \in n - r - 1 + 1..Len(rest)
      PROVE  \E k \in passed : rest[i] = Resent(b2, f, k)
  <2>1. i \in 1..Len(rest) /\ i + 1 \in n - r + 1..Len(items)
    BY <1>1, <1>2, <1>4, <1>5, <1>6
  <2>2. PICK k \in passed : items[i + 1] = Resent(b, f, k)
    BY <1>4, <2>1
  <2> QED
    BY <1>2, <2>1, <2>2, LaterResent
<1>9. ASSUME NEW k \in passed
      PROVE  \E i \in n - r - 1 + 1..Len(rest) : rest[i] = Resent(b2, f, k)
  <2>1. PICK i \in n - r + 1..Len(items) : items[i] = Resent(b, f, k)
    BY <1>4
  <2>2. i - 1 \in n - r - 1 + 1..Len(rest) /\ i - 1 \in 1..Len(rest) /\ (i - 1) + 1 = i
    BY <1>1, <1>2, <1>4, <1>5, <1>6
  <2>3. rest[i - 1] = items[i]
    BY <1>2, <2>2
  <2> QED
    BY <2>1, <2>2, <2>3, LaterResent
<1>10. LoopRuns(b2, f, rest)
  <2>1. \A k \in passed : ~Overfull(b2.items, f, k)
    BY <1>2, <1>4
  <2> QED
    BY <1>3, <1>5, <1>6, <1>7, <1>8, <1>9, <2>1 DEF LoopRuns
<1> QED
  BY <1>3, <1>10 DEF passed, r

\* In the loop the queue does not grow.
LEMMA OverfullFalls ==
  ASSUME NEW items, NEW f, NEW k \in Nat, NEW r \in Nat, 0 < k, k <= r, Len(items) \in Nat,
         Overfull(items, f, r + 1)
  PROVE  Overfull(items, f, k)
<1> DEFINE early == Passed(items, f, k - 1)
           late == k..r
           all == Passed(items, f, r)
<1>1. all \in SUBSET (early \cup late)
  BY DEF Passed
<1>2. k - 1 \in Nat /\ (r + 1) - 1 = r
  OBVIOUS
<1>3. /\ IsFiniteSet(early) /\ Cardinality(early) \in Nat
      /\ IsFiniteSet(all) /\ Cardinality(all) \in Nat
  BY <1>2, PassedCount
<1>4. IsFiniteSet(late) /\ Cardinality(late) = r - k + 1
  <2>1. k \in Int /\ r \in Int
    OBVIOUS
  <2>2. IsFiniteSet(late) /\ Cardinality(late) = IF k > r THEN 0 ELSE r - k + 1
    BY <2>1, FS_Interval
  <2> QED
    BY <2>2
<1> HIDE DEF early, late, all
<1>5. IsFiniteSet(early \cup late) /\ IsFiniteSet(early \cap late)
  <2>1. IsFiniteSet(early \cup late)
    BY <1>3, <1>4, FS_Union
  <2>2. early \cap late \in SUBSET early
    OBVIOUS
  <2>3. IsFiniteSet(early \cap late)
    BY <1>3, <2>2, FS_Subset
  <2> QED
    BY <2>1, <2>3
<1>6. Cardinality(early \cup late) =
        Cardinality(early) + Cardinality(late) - Cardinality(early \cap late)
  BY <1>3, <1>4, FS_Union
<1>7. Cardinality(early \cap late) \in Nat
  BY <1>5, FS_CardinalityType
<1>8. Cardinality(all) <= Cardinality(early \cup late)
  BY <1>1, <1>5, FS_Subset
<1>9. Cardinality(all) <= Cardinality(early) + (r - k + 1)
  BY <1>3, <1>4, <1>6, <1>7, <1>8
<1>10. Len(items) - (r + 1) + 1 + Cardinality(all) > MaxUnacked
  BY <1>2 DEF Overfull, all
<1>11. Len(items) - k + 1 + Cardinality(early) > MaxUnacked
  BY <1>3, <1>9, <1>10
<1> QED
  BY <1>11 DEF Overfull, early

\* longer is rest with one more item.
Longer(rest, longer, item) ==
  /\ Len(longer) = Len(rest) + 1 /\ longer[Len(longer)] = item
  /\ \A i \in 1..Len(rest) : longer[i] = rest[i]

\* A packet that the ACK frame passes over goes behind all others under the next
\* number, unless the queue is too long for it.
LEMMA ResentRound ==
  ASSUME NEW b, NEW f, NEW b2, NEW items, NEW rest, NEW longer,
         LoopSound(b, f), LoopRuns(b, f, items), Later(b, b2),
         Rest(items, rest), Longer(rest, longer, Resent(b, f, b.rounds + 1)),
         Len(items) \in Nat, b.rounds < Len(b.items), b.items[b.rounds + 1].pn \notin f.acked
  PROVE  /\ Cardinality(Passed(b2.items, f, b2.rounds)) =
              Cardinality(Passed(b.items, f, b.rounds)) + 1
         /\ ~(Len(longer) > MaxUnacked) => LoopRuns(b2, f, longer)
         /\ Len(longer) > MaxUnacked => LoopBroken(b2, f)
<1> DEFINE r == b.rounds
           n == Len(b.items)
           passed == Passed(b.items, f, r)
           now == Passed(b.items, f, r + 1)
<1>1. r \in Nat /\ n \in Nat /\ r < n /\ Cardinality(passed) \in Nat
  BY LoopFields
<1>2. /\ b2.items = b.items /\ b2.rounds = r + 1 /\ Len(b2.items) = n
      /\ Len(rest) = Len(items) - 1 /\ \A i \in 1..Len(rest) : rest[i] = items[i + 1]
      /\ Len(longer) = Len(rest) + 1 /\ longer[Len(longer)] = Resent(b, f, r + 1)
      /\ \A i \in 1..Len(rest) : longer[i] = rest[i]
  BY DEF Later, Rest, Longer
<1>3. r + 1 \in now /\ now = passed \cup {r + 1} /\ Cardinality(now) = Cardinality(passed) + 1
  <2>1. r + 1 \in now
    BY <1>1 DEF Passed
  <2>2. r + 1 \in Nat /\ r + 1 > 0 /\ (r + 1) - 1 = r
    BY <1>1
  <2> QED
    BY <2>1, <2>2, PassedCount
<1>4. /\ Len(items) = n - r + Cardinality(passed)
      /\ \A i \in 1..n - r : items[i] = b.items[r + i]
      /\ \A i \in n - r + 1..Len(items) : \E k \in passed : items[i] = Resent(b, f, k)
      /\ \A k \in passed : \E i \in n - r + 1..Len(items) : items[i] = Resent(b, f, k)
      /\ \A k \in passed : ~Overfull(b.items, f, k)
  BY DEF LoopRuns
<1>5. Overfull(b.items, f, r + 1) <=> Len(longer) > MaxUnacked
  <2>1. (r + 1) - 1 = r
    BY <1>1
  <2>2. Overfull(b.items, f, r + 1) <=> n - (r + 1) + 1 + Cardinality(passed) > MaxUnacked
    BY <2>1 DEF Overfull
  <2> HIDE DEF r, n, passed
  <2> QED
    BY <1>1, <1>2, <1>4, <2>2
<1>6. /\ Len(b2.items) - b2.rounds = n - r - 1 /\ n - r - 1 \in Nat
      /\ Passed(b2.items, f, b2.rounds) = now
  BY <1>1, <1>2
<1> HIDE DEF r, n, passed, now
<1>7. /\ Len(longer) = n - r - 1 + Cardinality(now) /\ Len(longer) = Len(items)
      /\ Len(items) \in Nat /\ n - r <= Len(items)
  BY <1>1, <1>2, <1>3, <1>4
<1>8. ASSUME NEW i \in 1..n - r - 1
      PROVE  longer[i] = b2.items[b2.rounds + i]
  <2>1. i \in 1..Len(rest) /\ i + 1 \in 1..n - r
    BY <1>1, <1>2, <1>4, <1>6
  <2>2. longer[i] = b.items[r + (i + 1)]
    BY <1>2, <1>4, <2>1
  <2>3. r + (i + 1) = b2.rounds + i
    BY <1>1, <1>2
  <2> QED
    BY <1>2, <2>2, <2>3
<1>9. ASSUME NEW i \in n - r - 1 + 1..Len(longer)
      PROVE  \E k \in now : longer[i] = Resent(b2, f, k)
  <2>1. CASE i = Len(longer)
    <3>1. longer[i] = Resent(b, f, r + 1) /\ r + 1 \in now
      BY <1>2, <1>3, <2>1
    <3>2. Resent(b2, f, r + 1) = Resent(b, f, r + 1)
      BY LaterResent
    <3> QED
      BY <3>1, <3>2
  <2>2. CASE i # Len(longer)
    <3>1. i \in 1..Len(rest) /\ i + 1 \in n - r + 1..Len(items)
      <4>1. i \in Int /\ n - r <= i /\ i < Len(items) /\ n - r \in Nat /\ n - r > 0
        BY <1>1, <1>6, <1>7, <2>2
      <4>2. Len(rest) = Len(items) - 1
        BY <1>2
      <4> QED
        BY <1>1, <1>7, <4>1, <4>2
    <3>2. PICK k \in passed : items[i + 1] = Resent(b, f, k)
      BY <1>4, <3>1
    <3> QED
      BY <1>2, <1>3, <3>1, <3>2, LaterResent
  <2> QED
    BY <2>1, <2>2
<1>10. ASSUME NEW k \in now
       PROVE  \E i \in n - r - 1 + 1..Len(longer) : longer[i] = Resent(b2, f, k)
  <2>1. CASE k = r + 1
    <3>1. Len(longer) \in n - r - 1 + 1..Len(longer)
      BY <1>1, <1>3, <1>6, <1>7
    <3> QED
      BY <1>2, <2>1, <3>1, LaterResent
  <2>2. CASE k # r + 1
    <3>1. k \in passed
      BY <1>3, <2>2
    <3>2. PICK i \in n - r + 1..Len(items) : items[i] = Resent(b, f, k)
      BY <1>4, <3>1
    <3>3. i - 1 \in n - r - 1 + 1..Len(longer) /\ i - 1 \in 1..Len(rest) /\ (i - 1) + 1 = i
      <4>1. i \in Int /\ n - r < i /\ i <= Len(items) /\ n - r \in Nat /\ n - r > 0
        BY <1>1, <1>6, <1>7
      <4>2. Len(rest) = Len(items) - 1
        BY <1>2
      <4> QED
        BY <1>1, <1>7, <4>1, <4>2
    <3>4. longer[i - 1] = items[i]
      BY <1>2, <3>3
    <3> QED
      BY <3>2, <3>3, <3>4, LaterResent
  <2> QED
    BY <2>1, <2>2
<1>11. ASSUME ~(Len(longer) > MaxUnacked)
       PROVE  LoopRuns(b2, f, longer)
  <2>1. \A k \in now : ~Overfull(b2.items, f, k)
    BY <1>2, <1>3, <1>4, <1>5, <1>11
  <2> QED
    BY <1>6, <1>7, <1>8, <1>9, <1>10, <2>1 DEF LoopRuns
<1>12. ASSUME Len(longer) > MaxUnacked
       PROVE  LoopBroken(b2, f)
  <2>1. Overfull(b.items, f, r + 1)
    BY <1>5, <1>12
  <2>2. ASSUME NEW k \in passed
        PROVE  FALSE
    <3>1. k \in 1..r
      BY DEF passed, Passed
    <3>2. k \in Nat /\ 0 < k /\ k <= r /\ Len(b.items) \in Nat
      BY <1>1, <3>1 DEF n
    <3>3. Overfull(b.items, f, k)
      BY <1>1, <2>1, <3>2, OverfullFalls
    <3> QED
      BY <1>4, <3>3
  <2>3. now = {r + 1}
    BY <1>3, <2>2
  <2> QED
    BY <1>2, <1>6, <2>1, <2>3 DEF LoopBroken
<1>13. Cardinality(Passed(b2.items, f, b2.rounds)) = Cardinality(passed) + 1
  BY <1>3, <1>6
<1> QED
  BY <1>11, <1>12, <1>13 DEF passed, r

-----------------------------------------------------------------------------
(* The steps of the sender and the receiver                                *)

\* A queue of packets as a list of them.
LEMMA QueueItems ==
  ASSUME NEW q \in Queues(Unacked)
  PROVE  Items(q) \in Seq(Unacked) /\ Length(q) = Len(Items(q)) /\ Length(q) \in Nat
<1>1. Items(q) \in Seq(Unacked) /\ Len(Items(q)) = Length(q)
  BY LengthCounts
<1> QED
  BY <1>1, ItemFields

\* An empty queue.
LEMMA EmptyItems ==
  /\ EmptyQueue \in Queues(Unacked) /\ Items(EmptyQueue) = <<>>
  /\ <<>> \in Seq(Unacked) /\ Len(<<>>) = 0 /\ \A n : Ordered(<<>>, n)
<1>1. <<>> \in Seq(Unacked) /\ Len(<<>>) = 0
  OBVIOUS
<1>2. EmptyQueue \in Queues(Unacked)
  BY <1>1 DEF EmptyQueue, Queues, WellFormed
<1>3. Len(Items(EmptyQueue)) = 0 /\ Items(EmptyQueue) \in Seq(Unacked)
  BY <1>2, QueueItems DEF EmptyQueue, Length
<1>4. Items(EmptyQueue) = <<>>
  BY <1>3, EmptySeq
<1>5. \A n : Ordered(<<>>, n)
  BY <1>1 DEF Ordered
<1> QED
  BY <1>1, <1>2, <1>4, <1>5

\* The receiver sees nothing of what the sender does but packets.
LEMMA ReceiverRests ==
  ASSUME ReceiverSound, UNCHANGED <<handler, arrived, wires>>,
         Looping' => loop' \in AckFrames(arrived),
         \A p \in net' : p \in net \/ p \in Packets
  PROVE  ReceiverSound'
<1>1. handler' = handler /\ arrived' = arrived /\ wires' = wires
  OBVIOUS
<1>2. net' \subseteq Packets
  BY DEF ReceiverSound
<1> QED
  BY <1>1, <1>2 DEF ReceiverSound

LEMMA PacketTyped ==
  ASSUME NEW pn \in Nat \ {0}, NEW needAck \in BOOLEAN, NEW least \in Nat
  PROVE  Packet(pn, needAck, least) \in Packets
BY DEF Packet, Packets

\* _sendPacket pushes the packet behind all others; when that is too long and
\* the callback destroys the session, the queue is reset.
LEMMA SendPacketStep ==
  ASSUME NEW rest, rest \in Queues(Unacked), Ordered(Items(rest), nextPN), nextPN \in Nat \ {0},
         NEW packet, packet \in Unacked, packet.pn = nextPN,
         NEW fatal, fatal \in BOOLEAN, SendPacket(rest, packet, fatal), ReceiverSound,
         UNCHANGED <<handler, arrived, wires, loop>>
  PROVE  LET longer == Append(Items(rest), packet)
         IN /\ QueueSound' /\ ReceiverSound' /\ nextPN' = nextPN + 1
            /\ longer \in Seq(Unacked) /\ Longer(Items(rest), longer, packet)
            /\ ItemSet(longer) = ItemSet(Items(rest)) \cup {packet}
            /\ Ordered(longer, nextPN')
            /\ destroyed' = (Len(longer) > MaxUnacked /\ fatal)
            /\ IF destroyed' THEN queue' = EmptyQueue ELSE Items(queue') = longer
<1> DEFINE longer == Append(Items(rest), packet)
<1>1. Items(rest) \in Seq(Unacked) /\ Len(Items(rest)) \in Nat
  BY QueueItems
<1>2. Push(rest, packet) \in Queues(Unacked) /\ Items(Push(rest, packet)) = longer
  BY PushAppends
<1>3. /\ longer \in Seq(Unacked) /\ Longer(Items(rest), longer, packet)
      /\ Ordered(longer, nextPN + 1) /\ ItemSet(longer) = ItemSet(Items(rest)) \cup {packet}
  BY <1>1, AppendOrdered DEF Longer
<1>4. Length(Push(rest, packet)) = Len(longer)
  BY <1>2, QueueItems
<1>5. /\ nextPN' = nextPN + 1 /\ destroyed' = (Len(longer) > MaxUnacked /\ fatal)
      /\ IF destroyed' THEN queue' = EmptyQueue ELSE queue' = Push(rest, packet)
      /\ \A p \in net' : p \in net \/ p = Packet(packet.pn, TRUE, 0)
  BY <1>4 DEF SendPacket, Reset
<1> HIDE DEF longer
<1>6. QueueSound'
  <2>1. CASE destroyed'
    BY <1>5, <2>1, EmptyItems DEF QueueSound
  <2>2. CASE ~destroyed'
    BY <1>2, <1>3, <1>5, <2>2 DEF QueueSound
  <2> QED
    BY <2>1, <2>2
<1>7. ReceiverSound'
  <2>1. Packet(packet.pn, TRUE, 0) \in Packets
    BY PacketTyped
  <2>2. \A p \in net' : p \in net \/ p \in Packets
    BY <1>5, <2>1
  <2>3. Looping' => loop' \in AckFrames(arrived)
    BY DEF ReceiverSound, Looping
  <2> QED
    BY <2>2, <2>3, ReceiverRests
<1> QED
  BY <1>2, <1>3, <1>5, <1>6, <1>7 DEF longer

\* The first packet of a queue, and the queue that shift() leaves.
LEMMA ShiftStep ==
  ASSUME NEW q, q \in Queues(Unacked), NEW n \in Nat, Ordered(Items(q), n), Length(q) > 0
  PROVE  LET items == Items(q)
         IN /\ Len(items) \in Nat /\ Len(items) > 0
            /\ First(q) = items[1] /\ First(q) \in Unacked
            /\ Shift(q) \in Queues(Unacked) /\ Ordered(Items(Shift(q)), n)
            /\ Rest(items, Items(Shift(q)))
<1>1. Items(q) \in Seq(Unacked) /\ Len(Items(q)) \in Nat /\ Len(Items(q)) > 0
  BY QueueItems
<1>2. /\ First(q) = Head(Items(q)) /\ Shift(q) \in Queues(Unacked)
      /\ Items(Shift(q)) = Tail(Items(q))
  BY ShiftTakesFirst
<1> QED
  BY <1>1, <1>2, TailOrdered DEF Rest

\* A frame that is sent for the first time.
LEMMA SendStep ==
  ASSUME IInv, Send
  PROVE  /\ IInv' /\ ~Looping /\ ~Looping' /\ ~destroyed
         /\ \E frame \in 1..MaxPacketNumber, fatal \in BOOLEAN :
              LET U == ItemSet(Items(queue)) \cup {[pn |-> nextPN, frame |-> frame]}
                  over == fatal /\ Cardinality(U) > MaxUnacked
              IN /\ nextPN' = nextPN + 1 /\ destroyed' = over
                 /\ ItemSet(Items(queue')) = IF over THEN {} ELSE U
<1> DEFINE packet == [pn |-> nextPN, frame |-> nextPN]
           longer == Append(Items(queue), packet)
           U == ItemSet(Items(queue)) \cup {packet}
<1>1. PICK fatal \in BOOLEAN : SendPacket(queue, packet, fatal)
  BY DEF Send
<1>2. /\ QueueSound /\ ReceiverSound /\ LoopInv /\ ~Looping /\ ~destroyed
      /\ loop' = loop /\ before' = before /\ UNCHANGED <<handler, arrived, wires>>
      /\ nextPN \in Nat \ {0} /\ nextPN < MaxPacketNumber
      /\ queue \in Queues(Unacked) /\ Ordered(Items(queue), nextPN)
  BY DEF Send, IInv, QueueSound
<1>3. packet \in Unacked /\ packet.pn = nextPN /\ nextPN \in 1..MaxPacketNumber
  BY <1>2 DEF Unacked
<1> HIDE DEF packet
<1>4. /\ QueueSound' /\ ReceiverSound' /\ nextPN' = nextPN + 1
      /\ longer \in Seq(Unacked) /\ ItemSet(longer) = U /\ Ordered(longer, nextPN')
      /\ destroyed' = (Len(longer) > MaxUnacked /\ fatal)
      /\ IF destroyed' THEN queue' = EmptyQueue ELSE Items(queue') = longer
  BY <1>1, <1>2, <1>3, SendPacketStep
<1> HIDE DEF longer
<1>5. ~Looping' /\ LoopInv'
  BY <1>2 DEF Looping, LoopInv
<1>6. Cardinality(U) = Len(longer)
  <2>1. nextPN' \in Nat
    BY <1>2, <1>4
  <2> HIDE DEF U
  <2> QED
    BY <1>4, <2>1, QueueCount
<1>7. ItemSet(Items(queue')) = IF destroyed' THEN {} ELSE U
  <2>1. CASE destroyed'
    <3>1. Items(queue') = <<>> /\ 1..Len(<<>>) = {}
      BY <1>4, <2>1, EmptyItems
    <3> QED
      BY <2>1, <3>1 DEF ItemSet
  <2>2. CASE ~destroyed'
    BY <1>4, <2>2
  <2> QED
    BY <2>1, <2>2
<1>8. LET V == ItemSet(Items(queue)) \cup {[pn |-> nextPN, frame |-> nextPN]}
          over == fatal /\ Cardinality(V) > MaxUnacked
      IN /\ nextPN' = nextPN + 1 /\ destroyed' = over
         /\ ItemSet(Items(queue')) = IF over THEN {} ELSE V
  BY <1>4, <1>6, <1>7 DEF packet
<1> QED
  BY <1>2, <1>3, <1>4, <1>5, <1>8 DEF IInv

\* An ACK frame of its own.
LEMMA SendAckStep ==
  ASSUME IInv, SendAck
  PROVE  /\ IInv' /\ ~Looping /\ ~Looping' /\ ~destroyed /\ ~destroyed'
         /\ nextPN' = nextPN + 1 /\ queue' = queue
<1>1. /\ ~Looping /\ ~destroyed /\ destroyed' = destroyed /\ queue' = queue /\ nextPN' = nextPN + 1
      /\ loop' = loop /\ before' = before /\ UNCHANGED <<handler, arrived, wires>>
      /\ \A p \in net' : p \in net \/ p = Packet(nextPN, FALSE, 0)
  BY DEF SendAck
<1>2. nextPN \in Nat /\ nextPN' \in Nat \ {0} /\ Items(queue) \in Seq(Unacked)
  BY <1>1, QueueItems DEF IInv, QueueSound
<1>3. \A i \in 1..Len(Items(queue)) : Items(queue)[i].pn \in Nat
  BY <1>2, ItemFields
<1>4. Ordered(Items(queue), nextPN + 1)
  BY <1>2, <1>3 DEF IInv, QueueSound, Ordered
<1>5. QueueSound'
  BY <1>1, <1>2, <1>4 DEF IInv, QueueSound
<1>6. ReceiverSound'
  <2>1. Packet(nextPN, FALSE, 0) \in Packets
    BY PacketTyped DEF IInv, QueueSound
  <2>2. \A p \in net' : p \in net \/ p \in Packets
    BY <1>1, <2>1
  <2>3. Looping' => loop' \in AckFrames(arrived)
    BY <1>1 DEF Looping
  <2> QED
    BY <1>1, <2>2, <2>3, ReceiverRests DEF IInv
<1>7. ~Looping' /\ LoopInv'
  BY <1>1 DEF IInv, Looping, LoopInv
<1> QED
  BY <1>1, <1>5, <1>6, <1>7 DEF IInv

\* The loop begins with the whole queue before it.
LEMMA ReceiveAckStep ==
  ASSUME IInv, ReceiveAck
  PROVE  /\ IInv' /\ ~Looping /\ Looping' /\ ~destroyed
         /\ before'.items = Items(queue) /\ before'.nextPN = nextPN
<1>1. PICK w \in wires : /\ w.largestAcked < nextPN /\ loop' = FromBuffer(w)
                         /\ nextPN' = IF w.missing THEN nextPN + 1 ELSE nextPN
                         /\ net' = IF w.missing THEN net \cup {Packet(nextPN, FALSE, w.largestAcked)}
                                                ELSE net
  BY DEF ReceiveAck
<1>2. /\ ~Looping /\ ~destroyed /\ destroyed' = destroyed /\ queue' = queue
      /\ before' = [items |-> Items(queue), nextPN |-> nextPN, rounds |-> 0]
      /\ UNCHANGED <<handler, arrived, wires>>
  BY DEF ReceiveAck
<1>a. FromBuffer(w) \in AckFrames(arrived)
  BY DEF IInv, ReceiverSound
<1>b. FromBuffer(w).largestAcked = w.largestAcked /\ FromBuffer(w).missing = w.missing
  BY DEF FromBuffer
<1>3. /\ QueueSound /\ ReceiverSound /\ nextPN \in Nat \ {0}
      /\ w.largestAcked \in Nat \ {0} /\ w.missing \in BOOLEAN
      /\ Items(queue) \in Seq(Unacked) /\ Len(Items(queue)) \in Nat
      /\ Ordered(Items(queue), nextPN)
  <2>1. w.largestAcked \in Nat \ {0} /\ w.missing \in BOOLEAN
    BY <1>a, <1>b DEF AckFrames
  <2> QED
    BY <2>1, QueueItems DEF IInv, QueueSound
<1>4. /\ loop'.type = "ACK" /\ loop'.largestAcked = w.largestAcked /\ loop'.missing = w.missing
  BY <1>1 DEF FromBuffer
<1>5. Looping'
  <2>1. NoLoop.type = "NONE"
    BY DEF NoLoop
  <2> QED
    BY <1>4, <2>1 DEF Looping
<1>6. /\ before'.items = Items(queue) /\ before'.nextPN = nextPN /\ before'.rounds = 0
      /\ before' \in [items : Seq(Unacked), nextPN : Nat, rounds : Nat]
  BY <1>2, <1>3
<1>7. QueueSound'
  <2>1. \A i \in 1..Len(Items(queue)) : Items(queue)[i].pn \in Nat
    BY <1>3, ItemFields
  <2>2. nextPN' \in Nat \ {0} /\ nextPN <= nextPN'
    BY <1>1, <1>3
  <2>3. Ordered(Items(queue), nextPN')
    BY <1>3, <2>1, <2>2 DEF Ordered
  <2> QED
    BY <1>2, <1>3, <2>2, <2>3 DEF QueueSound
<1>8. ReceiverSound'
  <2>1. Packet(nextPN, FALSE, w.largestAcked) \in Packets
    BY <1>3, PacketTyped
  <2>2. \A p \in net' : p \in net \/ p \in Packets
    BY <1>1, <2>1
  <2>3. loop' \in AckFrames(arrived)
    BY <1>1, <1>a
  <2> QED
    BY <1>2, <1>3, <2>2, <2>3, ReceiverRests
<1>9. LoopSound(before', loop')
  BY <1>1, <1>3, <1>4, <1>6 DEF LoopSound
<1>10. Passed(before'.items, loop', 0) = {} /\ Cardinality(Passed(before'.items, loop', 0)) = 0
  <2>1. Passed(before'.items, loop', 0) = {}
    BY DEF Passed
  <2> QED
    BY <2>1, FS_EmptySet
<1>11. nextPN' = FirstNumber(before', loop') + Cardinality(Passed(before'.items, loop', before'.rounds))
  BY <1>1, <1>3, <1>4, <1>6, <1>10 DEF FirstNumber
<1>12. LoopRuns(before', loop', Items(queue'))
  BY <1>2, <1>3, <1>6, <1>10 DEF LoopRuns
<1>13. LoopInv'
  BY <1>2, <1>5, <1>9, <1>11, <1>12 DEF LoopInv
<1> QED
  BY <1>2, <1>5, <1>6, <1>7, <1>8, <1>13 DEF IInv

\* Which packet a round of the loop is at.
LEMMA RoundBegins ==
  ASSUME IInv, NEW acked \in BOOLEAN, InLoop(acked), Round
  PROVE  /\ LoopSound(before, loop) /\ LoopRuns(before, loop, Items(queue)) /\ ~destroyed
         /\ nextPN = FirstNumber(before, loop)
                       + Cardinality(Passed(before.items, loop, before.rounds))
         /\ Later(before, before') /\ before.rounds < Len(before.items)
         /\ LoopSound(before', loop) /\ FirstNumber(before', loop) = FirstNumber(before, loop)
         /\ First(queue) = before.items[before.rounds + 1] /\ First(queue) \in Unacked
         /\ (before.items[before.rounds + 1].pn \in loop.acked) = acked
         /\ Len(Items(queue)) \in Nat /\ Shift(queue) \in Queues(Unacked)
         /\ Ordered(Items(Shift(queue)), nextPN) /\ Rest(Items(queue), Items(Shift(queue)))
<1>1. /\ Looping /\ Length(queue) > 0 /\ First(queue).pn <= loop.largestAcked
      /\ (First(queue).pn \in loop.acked) = acked
  BY DEF InLoop
<1>2. queue \in Queues(Unacked) /\ nextPN \in Nat /\ Ordered(Items(queue), nextPN)
  BY DEF IInv, QueueSound
<1>3. /\ Len(Items(queue)) \in Nat /\ Len(Items(queue)) > 0
      /\ First(queue) = Items(queue)[1] /\ First(queue) \in Unacked
      /\ Shift(queue) \in Queues(Unacked) /\ Ordered(Items(Shift(queue)), nextPN)
      /\ Rest(Items(queue), Items(Shift(queue)))
  BY <1>1, <1>2, ShiftStep
<1>4. ~destroyed
  <2>1. Length(EmptyQueue) = 0
    BY EmptyItems, QueueItems
  <2> QED
    BY <1>1, <2>1 DEF IInv, QueueSound
<1>5. /\ LoopSound(before, loop) /\ LoopRuns(before, loop, Items(queue))
      /\ nextPN = FirstNumber(before, loop)
                    + Cardinality(Passed(before.items, loop, before.rounds))
  BY <1>1, <1>4 DEF IInv, LoopInv
<1>6. before.rounds < Len(before.items) /\ First(queue) = before.items[before.rounds + 1]
  BY <1>1, <1>3, <1>5, LoopFirst
<1>7. Later(before, before')
  BY <1>5 DEF LoopSound, Round, Later
<1>8. LoopSound(before', loop) /\ FirstNumber(before', loop) = FirstNumber(before, loop)
  BY <1>1, <1>5, <1>6, <1>7, LaterSound
<1> QED
  BY <1>1, <1>3, <1>4, <1>5, <1>6, <1>7, <1>8

\* While the loop runs, what SendQueue sees does not change.
Unseen ==
  /\ Looping /\ Looping'
  /\ before'.items = before.items /\ before'.nextPN = before.nextPN

\* A round with a packet that was acknowledged.
LEMMA ShiftAckedStep ==
  ASSUME IInv, ShiftAcked
  PROVE  IInv' /\ Unseen
<1>1. /\ InLoop(TRUE) /\ Round /\ queue' = Shift(queue)
      /\ nextPN' = nextPN /\ destroyed' = destroyed /\ loop' = loop
      /\ UNCHANGED <<handler, arrived, wires, net>>
  BY DEF ShiftAcked
<1>2. /\ LoopSound(before, loop) /\ LoopRuns(before, loop, Items(queue)) /\ ~destroyed
      /\ nextPN = FirstNumber(before, loop)
                    + Cardinality(Passed(before.items, loop, before.rounds))
      /\ Later(before, before') /\ before.rounds < Len(before.items)
      /\ LoopSound(before', loop) /\ FirstNumber(before', loop) = FirstNumber(before, loop)
      /\ before.items[before.rounds + 1].pn \in loop.acked
      /\ Len(Items(queue)) \in Nat /\ Shift(queue) \in Queues(Unacked)
      /\ Ordered(Items(Shift(queue)), nextPN) /\ Rest(Items(queue), Items(Shift(queue)))
  BY <1>1, RoundBegins
<1>3. /\ Passed(before'.items, loop, before'.rounds) = Passed(before.items, loop, before.rounds)
      /\ LoopRuns(before', loop, Items(Shift(queue)))
  BY <1>2, AckedRound
<1>4. Looping /\ Looping'
  BY <1>1 DEF InLoop, Looping
<1>5. LoopInv'
  BY <1>1, <1>2, <1>3, <1>4 DEF LoopInv
<1>6. QueueSound'
  BY <1>1, <1>2 DEF IInv, QueueSound
<1>7. ReceiverSound'
  <2>1. loop' \in AckFrames(arrived)
    BY <1>1, <1>4 DEF IInv, ReceiverSound
  <2> QED
    BY <1>1, <2>1, ReceiverRests DEF IInv
<1> QED
  BY <1>2, <1>4, <1>5, <1>6, <1>7 DEF IInv, Unseen, Later

\* A round with a packet that is missing: it is sent again, or the session is
\* destroyed.
LEMMA ResendStep ==
  ASSUME IInv, Resend
  PROVE  IInv' /\ Unseen
<1> DEFINE rest == Shift(queue)
           packet == [First(queue) EXCEPT !.pn = nextPN]
           longer == Append(Items(rest), packet)
<1>1. /\ InLoop(FALSE) /\ Round /\ SendPacket(rest, packet, TRUE)
      /\ loop' = loop /\ UNCHANGED <<handler, arrived, wires>>
  BY DEF Resend
<1>2. /\ LoopSound(before, loop) /\ LoopRuns(before, loop, Items(queue)) /\ ~destroyed
      /\ nextPN = FirstNumber(before, loop)
                    + Cardinality(Passed(before.items, loop, before.rounds))
      /\ Later(before, before') /\ before.rounds < Len(before.items)
      /\ LoopSound(before', loop) /\ FirstNumber(before', loop) = FirstNumber(before, loop)
      /\ First(queue) = before.items[before.rounds + 1] /\ First(queue) \in Unacked
      /\ before.items[before.rounds + 1].pn \notin loop.acked
      /\ Len(Items(queue)) \in Nat /\ rest \in Queues(Unacked)
      /\ Ordered(Items(rest), nextPN) /\ Rest(Items(queue), Items(rest))
  BY <1>1, RoundBegins
<1>3. ReceiverSound /\ nextPN \in Nat \ {0}
  BY DEF IInv, QueueSound
<1>4. packet \in Unacked /\ packet.pn = nextPN
  BY <1>2, <1>3 DEF Unacked
<1>5. packet = Resent(before, loop, before.rounds + 1)
  <2>1. before.rounds \in Nat /\ (before.rounds + 1) - 1 = before.rounds
    BY <1>2, LoopFields
  <2>2. packet = [pn |-> nextPN, frame |-> First(queue).frame]
    BY <1>2 DEF Unacked
  <2> HIDE DEF packet
  <2> QED
    BY <1>2, <2>1, <2>2 DEF Resent
<1> HIDE DEF packet, rest
<1>6. /\ QueueSound' /\ ReceiverSound' /\ nextPN' = nextPN + 1
      /\ Longer(Items(rest), longer, packet)
      /\ destroyed' = (Len(longer) > MaxUnacked /\ TRUE)
      /\ IF destroyed' THEN queue' = EmptyQueue ELSE Items(queue') = longer
  BY <1>1, <1>2, <1>3, <1>4, SendPacketStep
<1> HIDE DEF longer
<1>7. /\ Cardinality(Passed(before'.items, loop, before'.rounds)) =
           Cardinality(Passed(before.items, loop, before.rounds)) + 1
      /\ ~(Len(longer) > MaxUnacked) => LoopRuns(before', loop, longer)
      /\ Len(longer) > MaxUnacked => LoopBroken(before', loop)
  BY <1>2, <1>5, <1>6, ResentRound
<1>8. Looping /\ Looping'
  BY <1>1 DEF InLoop, Looping
<1>9. nextPN' = FirstNumber(before', loop)
                  + Cardinality(Passed(before'.items, loop, before'.rounds))
  <2>1. /\ FirstNumber(before, loop) \in Nat
        /\ Cardinality(Passed(before.items, loop, before.rounds)) \in Nat
    BY <1>2, LoopFields
  <2> QED
    BY <1>2, <1>6, <1>7, <2>1
<1>10. IF destroyed' THEN LoopBroken(before', loop) ELSE LoopRuns(before', loop, Items(queue'))
  BY <1>6, <1>7
<1>11. LoopInv'
  BY <1>1, <1>2, <1>8, <1>9, <1>10 DEF LoopInv
<1> QED
  BY <1>2, <1>6, <1>8, <1>11 DEF IInv, Unseen, Later

\* What the queue holds when the loop ends: the packets newer than the ACK frame,
\* and those sent again.
LEMMA LoopLeaves ==
  ASSUME NEW b, NEW f, NEW items, LoopSound(b, f), LoopRuns(b, f, items), Len(items) \in Nat,
         \A i \in b.rounds + 1..Len(b.items) : b.items[i].pn > f.largestAcked
  PROVE  ItemSet(items) = {u \in ItemSet(b.items) : u.pn > f.largestAcked}
                            \cup AllResent(b, f)
<1> DEFINE r == b.rounds
           n == Len(b.items)
           passed == Passed(b.items, f, r)
           newer == {u \in ItemSet(b.items) : u.pn > f.largestAcked}
           again == AllResent(b, f)
<1>1. r \in Nat /\ n \in Nat /\ r <= n /\ Cardinality(passed) \in Nat /\ f.largestAcked \in Nat
  BY LoopFields
<1>2. /\ Len(items) = n - r + Cardinality(passed)
      /\ \A i \in 1..n - r : items[i] = b.items[r + i]
      /\ \A i \in n - r + 1..Len(items) : \E k \in passed : items[i] = Resent(b, f, k)
      /\ \A k \in passed : \E i \in n - r + 1..Len(items) : items[i] = Resent(b, f, k)
  BY DEF LoopRuns
<1>3. \A i \in 1..r : ~(b.items[i].pn > f.largestAcked)
  <2>1. \A i \in 1..r : b.items[i].pn <= f.largestAcked /\ b.items[i].pn \in Nat
    BY <1>1, LoopFields, ItemFields DEF LoopSound
  <2> QED
    BY <1>1, <2>1
<1>4. ASSUME NEW i \in 1..Len(items)
      PROVE  items[i] \in newer \cup again
  <2>1. CASE i \in 1..n - r
    <3>1. r + i \in r + 1..n /\ r + i \in 1..n
      BY <1>1, <2>1
    <3>2. b.items[r + i] \in newer
      BY <3>1 DEF ItemSet
    <3> QED
      BY <1>2, <2>1, <3>2
  <2>2. CASE i \notin 1..n - r
    <3>1. i \in n - r + 1..Len(items)
      BY <1>1, <1>2, <2>2
    <3> QED
      BY <1>2, <3>1 DEF AllResent
  <2> QED
    BY <2>1, <2>2
<1>5. ASSUME NEW u \in newer
      PROVE  u \in ItemSet(items)
  <2>1. PICK j \in 1..n : u = b.items[j]
    BY DEF ItemSet
  <2>2. ~(j \in 1..r)
    BY <1>3, <2>1
  <2>3. j - r \in 1..n - r /\ j - r \in 1..Len(items) /\ r + (j - r) = j
    BY <1>1, <1>2, <2>2
  <2>4. items[j - r] = u
    BY <1>2, <2>1, <2>3
  <2>5. \E i \in 1..Len(items) : u = items[i]
    BY <2>3, <2>4
  <2> QED
    BY <2>5, Zenon DEF ItemSet
<1>6. ASSUME NEW k \in passed
      PROVE  Resent(b, f, k) \in ItemSet(items)
  <2>1. PICK i \in n - r + 1..Len(items) : items[i] = Resent(b, f, k)
    BY <1>2
  <2>2. i \in 1..Len(items)
    BY <1>1, <2>1
  <2> QED
    BY <2>1, <2>2 DEF ItemSet
<1>7. /\ \A u \in ItemSet(items) : \E i \in 1..Len(items) : u = items[i]
      /\ \A u \in again : \E k \in passed : u = Resent(b, f, k)
  BY DEF ItemSet, AllResent
<1> HIDE DEF newer, passed, again
<1>8. ItemSet(items) = newer \cup again
  BY <1>4, <1>5, <1>6, <1>7
<1> QED
  BY <1>8 DEF newer, again

\* The whole loop as SendQueue has it, for an ACK frame that names only packets
\* of the queue.
LEMMA LoopEndsStep ==
  ASSUME IInv, LoopEnds
  PROVE  /\ IInv' /\ Looping /\ ~Looping'
         /\ \E g \in [largestAcked : 1..(before.nextPN - 1),
                      acked : SUBSET {u.pn : u \in ItemSet(before.items)}, missing : BOOLEAN] :
              LET U == ItemSet(before.items)
                  first == IF g.missing THEN before.nextPN + 1 ELSE before.nextPN
                  lost == AtOnce!Lost(U, g)
              IN IF AtOnce!Overflows(U, g)
                 THEN ItemSet(Items(queue')) = {} /\ nextPN' = first + 1 /\ destroyed' = TRUE
                 ELSE /\ ItemSet(Items(queue')) = {u \in U : u.pn > g.largestAcked}
                                                    \cup AtOnce!Renumbered(lost, first)
                      /\ nextPN' = first + Cardinality(lost)
                      /\ destroyed' = FALSE
<1> DEFINE b == before
           f == loop
           U == ItemSet(b.items)
           g == [largestAcked |-> f.largestAcked, acked |-> f.acked \cap {u.pn : u \in U},
                 missing |-> f.missing]
           first == FirstNumber(b, f)
           passed == Passed(b.items, f, b.rounds)
<1>1. /\ Looping /\ ~Looping' /\ before' = NotStarted
      /\ queue' = queue /\ nextPN' = nextPN /\ destroyed' = destroyed
      /\ UNCHANGED <<handler, arrived, wires, net>>
      /\ Length(queue) > 0 => First(queue).pn > f.largestAcked
  BY DEF LoopEnds, Looping
<1>2. IInv'
  <2>a. QueueSound'
    BY <1>1 DEF IInv, QueueSound
  <2>b. ReceiverSound'
    BY <1>1, ReceiverRests DEF IInv
  <2>1. QueueSound' /\ ReceiverSound'
    BY <2>a, <2>b
  <2>2. LoopInv'
    BY <1>1 DEF LoopInv
  <2> QED
    BY <2>1, <2>2 DEF IInv
<1>3. /\ LoopSound(b, f) /\ nextPN = first + Cardinality(passed)
      /\ destroyed \in BOOLEAN /\ queue \in Queues(Unacked)
      /\ Ordered(Items(queue), nextPN) /\ nextPN \in Nat
      /\ IF destroyed THEN LoopBroken(b, f) /\ queue = EmptyQueue
                      ELSE LoopRuns(b, f, Items(queue))
  BY <1>1 DEF IInv, QueueSound, LoopInv
<1>4. /\ g \in [largestAcked : 1..(before.nextPN - 1), acked : SUBSET {u.pn : u \in U},
                missing : BOOLEAN]
      /\ g.largestAcked = f.largestAcked /\ g.missing = f.missing
  BY <1>3 DEF LoopSound
<1>5. Agree(f, g, b.items)
  BY DEF Agree
<1>6. first = IF g.missing THEN before.nextPN + 1 ELSE before.nextPN
  BY DEF FirstNumber
<1> HIDE DEF g, first, U
<1>7. CASE destroyed
  <2>1. AtOnce!Overflows(U, g)
    BY <1>3, <1>5, <1>7, LoopOverflows DEF U
  <2>2. ItemSet(Items(queue')) = {}
    <3>1. Items(queue') = <<>> /\ 1..Len(<<>>) = {}
      BY <1>1, <1>3, <1>7, EmptyItems
    <3> QED
      BY <3>1 DEF ItemSet
  <2>3. nextPN' = first + 1
    BY <1>1, <1>3, <1>7, FS_Singleton DEF LoopBroken
  <2> QED
    BY <1>1, <1>2, <1>4, <1>6, <1>7, <2>1, <2>2, <2>3 DEF U
<1>8. CASE ~destroyed
  <2>1. Len(Items(queue)) \in Nat /\ Length(queue) = Len(Items(queue))
    BY <1>3, QueueItems
  <2>2. ASSUME NEW i \in b.rounds + 1..Len(b.items)
        PROVE  b.items[i].pn > f.largestAcked
    <3> DEFINE j == b.rounds + 1
    <3>1. /\ b.rounds \in Nat /\ Len(b.items) \in Nat /\ j \in 1..Len(b.items)
          /\ i \in 1..Len(b.items) /\ j <= i
          /\ b.items \in Seq(Unacked) /\ f.largestAcked \in Nat
      BY <1>3, LoopFields
    <3>2. 1 \in 1..Len(b.items) - b.rounds /\ Len(Items(queue)) > 0
      <4>1. /\ Len(Items(queue)) = Len(b.items) - b.rounds + Cardinality(passed)
            /\ Cardinality(passed) \in Nat
        BY <1>3, <1>8, LoopFields DEF LoopRuns
      <4> QED
        BY <3>1, <4>1
    <3>3. Items(queue)[1] = b.items[j]
      BY <1>3, <1>8, <3>2 DEF LoopRuns
    <3>4. First(queue) = Items(queue)[1]
      BY <1>3, <2>1, <3>2, ShiftStep
    <3>5. b.items[j].pn > f.largestAcked
      BY <1>1, <2>1, <3>2, <3>3, <3>4
    <3>6. b.items[i].pn \in Nat /\ b.items[j].pn \in Nat
      BY <3>1, ItemFields
    <3>7. j < i => b.items[j].pn < b.items[i].pn
      BY <1>3, <3>1 DEF LoopSound, Ordered
    <3> QED
      BY <3>1, <3>5, <3>6, <3>7
  <2>3. LET lost == AtOnce!Lost(U, g)
        IN /\ Cardinality(lost) = Cardinality(passed)
           /\ AtOnce!Renumbered(lost, first) = AllResent(b, f)
           /\ AtOnce!Overflows(U, g) => \E k \in passed : Overfull(b.items, f, k)
    BY <1>3, <1>5, <2>2, LoopResult DEF U, first
  <2>4. ~AtOnce!Overflows(U, g)
    BY <1>3, <1>8, <2>3 DEF LoopRuns
  <2>5. ItemSet(Items(queue)) = {u \in U : u.pn > f.largestAcked} \cup AllResent(b, f)
    BY <1>3, <1>8, <2>1, <2>2, LoopLeaves DEF U
  <2>6. /\ ItemSet(Items(queue')) = {u \in U : u.pn > g.largestAcked}
                                     \cup AtOnce!Renumbered(AtOnce!Lost(U, g), first)
        /\ nextPN' = first + Cardinality(AtOnce!Lost(U, g)) /\ destroyed' = FALSE
    BY <1>1, <1>3, <1>4, <1>8, <2>3, <2>5
  <2> QED
    BY <1>1, <1>2, <1>4, <1>6, <2>4, <2>6 DEF U
<1> QED
  BY <1>3, <1>7, <1>8

\* What the receiver does is unseen by the sender.
SenderRests == UNCHANGED <<queue, nextPN, destroyed, loop, before>>

LEMMA ReceiverKeeps ==
  ASSUME IInv, SenderRests, ReceiverSound'
  PROVE  IInv' /\ (Looping' <=> Looping)
<1>1. QueueSound' /\ (Looping' <=> Looping)
  BY DEF IInv, SenderRests, QueueSound, Looping
<1>2. LoopInv'
  BY <1>1 DEF IInv, SenderRests, LoopInv
<1> QED
  BY <1>1, <1>2 DEF IInv

\* What arrives is remembered; ack() and lowest() keep the handler sound.
LEMMA ArriveStep ==
  ASSUME IInv, Arrive
  PROVE  IInv' /\ (Looping' <=> Looping) /\ SenderRests
<1>1. PICK p \in net : /\ net' = net \ {p} /\ wires' = wires
                       /\ arrived' = arrived \cup {p.pn}
                       /\ handler' = Lowest(Ack(handler, p.pn, p.needAck), p.least)
  BY DEF Arrive
<1>2. SenderRests /\ loop' = loop
  BY DEF Arrive, SenderRests
<1>3. ReceiverSound /\ p \in Packets
  BY DEF IInv, ReceiverSound
<1>4. p.pn \in Nat \ {0} /\ p.needAck \in BOOLEAN /\ p.least \in Nat
  BY <1>3 DEF Packets
<1> DEFINE h == Ack(handler, p.pn, p.needAck)
<1>5. HandlerSound(h) /\ h.numbersAcked \subseteq handler.numbersAcked \cup {p.pn}
  BY <1>3, <1>4, AckKeeps DEF ReceiverSound
<1> HIDE DEF h
<1>6. HandlerSound(Lowest(h, p.least)) /\ Lowest(h, p.least).numbersAcked = h.numbersAcked
  BY <1>4, <1>5, LowestKeeps
<1>7. handler' = Lowest(h, p.least)
  BY <1>1 DEF h
<1>8. HandlerSound(handler') /\ handler'.numbersAcked \subseteq arrived'
  BY <1>1, <1>3, <1>5, <1>6, <1>7 DEF ReceiverSound
<1>9. arrived \subseteq arrived' /\ AckFrames(arrived) \subseteq AckFrames(arrived')
  BY <1>1 DEF AckFrames
<1>10. ReceiverSound'
  <2>1. arrived' \subseteq Nat \ {0} /\ net' \subseteq Packets
    BY <1>1, <1>3, <1>4 DEF ReceiverSound
  <2>2. \A w \in wires' : FromBuffer(w) \in AckFrames(arrived')
    BY <1>1, <1>3, <1>9 DEF ReceiverSound
  <2>3. Looping' => loop' \in AckFrames(arrived')
    BY <1>2, <1>3, <1>9 DEF ReceiverSound, Looping
  <2> QED
    BY <1>8, <2>1, <2>2, <2>3 DEF ReceiverSound
<1> QED
  BY <1>2, <1>10, ReceiverKeeps

\* What is written can be read back, and says nothing new of the packets.
LEMMA WriteAckStep ==
  ASSUME IInv, WriteAck
  PROVE  IInv' /\ (Looping' <=> Looping) /\ SenderRests
<1>1. /\ handler' = AfterFrame(handler) /\ net' = net /\ arrived' = arrived
      /\ \/ /\ HasFrame(handler) /\ ~WriteThrows(ToFrame(handler))
            /\ wires' = wires \cup {WriteTo(ToFrame(handler))}
         \/ wires' = wires
  BY DEF WriteAck
<1>2. SenderRests /\ loop' = loop
  BY DEF WriteAck, SenderRests
<1>3. ReceiverSound
  BY DEF IInv
<1>4. HandlerSound(handler') /\ handler'.numbersAcked \subseteq arrived'
  BY <1>1, <1>3, AfterFrameKeeps DEF ReceiverSound
<1>5. ASSUME HasFrame(handler), ~WriteThrows(ToFrame(handler))
      PROVE  FromBuffer(WriteTo(ToFrame(handler))) \in AckFrames(arrived)
  <2>1. FromBuffer(WriteTo(ToFrame(handler))) \in AckFrames(handler.numbersAcked)
    BY <1>3, <1>5, FrameIsRead DEF ReceiverSound, AckFrames
  <2>2. AckFrames(handler.numbersAcked) \subseteq AckFrames(arrived)
    BY <1>3 DEF ReceiverSound, AckFrames
  <2> QED
    BY <2>1, <2>2
<1>6. \A w \in wires' : FromBuffer(w) \in AckFrames(arrived')
  BY <1>1, <1>3, <1>5 DEF ReceiverSound
<1>7. ReceiverSound'
  <2>1. Looping' => loop' \in AckFrames(arrived')
    BY <1>1, <1>2, <1>3 DEF ReceiverSound, Looping
  <2> QED
    BY <1>1, <1>3, <1>4, <1>6, <2>1 DEF ReceiverSound
<1> QED
  BY <1>2, <1>7, ReceiverKeeps

-----------------------------------------------------------------------------
(* The theorems                                                            *)

LEMMA InitialState == Init => IInv
<1> SUFFICES ASSUME Init
             PROVE  IInv
  OBVIOUS
<1>1. QueueSound
  <2>1. queue = EmptyQueue /\ nextPN = 1 /\ destroyed = FALSE
    BY DEF Init
  <2>2. Items(queue) = <<>> /\ queue \in Queues(Unacked)
    BY <2>1, EmptyItems
  <2>3. Ordered(<<>>, nextPN)
    BY EmptyItems
  <2>4. Ordered(Items(queue), nextPN)
    BY <2>2, <2>3
  <2>5. nextPN \in Nat \ {0}
    BY <2>1
  <2>6. destroyed \in BOOLEAN /\ ~destroyed
    BY <2>1
  <2> QED
    BY <2>2, <2>4, <2>5, <2>6 DEF QueueSound
<1>2. ReceiverSound
  BY DEF Init, ReceiverSound, NewACKHandler, HandlerSound, HandlerState, Looping
<1>3. LoopInv
  BY DEF Init, LoopInv, Looping
<1> QED
  BY <1>1, <1>2, <1>3 DEF IInv

\* The inductive invariant of sender, loop and receiver: at every round of
\* _retransmit the queue holds the packets that are still to be looked at and,
\* behind them, those that were sent again.
THEOREM Invariance == Spec => []IInv
<1>1. ASSUME IInv, [Next]_vars
      PROVE  IInv'
  <2>1. CASE UNCHANGED vars
    <3>0. UNCHANGED <<handler, arrived, wires, net, loop>>
      BY <2>1 DEF vars
    <3>a. Looping' => loop' \in AckFrames(arrived)
      BY <1>1, <3>0 DEF IInv, ReceiverSound, Looping
    <3>1. ReceiverSound'
      BY <1>1, <3>0, <3>a, ReceiverRests DEF IInv
    <3>2. SenderRests
      BY <2>1 DEF vars, SenderRests
    <3> QED
      BY <1>1, <3>1, <3>2, ReceiverKeeps
  <2>2. CASE Next
    BY <1>1, <2>2, SendStep, SendAckStep, ReceiveAckStep, ShiftAckedStep, ResendStep,
       LoopEndsStep, ArriveStep, WriteAckStep DEF Next
  <2> QED
    BY <1>1, <2>1, <2>2
<1> QED
  BY <1>1, InitialState, PTL DEF Spec

\* _retransmit looks at each packet once at most and at none that it has put back
\* itself, so its loop comes to an end whatever the ACK frame says.
THEOREM EachPacketIsTakenOnce == Spec => []EachPacketOnce
<1>1. IInv => EachPacketOnce
  <2> SUFFICES ASSUME IInv
               PROVE  EachPacketOnce
    OBVIOUS
  <2>1. CASE Looping
    BY <2>1 DEF IInv, LoopInv, LoopSound, EachPacketOnce
  <2>2. CASE ~Looping
    BY <2>2, EmptyItems DEF IInv, LoopInv, NotStarted, EachPacketOnce
  <2> QED
    BY <2>1, <2>2
<1> QED
  BY <1>1, Invariance, PTL

\* What SendQueue sees of a state: the session as it was before the loop.
SeenItems == IF Looping THEN before.items ELSE Items(queue)
SeenPN == IF Looping THEN before.nextPN ELSE nextPN
SeenDestroyed == ~Looping /\ destroyed

\* A step that SendQueue does not see.
LEMMA Stutters ==
  ASSUME SeenItems' = SeenItems, SeenPN' = SeenPN, SeenDestroyed' = SeenDestroyed
  PROVE  UNCHANGED (AtOnce!vars)
BY DEF AtOnce!vars, SeenItems, SeenPN, SeenDestroyed

\* The loop of _retransmit over the two arrays comes to the single step of
\* SendQueue, also when its own retransmission destroys the session: what an ACK
\* frame does to the queue may be taken as one step, as PacketLayer does.
THEOREM LoopIsOneStep == Spec => SendQueueSpec
<1>1. Init => AtOnce!Init
  <2> SUFFICES ASSUME Init
               PROVE  AtOnce!Init
    OBVIOUS
  <2>1. ~Looping /\ Items(queue) = <<>> /\ 1..Len(<<>>) = {}
    BY EmptyItems DEF Init, Looping
  <2>2. ItemSet(IF Looping THEN before.items ELSE Items(queue)) = {}
    BY <2>1 DEF ItemSet
  <2> QED
    BY <2>1, <2>2 DEF Init, AtOnce!Init
<1>2. IInv /\ [Next]_vars => [AtOnce!Next]_(AtOnce!vars)
  <2> SUFFICES ASSUME IInv, [Next]_vars
               PROVE  AtOnce!Next \/ UNCHANGED (AtOnce!vars)
    OBVIOUS
  <2>1. CASE Send
    <3>1. PICK frame \in 1..MaxPacketNumber, fatal \in BOOLEAN :
            LET U == ItemSet(Items(queue)) \cup {[pn |-> nextPN, frame |-> frame]}
                over == fatal /\ Cardinality(U) > MaxUnacked
            IN /\ nextPN' = nextPN + 1 /\ destroyed' = over
               /\ ItemSet(Items(queue')) = IF over THEN {} ELSE U
      BY <2>1, SendStep
    <3>2. ~Looping /\ ~Looping' /\ ~destroyed
      BY <2>1, SendStep
    <3>3. AtOnce!Send
      BY <3>1, <3>2, SameCardinality DEF AtOnce!Send
    <3> QED
      BY <3>2, <3>3 DEF AtOnce!Next
  <2>2. CASE SendAck
    <3>1. ~Looping /\ ~Looping' /\ ~destroyed /\ ~destroyed' /\ nextPN' = nextPN + 1 /\ queue' = queue
      BY <2>2, SendAckStep
    <3>2. AtOnce!UseNumber
      BY <3>1 DEF AtOnce!UseNumber
    <3> QED
      BY <3>1, <3>2 DEF AtOnce!Next
  <2>3. CASE ReceiveAck
    <3>1. /\ ~Looping /\ Looping' /\ ~destroyed
          /\ before'.items = Items(queue) /\ before'.nextPN = nextPN
      BY <2>3, ReceiveAckStep
    <3> QED
      BY <3>1, Stutters DEF SeenItems, SeenPN, SeenDestroyed
  <2>4. CASE ShiftAcked \/ Resend
    <3>1. Unseen
      BY <2>4, ShiftAckedStep, ResendStep
    <3> QED
      BY <3>1, Stutters DEF Unseen, SeenItems, SeenPN, SeenDestroyed
  <2>5. CASE LoopEnds
    <3> DEFINE U == ItemSet(before.items)
    <3>1. Looping /\ ~Looping'
      BY <2>5, LoopEndsStep
    <3>2. PICK g \in [largestAcked : 1..(before.nextPN - 1),
                      acked : SUBSET {u.pn : u \in ItemSet(before.items)}, missing : BOOLEAN] :
            LET first == IF g.missing THEN before.nextPN + 1 ELSE before.nextPN
                lost == AtOnce!Lost(U, g)
            IN IF AtOnce!Overflows(U, g)
               THEN ItemSet(Items(queue')) = {} /\ nextPN' = first + 1 /\ destroyed' = TRUE
               ELSE /\ ItemSet(Items(queue')) = {u \in U : u.pn > g.largestAcked}
                                                  \cup AtOnce!Renumbered(lost, first)
                    /\ nextPN' = first + Cardinality(lost)
                    /\ destroyed' = FALSE
      BY <2>5, LoopEndsStep
    <3>3. g \in AtOnce!AckFrames
      BY <3>1 DEF AtOnce!AckFrames
    <3>4. AtOnce!Acknowledge(g)
      BY <3>1, <3>2, SameCardinality DEF AtOnce!Acknowledge
    <3> QED
      BY <3>1, <3>3, <3>4 DEF AtOnce!Next
  <2>6. CASE Arrive \/ WriteAck
    <3>1. SenderRests
      BY <2>6, ArriveStep, WriteAckStep
    <3> QED
      BY <3>1, Stutters DEF SenderRests, Looping, SeenItems, SeenPN, SeenDestroyed
  <2>7. CASE UNCHANGED vars
    BY <2>7, Stutters DEF vars, Looping, SeenItems, SeenPN, SeenDestroyed
  <2> QED
    BY <2>1, <2>2, <2>3, <2>4, <2>5, <2>6, <2>7 DEF Next
<1> QED
  BY <1>1, <1>2, Invariance, PTL DEF Spec, SendQueueSpec, AtOnce!Spec

\* The type invariant: of the ACK frame in work too, which says nothing of
\* packets that have not arrived.
THEOREM TypeCorrectness == Spec => []TypeOK
<1>1. IInv => TypeOK
  <2> SUFFICES ASSUME IInv
               PROVE  TypeOK
    OBVIOUS
  <2>1. WellFormed(queue) /\ nextPN \in Nat /\ destroyed \in BOOLEAN
    BY DEF IInv, QueueSound, Queues
  <2>2. \A i \in 1..Length(queue) : Items(queue)[i] \in [pn : Nat, frame : Nat]
    <3>1. Items(queue) \in Seq(Unacked) /\ Len(Items(queue)) = Length(queue)
      BY QueueItems DEF IInv, QueueSound
    <3>2. \A i \in 1..Length(queue) : Items(queue)[i] \in Unacked
      BY <3>1, ItemFields
    <3>3. Unacked \subseteq [pn : Nat, frame : Nat]
      BY DEF Unacked
    <3> QED
      BY <3>2, <3>3
  <2>3. arrived \in SUBSET Nat /\ handler \in HandlerState
    BY DEF IInv, ReceiverSound, HandlerSound
  <2>4. net \subseteq [pn : Nat, needAck : BOOLEAN, least : Nat]
    BY DEF IInv, ReceiverSound, Packets
  <2>5. Looping => loop \in [type : {"ACK"}, largestAcked : Nat, acked : SUBSET Nat,
                             missing : BOOLEAN]
    BY <2>3 DEF IInv, ReceiverSound, AckFrames
  <2> QED
    BY <2>1, <2>2, <2>3, <2>4, <2>5 DEF TypeOK
<1> QED
  BY <1>1, Invariance, PTL

\* What the peer reads from an ACK frame acknowledges only packets that have
\* arrived, for every limit of ranges and length of a block.
THEOREM WireIsTrue == Spec => []WireTrue
<1>1. IInv => WireTrue
  BY DEF IInv, ReceiverSound, AckFrames, WireTrue
<1> QED
  BY <1>1, Invariance, PTL

\* Whatever has arrived, an ACK frame that writeTo() writes is valid to
\* fromBuffer() and read as it was meant, up to the lowest ranges that long
\* gaps leave no room for.
THEOREM WireIsExact == Spec => []WireExact
<1>1. IInv => WireExact
  <2> SUFFICES ASSUME IInv, HasFrame(handler), ~WriteThrows(ToFrame(handler))
               PROVE  LET frame == ToFrame(handler)
                          wire  == WriteTo(frame)
                          read  == FromBuffer(wire)
                          meant == AckFrameOf(handler)
                      IN /\ ValidRanges(wire)
                         /\ read = [meant EXCEPT !.acked = read.acked]
                         /\ \A n \in meant.acked : (\E m \in read.acked : m <= n) <=> n \in read.acked
                         /\ NoLongGap(frame.ackRanges) => read = meant
    BY DEF WireExact
  <2>1. HandlerSound(handler)
    BY DEF IInv, ReceiverSound
  <2> QED
    BY <2>1, FrameIsRead
<1> QED
  BY <1>1, Invariance, PTL
=============================================================================
