------------------------ MODULE StreamSequencerProofs ------------------------
(***************************************************************************)
(* That StreamSequencer keeps its entries in order, whatever is pushed in  *)
(* whatever order, that byteLen counts what it holds, and that what is     *)
(* read are the bytes above consumedOffset one by one.                     *)
(***************************************************************************)
EXTENDS StreamSequencer, FiniteSetTheorems, SequenceTheorems, WellFoundedInduction, TLAPS

\* Every set of numbers has a least one.
LEMMA LeastElement ==
  ASSUME NEW S \in SUBSET Nat, S # {}
  PROVE  \E least \in S : \A n \in S : least <= n
<1> DEFINE R == OpToRel(<, Nat)
<1>1. IsWellFoundedOn(R, Nat)
  BY NatLessThanWellFounded
<1>2. \E x \in S : \A y \in S : ~ (<<y, x>> \in R)
  <2> HIDE DEF R
  <2> QED
    BY <1>1, WFMin
<1>3. PICK x \in S : \A y \in S : ~ (<<y, x>> \in R)
  BY <1>2
<1>4. ASSUME NEW y \in S
      PROVE  x <= y
  <2>1. y < x => <<y, x>> \in R
    BY DEF OpToRel
  <2> HIDE DEF R
  <2> QED
    BY <1>3, <2>1
<1> QED
  BY <1>4

-----------------------------------------------------------------------------
(* push                                                                    *)

\* push() finds its place: behind every entry with an offset as small, before
\* the first with a larger one.
LEMMA PlaceFound ==
  ASSUME NEW list \in Seq(SequencerEntries), NEW offset \in Nat
  PROVE  LET p == Place(list, offset)
         IN /\ p \in 1..Len(list) + 1
            /\ \A j \in 1..p - 1 : list[j].offset <= offset
            /\ p <= Len(list) => list[p].offset > offset
<1> DEFINE S == {i \in 1..Len(list) + 1 : i <= Len(list) => list[i].offset > offset}
<1>1. Len(list) \in Nat /\ \A i \in 1..Len(list) : list[i].offset \in Nat
  <2>1. Len(list) \in Nat
    BY LenProperties
  <2>2. \A i \in 1..Len(list) : list[i] \in SequencerEntries
    BY ElementOfSeq
  <2> QED
    BY <2>1, <2>2 DEF SequencerEntries
<1>2. S \in SUBSET Nat /\ Len(list) + 1 \in S
  BY <1>1
<1>3. \E least \in S : \A n \in S : least <= n
  <2> HIDE DEF S
  <2> QED
    BY <1>2, LeastElement
<1>4. PICK least \in S : \A n \in S : least <= n
  BY <1>3
<1>5. least \in 1..Len(list) + 1 /\ (least <= Len(list) => list[least].offset > offset)
  OBVIOUS
<1>6. ASSUME NEW j \in 1..least - 1
      PROVE  list[j].offset <= offset
  <2>1. j \notin S /\ j \in 1..Len(list)
    BY <1>1, <1>4, <1>5
  <2> QED
    BY <1>1, <2>1
<1>7. \E i \in 1..Len(list) + 1 :
        /\ \A j \in 1..i - 1 : list[j].offset <= offset
        /\ i <= Len(list) => list[i].offset > offset
  BY <1>5, <1>6
<1> QED
  BY <1>7 DEF Place

LEMMA Inserted ==
  ASSUME NEW S, NEW list \in Seq(S), NEW e \in S, NEW p \in 1..Len(list) + 1
  PROVE  LET new == InsertAt(list, p, e)
         IN /\ new \in Seq(S) /\ Len(new) = Len(list) + 1
            /\ \A i \in 1..Len(list) + 1 :
                 new[i] = IF i < p THEN list[i] ELSE IF i = p THEN e ELSE list[i - 1]
<1> DEFINE front == SubSeq(list, 1, p - 1)
           mid == <<e>>
           back == SubSeq(list, p, Len(list))
           both == front \o mid
<1>1. Len(list) \in Nat /\ p \in Int /\ \A i \in 1..Len(list) : list[i] \in S
  BY LenProperties, ElementOfSeq
<1>2. /\ front \in Seq(S) /\ Len(front) = p - 1
      /\ \A i \in 1..p - 1 : front[i] = list[i]
  <2>1. 1 \in Int /\ p - 1 \in Int /\ \A i \in 1..p - 1 : list[i] \in S
    BY <1>1
  <2>2. /\ front \in Seq(S) /\ Len(front) = IF 1 <= p - 1 THEN p - 1 - 1 + 1 ELSE 0
        /\ \A i \in 1..p - 1 - 1 + 1 : front[i] = list[1 + i - 1]
    BY <2>1, SubSeqProperties
  <2> QED
    BY <1>1, <2>2
<1>3. /\ back \in Seq(S) /\ Len(back) = Len(list) - p + 1
      /\ \A i \in 1..Len(list) - p + 1 : back[i] = list[p + i - 1]
  <2>1. Len(list) \in Int /\ \A i \in p..Len(list) : list[i] \in S
    BY <1>1
  <2>2. /\ back \in Seq(S) /\ Len(back) = IF p <= Len(list) THEN Len(list) - p + 1 ELSE 0
        /\ \A i \in 1..Len(list) - p + 1 : back[i] = list[p + i - 1]
    BY <1>1, <2>1, SubSeqProperties
  <2> QED
    BY <1>1, <2>2
<1>4. mid \in Seq(S) /\ Len(mid) = 1 /\ mid[1] = e
  OBVIOUS
<1>5. /\ both \in Seq(S) /\ Len(both) = p
      /\ \A i \in 1..p : both[i] = IF i < p THEN list[i] ELSE e
  <2> HIDE DEF front, mid
  <2>1. /\ both \in Seq(S) /\ Len(both) = Len(front) + Len(mid)
        /\ \A i \in 1..Len(front) + Len(mid) :
             both[i] = IF i <= Len(front) THEN front[i] ELSE mid[i - Len(front)]
    BY <1>2, <1>4, ConcatProperties
  <2> QED
    BY <1>1, <1>2, <1>4, <2>1
<1>6. InsertAt(list, p, e) = both \o back
  BY DEF InsertAt
<1> HIDE DEF both, back
<1>7. /\ both \o back \in Seq(S) /\ Len(both \o back) = Len(both) + Len(back)
      /\ \A i \in 1..Len(both) + Len(back) :
           (both \o back)[i] = IF i <= Len(both) THEN both[i] ELSE back[i - Len(both)]
  BY <1>3, <1>5, ConcatProperties
<1>8. Len(both) + Len(back) = Len(list) + 1
  BY <1>1, <1>3, <1>5
<1>9. ASSUME NEW i \in 1..Len(list) + 1
      PROVE  (both \o back)[i] = IF i < p THEN list[i] ELSE IF i = p THEN e ELSE list[i - 1]
  <2>1. CASE i <= p
    BY <1>1, <1>5, <1>7, <1>8, <2>1
  <2>2. CASE i > p
    <3>1. i - p \in 1..Len(list) - p + 1 /\ i - p >= 1
      BY <1>1, <2>2
    <3>2. p + (i - p) - 1 = i - 1
      BY <1>1
    <3> QED
      BY <1>1, <1>3, <1>5, <1>7, <1>8, <2>2, <3>1, <3>2
  <2>3. i <= p \/ i > p
    BY <1>1
  <2> QED
    BY <2>1, <2>2, <2>3
<1> QED
  BY <1>6, <1>7, <1>8, <1>9

\* The entries and fields of a sequencer have their types.
LEMMA SequencerFields ==
  ASSUME NEW q \in Sequencers
  PROVE  /\ q.list \in Seq(SequencerEntries) /\ Len(q.list) \in Nat
         /\ DOMAIN q.list = 1..Len(q.list)
         /\ q.byteLen \in Nat /\ q.consumed \in Nat /\ q.final \in Nat \cup {-1}
         /\ \A i \in 1..Len(q.list) :
              /\ q.list[i] \in SequencerEntries
              /\ q.list[i].offset \in Nat /\ q.list[i].first \in Nat /\ q.list[i].len \in Nat
              /\ End(q.list[i]) \in Nat
              /\ q.list[i].offset <= End(q.list[i])
              /\ q.list[i].len > 0 => q.list[i].offset < End(q.list[i])
<1>1. q.list \in Seq(SequencerEntries) /\ q.byteLen \in Nat /\ q.consumed \in Nat
      /\ q.final \in Nat \cup {-1}
  BY DEF Sequencers
<1>2. Len(q.list) \in Nat /\ DOMAIN q.list = 1..Len(q.list)
  BY <1>1, LenProperties
<1>3. ASSUME NEW i \in 1..Len(q.list)
      PROVE  /\ q.list[i] \in SequencerEntries
             /\ q.list[i].offset \in Nat /\ q.list[i].first \in Nat /\ q.list[i].len \in Nat
             /\ End(q.list[i]) \in Nat
             /\ q.list[i].offset <= End(q.list[i])
             /\ q.list[i].len > 0 => q.list[i].offset < End(q.list[i])
  <2>1. q.list[i] \in SequencerEntries
    BY <1>1, ElementOfSeq
  <2> QED
    BY <2>1 DEF SequencerEntries, End
<1> QED
  BY <1>1, <1>2, <1>3

\* The spans that a sequencer holds are finite in number and length.
LEMMA HeldFinite ==
  ASSUME NEW q \in Sequencers,
         \A i, j \in DOMAIN q.list : i < j => End(q.list[i]) <= q.list[j].offset
  PROVE  IsFiniteSet(Held(q)) /\ Held(q) \in SUBSET Nat
<1> DEFINE n == IF Len(q.list) = 0 THEN 0 ELSE End(q.list[Len(q.list)])
<1>1. n \in Nat
  BY SequencerFields
<1>2. ASSUME NEW i \in DOMAIN q.list, NEW b \in Span(q.list[i])
      PROVE  b \in Nat /\ b <= n
  <2>1. i \in 1..Len(q.list) /\ Len(q.list) \in 1..Len(q.list) /\ i <= Len(q.list)
    BY SequencerFields
  <2>2. /\ q.list[i].offset \in Nat /\ End(q.list[i]) \in Nat
        /\ q.list[Len(q.list)].offset \in Nat /\ End(q.list[Len(q.list)]) \in Nat
        /\ q.list[Len(q.list)].offset <= End(q.list[Len(q.list)])
    BY <2>1, SequencerFields
  <2>3. i < Len(q.list) => End(q.list[i]) <= q.list[Len(q.list)].offset
    BY <2>1, SequencerFields
  <2>4. End(q.list[i]) <= n
    BY <2>1, <2>2, <2>3, SequencerFields
  <2> QED
    BY <1>1, <2>2, <2>4 DEF Span
<1>3. Held(q) \in SUBSET Nat /\ \A b \in Held(q) : b <= n
  BY <1>2 DEF Held
<1> HIDE DEF n
<1> QED
  BY <1>1, <1>3, FS_BoundedSetOfNaturals

\* push(): a piece that overlaps nothing the sequencer holds and lies above
\* what was read leaves it sound, whatever its place.
THEOREM PushSound ==
  ASSUME NEW q \in Sequencers, Sound(q),
         NEW e \in SequencerEntries, e.len > 0, e.first = e.offset + 1, e.offset >= q.consumed,
         \A i \in DOMAIN q.list : End(q.list[i]) <= e.offset \/ End(e) <= q.list[i].offset
  PROVE  LET r == Push(q, e)
         IN /\ r \in Sequencers /\ Sound(r)
            /\ r.consumed = q.consumed /\ r.final = q.final
            /\ \A i \in DOMAIN r.list : r.list[i] = e \/ \E j \in DOMAIN q.list : r.list[i] = q.list[j]
<1> DEFINE p == Place(q.list, e.offset)
           r == Push(q, e)
<1>1. /\ e.offset \in Nat /\ e.len \in Nat /\ e.len > 0 /\ End(e) = e.offset + e.len /\ End(e) \in Nat
      /\ e.offset < End(e)
  BY DEF SequencerEntries, End
<1>2. /\ p \in 1..Len(q.list) + 1
      /\ \A j \in 1..p - 1 : q.list[j].offset <= e.offset
      /\ p <= Len(q.list) => q.list[p].offset > e.offset
  BY <1>1, SequencerFields, PlaceFound
<1>3. /\ r.list = InsertAt(q.list, p, e) /\ r.byteLen = q.byteLen + e.len
      /\ r.consumed = q.consumed /\ r.final = q.final
  BY DEF Push, Sequencers
<1> HIDE DEF p, r
<1>4. /\ r.list \in Seq(SequencerEntries) /\ Len(r.list) = Len(q.list) + 1
      /\ \A i \in 1..Len(q.list) + 1 :
           r.list[i] = IF i < p THEN q.list[i] ELSE IF i = p THEN e ELSE q.list[i - 1]
  <2>1. q.list \in Seq(SequencerEntries)
    BY SequencerFields
  <2>2. e \in SequencerEntries /\ p \in 1..Len(q.list) + 1
    BY <1>2
  <2>3. LET new == InsertAt(q.list, p, e)
         IN /\ new \in Seq(SequencerEntries) /\ Len(new) = Len(q.list) + 1
            /\ \A i \in 1..Len(q.list) + 1 :
                 new[i] = IF i < p THEN q.list[i] ELSE IF i = p THEN e ELSE q.list[i - 1]
    BY ONLY <2>1, <2>2, Inserted, SMTT(30)
  <2> QED
    BY <1>3, <2>3
<1>5. r \in Sequencers
  <2>1. q.byteLen + e.len \in Nat
    BY <1>1, SequencerFields
  <2> QED
    BY <1>3, <1>4, <2>1 DEF Push, Sequencers, r
<1>7. Len(q.list) \in Nat /\ DOMAIN q.list = 1..Len(q.list) /\ DOMAIN r.list = 1..Len(q.list) + 1
  BY <1>4, <1>5, SequencerFields
<1>8. ASSUME NEW i \in DOMAIN r.list
      PROVE  r.list[i] = e \/ \E j \in DOMAIN q.list : r.list[i] = q.list[j]
  <2>1. i < p => i \in DOMAIN q.list
    BY <1>2, <1>7
  <2>2. i > p => i - 1 \in DOMAIN q.list
    BY <1>2, <1>7
  <2>3. i < p \/ i = p \/ i > p
    BY <1>2, <1>7
  <2> QED
    BY <1>2, <1>4, <1>7, <2>1, <2>2, <2>3
<1>9. ASSUME NEW i \in DOMAIN r.list
      PROVE  r.list[i].len > 0 /\ r.list[i].first = r.list[i].offset + 1 /\ r.list[i].offset >= r.consumed
  BY <1>3, <1>8 DEF Sound
<1>10. ASSUME NEW i \in DOMAIN q.list
       PROVE  /\ i < p => End(q.list[i]) <= e.offset
              /\ i >= p => End(e) <= q.list[i].offset
  <2>1. /\ q.list[i].offset \in Nat /\ End(q.list[i]) \in Nat /\ q.list[i].offset < End(q.list[i])
    BY SequencerFields DEF Sound
  <2>2. ASSUME i < p
        PROVE  End(q.list[i]) <= e.offset
    <3>1. q.list[i].offset <= e.offset
      BY <1>2, <1>7, <2>2
    <3> QED
      BY <1>1, <2>1, <3>1
  <2>3. ASSUME i >= p
        PROVE  End(e) <= q.list[i].offset
    <3>1. p \in DOMAIN q.list /\ q.list[p].offset > e.offset
      BY <1>2, <1>7, <2>3
    <3>2. q.list[p].offset \in Nat /\ End(q.list[p]) \in Nat /\ q.list[p].offset < End(q.list[p])
      BY <3>1, SequencerFields DEF Sound
    <3>3. p < i => End(q.list[p]) <= q.list[i].offset
      BY <3>1 DEF Sound
    <3>4. q.list[i].offset > e.offset
      BY <1>1, <1>2, <1>7, <2>1, <2>3, <3>1, <3>2, <3>3
    <3> QED
      BY <1>1, <2>1, <3>4
  <2> QED
    BY <2>2, <2>3
<1>11. ASSUME NEW i \in DOMAIN r.list, NEW j \in DOMAIN r.list, i < j
       PROVE  End(r.list[i]) <= r.list[j].offset
  <2>0. i \in 1..Len(q.list) + 1 /\ j \in 1..Len(q.list) + 1 /\ p \in 1..Len(q.list) + 1
    BY <1>2, <1>7
  <2>1. CASE j < p
    <3>1. i \in DOMAIN q.list /\ j \in DOMAIN q.list /\ i < p
      BY <1>7, <1>11, <2>0, <2>1
    <3> QED
      BY <1>4, <1>11, <2>0, <2>1, <3>1 DEF Sound
  <2>2. CASE j = p
    <3>1. i \in DOMAIN q.list /\ i < p
      BY <1>7, <1>11, <2>0, <2>2
    <3> QED
      BY <1>4, <1>10, <2>0, <2>2, <3>1
  <2>3. CASE j > p
    <3>1. j - 1 \in DOMAIN q.list /\ ~(j < p) /\ j # p /\ j - 1 >= p
      BY <1>7, <2>0, <2>3
    <3>2. r.list[j] = q.list[j - 1]
      BY <1>4, <2>0, <3>1
    <3>3. CASE i < p
      <4>1. i \in DOMAIN q.list /\ i < j - 1
        BY <1>7, <2>0, <2>3, <3>3
      <4> QED
        BY <1>4, <2>0, <3>1, <3>2, <3>3, <4>1 DEF Sound
    <3>4. CASE i = p
      <4>1. r.list[i] = e
        BY <1>4, <2>0, <3>4
      <4> QED
        BY <1>10, <3>1, <3>2, <4>1
    <3>5. CASE i > p
      <4>1. i - 1 \in DOMAIN q.list /\ ~(i < p) /\ i # p /\ i - 1 < j - 1
        BY <1>7, <1>11, <2>0, <3>5
      <4> QED
        BY <1>4, <2>0, <3>1, <3>2, <4>1 DEF Sound
    <3>6. i < p \/ i = p \/ i > p
      BY <2>0
    <3> QED
      BY <3>3, <3>4, <3>5, <3>6
  <2>4. j < p \/ j = p \/ j > p
    BY <2>0
  <2> QED
    BY <2>1, <2>2, <2>3, <2>4
<1>12. Held(r) = Held(q) \cup Span(e)
  <2>1. ASSUME NEW i \in DOMAIN q.list
        PROVE  \E j \in DOMAIN r.list : r.list[j] = q.list[i]
    <3>0. i \in 1..Len(q.list) + 1 /\ i + 1 \in 1..Len(q.list) + 1 /\ i \in Nat /\ p \in Nat
      BY <1>2, <1>7
    <3>1. CASE i < p
      BY <1>4, <1>7, <3>0, <3>1
    <3>2. CASE ~(i < p)
      <4>1. ~(i + 1 < p) /\ i + 1 # p /\ (i + 1) - 1 = i
        BY <3>0, <3>2
      <4>2. r.list[i + 1] = q.list[i]
        BY <1>4, <3>0, <4>1
      <4> QED
        BY <1>7, <3>0, <4>2
    <3> QED
      BY <3>1, <3>2
  <2>2. p \in DOMAIN r.list /\ r.list[p] = e
    BY <1>2, <1>4, <1>7
  <2> QED
    BY <1>8, <2>1, <2>2 DEF Held
<1>13. r.byteLen = Cardinality(Held(r))
  <2>1. IsFiniteSet(Held(q))
    BY HeldFinite DEF Sound
  <2>2. IsFiniteSet(Span(e)) /\ Cardinality(Span(e)) = e.len
    <3>1. IsFiniteSet(Span(e)) /\ Cardinality(Span(e)) = IF e.offset > End(e) - 1 THEN 0 ELSE End(e) - 1 - e.offset + 1
      <4>1. e.offset \in Int /\ End(e) - 1 \in Int
        BY <1>1
      <4> QED
        BY <4>1, FS_Interval DEF Span
    <3> QED
      BY <1>1, <3>1
  <2>3. Held(q) \cap Span(e) = {}
    <3>1. ASSUME NEW i \in DOMAIN q.list, NEW b \in Span(q.list[i]), b \in Span(e)
          PROVE  FALSE
      <4>1. q.list[i].offset \in Nat /\ End(q.list[i]) \in Nat
        BY SequencerFields
      <4>2. b >= q.list[i].offset /\ b < End(q.list[i]) /\ b >= e.offset /\ b < End(e) /\ b \in Int
        BY <1>1, <3>1, <4>1 DEF Span
      <4>3. End(q.list[i]) <= e.offset \/ End(e) <= q.list[i].offset
        OBVIOUS
      <4> QED
        BY <1>1, <4>1, <4>2, <4>3
    <3> QED
      BY <3>1 DEF Held
  <2>4. Cardinality(Held(r)) = Cardinality(Held(q)) + Cardinality(Span(e)) - Cardinality(Held(q) \cap Span(e))
    BY <1>12, <2>1, <2>2, FS_Union
  <2>5. Cardinality(Held(q) \cap Span(e)) = 0
    BY <2>3, FS_EmptySet
  <2>6. q.byteLen = Cardinality(Held(q)) /\ q.byteLen \in Nat
    BY SequencerFields DEF Sound
  <2> QED
    BY <1>1, <1>3, <2>2, <2>4, <2>5, <2>6
<1>14. Sound(r)
  BY <1>9, <1>11, <1>13 DEF Sound
<1> QED
  BY <1>3, <1>5, <1>8, <1>14 DEF r

-----------------------------------------------------------------------------
(* read                                                                    *)

\* k entries without a gap hold every byte from consumedOffset to their end.
LEMMA ReadableCovers ==
  ASSUME NEW q \in Sequencers, Sound(q), NEW k \in Nat, k > 0, Readable(q, k),
         NEW o \in q.consumed..End(q.list[k]) - 1
  PROVE  \E i \in 1..k : o \in Span(q.list[i])
<1> DEFINE S == {i \in 1..k : o < End(q.list[i])}
<1>1. k \in 1..Len(q.list) /\ Len(q.list) \in Nat /\ q.consumed \in Nat
  BY SequencerFields DEF Readable
<1>2. \A i \in 1..k : /\ q.list[i].offset \in Nat /\ End(q.list[i]) \in Nat
                      /\ q.list[i].offset = IF i = 1 THEN q.consumed ELSE End(q.list[i - 1])
  <2>1. \A i \in 1..k : i \in 1..Len(q.list)
    BY <1>1
  <2>2. \A i \in 1..k : q.list[i].offset \in Nat /\ End(q.list[i]) \in Nat
    BY <2>1, SequencerFields
  <2>3. \A i \in 1..k : q.list[i].offset = IF i = 1 THEN q.consumed ELSE End(q.list[i - 1])
    BY DEF Readable
  <2> QED
    BY <2>2, <2>3
<1>3. o \in Int /\ q.consumed <= o /\ o < End(q.list[k])
  BY <1>1, <1>2
<1>4. S \in SUBSET Nat /\ k \in S
  BY <1>1, <1>3
<1>5. \E least \in S : \A n \in S : least <= n
  <2> HIDE DEF S
  <2> QED
    BY <1>4, LeastElement
<1>6. PICK i \in S : \A n \in S : i <= n
  BY <1>5
<1>7. i \in 1..k /\ o < End(q.list[i])
  OBVIOUS
<1>8. q.list[i].offset <= o
  <2>1. CASE i = 1
    BY <1>2, <1>3, <1>7, <2>1
  <2>2. CASE i # 1
    <3>1. i - 1 \in 1..k /\ ~(i <= i - 1)
      BY <1>7, <2>2
    <3>2. i - 1 \notin S
      BY <1>6, <3>1
    <3>3. ~(o < End(q.list[i - 1]))
      BY <3>1, <3>2
    <3> QED
      BY <1>2, <1>3, <1>7, <2>2, <3>1, <3>3
  <2> QED
    BY <2>1, <2>2
<1> QED
  BY <1>2, <1>3, <1>7, <1>8 DEF Span

\* The end of k entries lies above all of them and not above what follows.
LEMMA ReadableSize ==
  ASSUME NEW q \in Sequencers, Sound(q), NEW k \in Nat, Readable(q, k)
  PROVE  /\ Size(q, k) \in Nat /\ k \in 0..Len(q.list)
         /\ k > 0 => Size(q, k) > 0 /\ q.consumed + Size(q, k) = End(q.list[k])
         /\ \A i \in 1..k : End(q.list[i]) <= q.consumed + Size(q, k)
         /\ \A i \in k + 1..Len(q.list) : q.list[i].offset >= q.consumed + Size(q, k)
<1>1. /\ Len(q.list) \in Nat /\ DOMAIN q.list = 1..Len(q.list) /\ q.consumed \in Nat
      /\ k \in 0..Len(q.list)
  BY SequencerFields DEF Readable
<1>2. \A i \in DOMAIN q.list :
        /\ q.list[i].offset \in Nat /\ End(q.list[i]) \in Nat
        /\ q.list[i].offset < End(q.list[i]) /\ q.list[i].offset >= q.consumed
  BY SequencerFields DEF Sound
<1>3. CASE k = 0
  <2>1. Size(q, k) = 0
    BY <1>3 DEF Size
  <2> QED
    BY <1>1, <1>2, <1>3, <2>1
<1>4. CASE k > 0
  <2>1. k \in DOMAIN q.list /\ Size(q, k) = End(q.list[k]) - q.consumed
    BY <1>1, <1>4 DEF Size
  <2>2. Size(q, k) \in Nat /\ Size(q, k) > 0 /\ q.consumed + Size(q, k) = End(q.list[k])
    BY <1>1, <1>2, <2>1
  <2>3. ASSUME NEW i \in 1..k
        PROVE  End(q.list[i]) <= End(q.list[k])
    <3>1. i \in DOMAIN q.list
      BY <1>1
    <3>2. i < k => End(q.list[i]) <= q.list[k].offset
      BY <2>1, <3>1 DEF Sound
    <3>3. i < k \/ i = k
      BY <1>1
    <3> QED
      BY <1>2, <2>1, <3>1, <3>2, <3>3
  <2>4. ASSUME NEW i \in k + 1..Len(q.list)
        PROVE  q.list[i].offset >= End(q.list[k])
    <3>1. i \in DOMAIN q.list /\ k < i
      BY <1>1, <1>4
    <3>2. End(q.list[k]) <= q.list[i].offset
      BY <2>1, <3>1 DEF Sound
    <3> QED
      BY <1>2, <2>1, <3>1, <3>2
  <2> QED
    BY <1>1, <2>2, <2>3, <2>4
<1> QED
  BY <1>1, <1>3, <1>4

\* read(): the data are the bytes above consumedOffset, one after the other.
THEOREM ReadData ==
  ASSUME NEW q \in Sequencers, Sound(q), NEW k \in Nat, Readable(q, k)
  PROVE  DataOf(q, k) = [i \in 1..Size(q, k) |-> q.consumed + i]
<1> DEFINE Byte(o) == LET i == CHOOSE i \in 1..k : o \in Span(q.list[i])
                      IN q.list[i].first + o - q.list[i].offset
<1>1. Size(q, k) \in Nat /\ q.consumed \in Nat /\ k \in 0..Len(q.list)
  BY ReadableSize, SequencerFields
<1>2. ASSUME NEW n \in 1..Size(q, k)
      PROVE  Byte(q.consumed + n - 1) = q.consumed + n
  <2> DEFINE o == q.consumed + n - 1
  <2>1. k > 0
    BY <1>1 DEF Size
  <2>2. End(q.list[k]) = q.consumed + Size(q, k)
    BY <2>1, ReadableSize
  <2>3. o \in q.consumed..End(q.list[k]) - 1
    BY <1>1, <2>2
  <2> HIDE DEF o
  <2>4. \E i \in 1..k : o \in Span(q.list[i])
    BY <2>1, <2>3, ReadableCovers
  <2>5. PICK i : i \in 1..k /\ Byte(o) = q.list[i].first + o - q.list[i].offset
    BY <2>4
  <2>6. i \in DOMAIN q.list /\ q.list[i].offset \in Nat /\ q.list[i].first = q.list[i].offset + 1
    BY <1>1, <2>5, SequencerFields DEF Sound
  <2>7. Byte(o) = o + 1
    <3> HIDE DEF Byte
    <3>1. o \in Int
      BY <1>1 DEF o
    <3> QED
      BY <2>5, <2>6, <3>1
  <2> HIDE DEF Byte
  <2> QED
    BY <1>1, <2>7 DEF o
<1> HIDE DEF Byte
<1>3. DataOf(q, k) = [i \in 1..Size(q, k) |-> Byte(q.consumed + i - 1)]
  BY DEF DataOf, Byte
<1> QED
  BY <1>2, <1>3

\* read() leaves the sequencer sound, with the entries that it has not read.
THEOREM ReadSound ==
  ASSUME NEW q \in Sequencers, Sound(q), NEW k \in Nat, Readable(q, k)
  PROVE  LET r == AfterRead(q, k)
         IN /\ r \in Sequencers /\ Sound(r)
            /\ r.consumed = q.consumed + Size(q, k) /\ r.final = q.final
            /\ \A i \in DOMAIN r.list : i + k \in DOMAIN q.list /\ r.list[i] = q.list[i + k]
<1> DEFINE r == AfterRead(q, k)
           rest == SubSeq(q.list, k + 1, Len(q.list))
<1>1. /\ Len(q.list) \in Nat /\ DOMAIN q.list = 1..Len(q.list) /\ q.consumed \in Nat
      /\ q.byteLen \in Nat /\ Size(q, k) \in Nat /\ k \in 0..Len(q.list)
  BY ReadableSize, SequencerFields
<1>2. /\ r.list = rest /\ r.byteLen = q.byteLen - Size(q, k)
      /\ r.consumed = q.consumed + Size(q, k) /\ r.final = q.final
  BY DEF AfterRead, Sequencers
<1>3. /\ rest \in Seq(SequencerEntries) /\ Len(rest) = Len(q.list) - k
      /\ \A i \in 1..Len(q.list) - k : rest[i] = q.list[i + k]
  <2>1. k + 1 \in Int /\ Len(q.list) \in Int /\ \A i \in k + 1..Len(q.list) : q.list[i] \in SequencerEntries
    BY <1>1, SequencerFields
  <2>2. /\ rest \in Seq(SequencerEntries)
        /\ Len(rest) = IF k + 1 <= Len(q.list) THEN Len(q.list) - (k + 1) + 1 ELSE 0
        /\ \A i \in 1..Len(q.list) - (k + 1) + 1 : rest[i] = q.list[k + 1 + i - 1]
    BY <2>1, SubSeqProperties
  <2> HIDE DEF rest
  <2>3. Len(q.list) - (k + 1) + 1 = Len(q.list) - k /\ \A i \in Int : k + 1 + i - 1 = i + k
    BY <1>1
  <2> QED
    <3>1. Len(rest) = Len(q.list) - k
      BY <1>1, <2>2
    <3>2. ASSUME NEW i \in 1..Len(q.list) - k
          PROVE  rest[i] = q.list[i + k]
      BY <1>1, <2>2, <2>3
    <3> QED
      BY <2>2, <3>1, <3>2
<1> HIDE DEF r, rest
<1>4. DOMAIN r.list = 1..Len(q.list) - k
  BY <1>1, <1>2, <1>3, LenProperties
<1>5. ASSUME NEW i \in DOMAIN r.list
      PROVE  i + k \in DOMAIN q.list /\ i + k \in k + 1..Len(q.list) /\ r.list[i] = q.list[i + k]
  BY <1>1, <1>2, <1>3, <1>4
<1>6. ASSUME NEW i \in DOMAIN r.list
      PROVE  r.list[i].len > 0 /\ r.list[i].first = r.list[i].offset + 1 /\ r.list[i].offset >= r.consumed
  <2>1. q.list[i + k].offset >= q.consumed + Size(q, k)
    BY <1>5, ReadableSize
  <2> QED
    BY <1>2, <1>5, <2>1 DEF Sound
<1>7. ASSUME NEW i \in DOMAIN r.list, NEW j \in DOMAIN r.list, i < j
      PROVE  End(r.list[i]) <= r.list[j].offset
  <2>1. i + k < j + k
    BY <1>1, <1>4, <1>7
  <2> QED
    BY <1>5, <2>1 DEF Sound
<1>8. r.byteLen = Cardinality(Held(r)) /\ r.byteLen \in Nat
  <2> DEFINE top == q.consumed + Size(q, k)
             run == q.consumed..top - 1
  <2>0. top \in Nat
    BY <1>1
  <2>1. Held(q) = Held(r) \cup run
    <3>1. ASSUME NEW b \in Held(r)
          PROVE  b \in Held(q)
      <4>1. PICK i \in DOMAIN r.list : b \in Span(r.list[i])
        BY DEF Held
      <4> QED
        BY <1>5, <4>1 DEF Held
    <3>2. ASSUME NEW b \in run
          PROVE  b \in Held(q)
      <4>1. k > 0
        BY <1>1 DEF Size
      <4>2. b \in q.consumed..End(q.list[k]) - 1
        BY <4>1, ReadableSize
      <4>3. PICK i \in 1..k : b \in Span(q.list[i])
        BY <4>1, <4>2, ReadableCovers
      <4>4. i \in DOMAIN q.list
        BY <1>1
      <4> QED
        BY <4>3, <4>4 DEF Held
    <3>3. ASSUME NEW b \in Held(q)
          PROVE  b \in Held(r) \/ b \in run
      <4>1. PICK i \in DOMAIN q.list : b \in Span(q.list[i])
        BY DEF Held
      <4>2. /\ q.list[i].offset \in Nat /\ End(q.list[i]) \in Nat /\ q.list[i].offset >= q.consumed
        BY <1>1, SequencerFields DEF Sound
      <4>3. b \in Int /\ b >= q.list[i].offset /\ b < End(q.list[i])
        BY <4>1, <4>2 DEF Span
      <4>4. CASE i <= k
        <5>1. i \in 1..k
          BY <1>1, <4>4
        <5>2. End(q.list[i]) <= top
          BY <5>1, ReadableSize
        <5> HIDE DEF top
        <5> QED
          BY <1>1, <2>0, <4>2, <4>3, <5>2
      <4>5. CASE ~(i <= k)
        <5>1. i - k \in DOMAIN r.list /\ (i - k) + k = i
          BY <1>1, <1>4, <4>5
        <5>2. r.list[i - k] = q.list[i]
          BY <1>5, <5>1
        <5> QED
          BY <4>1, <5>1, <5>2 DEF Held
      <4> QED
        BY <4>4, <4>5
    <3> HIDE DEF run
    <3> QED
      BY <3>1, <3>2, <3>3
  <2>2. Held(r) \cap run = {}
    <3>1. ASSUME NEW i \in DOMAIN r.list, NEW b \in Span(r.list[i]), b \in run
          PROVE  FALSE
      <4>1. r.list[i].offset >= top /\ r.list[i].offset \in Nat /\ End(r.list[i]) \in Nat
        BY <1>2, <1>5, <1>6, SequencerFields
      <4>2. b >= r.list[i].offset /\ b \in Int
        BY <3>1, <4>1 DEF Span
      <4> HIDE DEF top
      <4>3. b < top
        BY <1>1, <2>0, <3>1
      <4> QED
        BY <2>0, <4>1, <4>2, <4>3
    <3> QED
      BY <3>1 DEF Held
  <2>3. IsFiniteSet(run) /\ Cardinality(run) = Size(q, k)
    <3>1. q.consumed \in Int /\ top - 1 \in Int
      BY <1>1
    <3>2. IsFiniteSet(run) /\ Cardinality(run) = IF q.consumed > top - 1 THEN 0 ELSE (top - 1) - q.consumed + 1
      BY <3>1, FS_Interval
    <3> QED
      BY <1>1, <3>2
  <2>4. IsFiniteSet(Held(q)) /\ q.byteLen = Cardinality(Held(q))
    BY HeldFinite DEF Sound
  <2>5. IsFiniteSet(Held(r)) /\ Cardinality(Held(r)) \in Nat
    <3>1. Held(r) \in SUBSET Held(q)
      BY <2>1
    <3>2. IsFiniteSet(Held(r))
      BY <2>4, <3>1, FS_Subset
    <3> QED
      BY <3>2, FS_CardinalityType
  <2> HIDE DEF run
  <2>6. Cardinality(Held(q)) = Cardinality(Held(r)) + Cardinality(run) - Cardinality(Held(r) \cap run)
    BY <2>1, <2>3, <2>5, FS_Union
  <2>7. Cardinality(Held(r) \cap run) = 0
    BY <2>2, FS_EmptySet
  <2> QED
    BY <1>1, <1>2, <2>3, <2>4, <2>5, <2>6, <2>7
<1>9. r \in Sequencers
  <2>1. rest \in Seq(SequencerEntries) /\ q.byteLen - Size(q, k) \in Nat /\ q.consumed + Size(q, k) \in Nat
    BY <1>1, <1>2, <1>3, <1>8
  <2> QED
    BY <2>1 DEF r, rest, AfterRead, Sequencers
<1>10. Sound(r)
  BY <1>6, <1>7, <1>8 DEF Sound
<1> QED
  BY <1>2, <1>5, <1>9, <1>10 DEF r

=============================================================================
