--------------------------- MODULE PacketQueueProofs ---------------------------
(***************************************************************************)
(* That the two arrays of Queue are one queue: what its operations do to   *)
(* Items, for queues of every length over any set S of items.              *)
(***************************************************************************)
EXTENDS PacketQueue, SequenceTheorems, TLAPS

QueueRecords(S) == [tail : Seq(S), head : Seq(S), offset : Nat, hLength : Nat]

LEMMA QueueFields ==
  ASSUME NEW S, NEW q \in Queues(S)
  PROVE  /\ q \in QueueRecords(S)
         /\ q.tail \in Seq(S) /\ Len(q.tail) \in Nat
         /\ q.head \in Seq(S) /\ Len(q.head) \in Nat
         /\ q.offset \in Nat /\ q.hLength = Len(q.head) /\ q.offset <= q.hLength
  BY LenProperties DEF Queues, QueueRecords, WellFormed

\* The part of head that has not been taken yet.
LEMMA HeadRest ==
  ASSUME NEW S, NEW head \in Seq(S), NEW offset \in Nat, offset <= Len(head)
  PROVE  LET rest == SubSeq(head, offset + 1, Len(head))
         IN rest \in Seq(S) /\ Len(rest) = Len(head) - offset
<1>1. Len(head) \in Nat
  BY LenProperties
<1>2. \A i \in (offset + 1)..Len(head) : head[i] \in S
  BY <1>1, ElementOfSeq
<1> QED
  BY <1>1, <1>2, SubSeqProperties

LEMMA TailOfConcat ==
  ASSUME NEW S, NEW s \in Seq(S), NEW t \in Seq(S), s # <<>>
  PROVE  Head(s \o t) = Head(s) /\ Tail(s \o t) = Tail(s) \o t
<1>1. Len(s) \in Nat \ {0} /\ Len(t) \in Nat
  BY EmptySeq, LenProperties
<1>2. /\ s \o t \in Seq(S) /\ Len(s \o t) = Len(s) + Len(t)
      /\ \A i \in 1..(Len(s) + Len(t)) :
           (s \o t)[i] = IF i <= Len(s) THEN s[i] ELSE t[i - Len(s)]
  BY ConcatProperties
<1>3. s \o t # <<>>
  BY <1>1, <1>2, EmptySeq
<1>4. Head(s \o t) = Head(s)
  <2>1. (s \o t)[1] = s[1]
    BY <1>1, <1>2
  <2> QED
    BY <1>2, <1>3, <2>1
<1>5. /\ Tail(s) \in Seq(S) /\ Len(Tail(s)) = Len(s) - 1
      /\ \A i \in 1..Len(Tail(s)) : Tail(s)[i] = s[i + 1]
  BY HeadTailProperties
<1>6. /\ Tail(s \o t) \in Seq(S) /\ Len(Tail(s \o t)) = Len(s) + Len(t) - 1
      /\ \A i \in 1..Len(Tail(s \o t)) : Tail(s \o t)[i] = (s \o t)[i + 1]
  BY <1>2, <1>3, HeadTailProperties
<1>7. /\ Tail(s) \o t \in Seq(S) /\ Len(Tail(s) \o t) = Len(s) - 1 + Len(t)
      /\ \A i \in 1..(Len(s) - 1 + Len(t)) :
           (Tail(s) \o t)[i] = IF i <= Len(s) - 1 THEN Tail(s)[i] ELSE t[i - (Len(s) - 1)]
  BY <1>5, ConcatProperties
<1>8. ASSUME NEW i \in 1..Len(Tail(s \o t))
      PROVE  Tail(s \o t)[i] = (Tail(s) \o t)[i]
  <2>1. CASE i <= Len(s) - 1
    BY <1>1, <1>2, <1>5, <1>6, <1>7, <2>1
  <2>2. CASE ~(i <= Len(s) - 1)
    BY <1>1, <1>2, <1>6, <1>7, <2>2
  <2> QED
    BY <2>1, <2>2
<1>9. Len(Tail(s \o t)) = Len(Tail(s) \o t)
  BY <1>1, <1>6, <1>7
<1> QED
  BY <1>4, <1>6, <1>7, <1>8, <1>9, SeqEqual

LEMMA ConcatOfAppend ==
  ASSUME NEW S, NEW s \in Seq(S), NEW t \in Seq(S), NEW e \in S
  PROVE  s \o Append(t, e) = Append(s \o t, e)
<1> DEFINE u == <<e>>
<1>1. u \in Seq(S)
  OBVIOUS
<1>2. Append(t, e) = t \o u
  BY AppendIsConcat
<1>3. s \o t \in Seq(S)
  BY ConcatProperties
<1>4. Append(s \o t, e) = (s \o t) \o u
  BY <1>3, AppendIsConcat
<1> HIDE DEF u
<1>5. (s \o t) \o u = s \o (t \o u)
  BY <1>1, ConcatAssociative
<1> QED
  BY <1>2, <1>4, <1>5

\* length counts the items of both arrays.
THEOREM LengthCounts ==
  ASSUME NEW S, NEW q \in Queues(S)
  PROVE  Items(q) \in Seq(S) /\ Len(Items(q)) = Length(q)
<1> DEFINE rest == SubSeq(q.head, q.offset + 1, q.hLength)
<1>1. rest \in Seq(S) /\ Len(rest) = q.hLength - q.offset
  BY QueueFields, HeadRest
<1>2. rest \o q.tail \in Seq(S) /\ Len(rest \o q.tail) = Len(rest) + Len(q.tail)
  BY <1>1, QueueFields, ConcatProperties
<1> QED
  BY <1>1, <1>2, QueueFields DEF Items, Length

\* push adds an item behind all others.
THEOREM PushAppends ==
  ASSUME NEW S, NEW q \in Queues(S), NEW item \in S
  PROVE  Push(q, item) \in Queues(S) /\ Items(Push(q, item)) = Append(Items(q), item)
<1> DEFINE rest == SubSeq(q.head, q.offset + 1, q.hLength)
           tail == Append(q.tail, item)
           new  == Push(q, item)
<1>1. rest \in Seq(S) /\ tail \in Seq(S)
  BY QueueFields, HeadRest, AppendProperties
<1>2. /\ new \in QueueRecords(S)
      /\ new.tail = tail /\ new.head = q.head
      /\ new.offset = q.offset /\ new.hLength = q.hLength
  BY <1>1, QueueFields DEF Push, QueueRecords
<1>3. new \in Queues(S)
  BY <1>2, QueueFields DEF Queues, QueueRecords, WellFormed
<1>4. Items(new) = rest \o tail
  BY <1>2 DEF Items
<1>5. rest \o tail = Append(rest \o q.tail, item)
  <2> HIDE DEF rest
  <2> QED
    BY <1>1, QueueFields, ConcatOfAppend
<1> QED
  BY <1>3, <1>4, <1>5 DEF Items

\* first is the oldest item, and shift removes it and no other, also when the
\* arrays change places.
THEOREM ShiftTakesFirst ==
  ASSUME NEW S, NEW q \in Queues(S), Length(q) > 0
  PROVE  /\ First(q) = Head(Items(q))
         /\ Shift(q) \in Queues(S)
         /\ Items(Shift(q)) = Tail(Items(q))
<1> DEFINE rest == SubSeq(q.head, q.offset + 1, q.hLength)
           new  == Shift(q)
<1>1. Items(q) = rest \o q.tail
  BY DEF Items
<1>2. CASE q.offset = q.hLength
  <2>1. rest = <<>> /\ q.tail # <<>>
    <3>1. rest = <<>>
      BY <1>2, QueueFields, SubSeqEmpty
    <3>2. Len(q.tail) > 0
      BY <1>2, QueueFields DEF Length
    <3> QED
      BY <3>1, <3>2, EmptySeq
  <2>2. Items(q) = q.tail
    BY <1>1, <2>1, QueueFields, ConcatEmptySeq
  <2>3. /\ new = [tail |-> <<>>, head |-> q.tail, offset |-> 1, hLength |-> Len(q.tail)]
        /\ new.tail = <<>> /\ new.head = q.tail /\ new.offset = 1 /\ new.hLength = Len(q.tail)
    BY <1>2 DEF Shift
  <2>4. Len(q.tail) \in Nat \ {0} /\ <<>> \in Seq(S)
    BY <2>1, QueueFields, EmptySeq
  <2>5. new \in Queues(S)
    <3>1. new \in QueueRecords(S)
      BY <2>3, <2>4, QueueFields DEF QueueRecords
    <3> QED
      BY <2>3, <2>4, <3>1 DEF Queues, QueueRecords, WellFormed
  <2>6. Items(new) = SubSeq(q.tail, 2, Len(q.tail)) \o <<>>
    BY <2>3 DEF Items
  <2>7. /\ Tail(q.tail) = SubSeq(q.tail, 2, Len(q.tail))
        /\ Tail(q.tail) \in Seq(S)
    BY <2>1, QueueFields, TailIsSubSeq, HeadTailProperties
  <2>8. Items(new) = Tail(q.tail)
    BY <2>6, <2>7, ConcatEmptySeq
  <2>9. First(q) = Head(q.tail)
    BY <1>2, <2>1, QueueFields DEF First
  <2> QED
    BY <2>2, <2>5, <2>8, <2>9
<1>3. CASE q.offset # q.hLength
  <2>1. q.offset + 1 \in 1..Len(q.head) /\ Len(q.head) \in (q.offset + 1)..Len(q.head)
    BY <1>3, QueueFields
  <2>2. /\ new \in QueueRecords(S)
        /\ new.head = q.head /\ new.tail = q.tail
        /\ new.hLength = q.hLength /\ new.offset = q.offset + 1
    BY <1>3, QueueFields DEF Shift, QueueRecords
  <2>3. new \in Queues(S)
    <3>1. q.hLength = Len(q.head) /\ q.offset + 1 \in 0..q.hLength
      BY <2>1, QueueFields
    <3>2. WellFormed(new)
      <4> HIDE DEF new
      <4> QED
        BY <2>2, <3>1 DEF WellFormed
    <3> HIDE DEF new
    <3> QED
      BY <2>2, <3>2 DEF Queues, QueueRecords
  <2>4. /\ Head(rest) = q.head[q.offset + 1]
        /\ Tail(rest) = SubSeq(q.head, (q.offset + 1) + 1, Len(q.head))
    <3>1. rest = SubSeq(q.head, q.offset + 1, Len(q.head)) /\ q.head \in Seq(S)
      BY QueueFields
    <3> DEFINE first == q.offset + 1
               last  == Len(q.head)
    <3>2. first \in 1..Len(q.head) /\ last \in first..Len(q.head)
      BY <2>1
    <3> HIDE DEF rest, first, last
    <3>3. /\ Head(SubSeq(q.head, first, last)) = q.head[first]
          /\ Tail(SubSeq(q.head, first, last)) = SubSeq(q.head, first + 1, last)
      BY <3>1, <3>2, HeadTailOfSubSeq
    <3> QED
      BY <3>1, <3>3 DEF first, last
  <2>5. rest \in Seq(S) /\ rest # <<>>
    <3>1. rest \in Seq(S) /\ Len(rest) = Len(q.head) - q.offset
      BY QueueFields, HeadRest
    <3>2. Len(rest) # 0
      BY <2>1, <3>1, QueueFields
    <3>3. Len(<<>>) = 0
      BY EmptySeq
    <3> HIDE DEF rest
    <3> QED
      BY <3>1, <3>2, <3>3
  <2>6. Items(new) = Tail(rest) \o q.tail
    BY <2>2, <2>4, QueueFields DEF Items
  <2>7. First(q) = Head(rest)
    BY <1>3, <2>4, QueueFields DEF First
  <2>8. Head(rest \o q.tail) = Head(rest) /\ Tail(rest \o q.tail) = Tail(rest) \o q.tail
    BY <2>5, QueueFields, TailOfConcat
  <2> QED
    BY <1>1, <2>3, <2>6, <2>7, <2>8
<1> HIDE DEF rest, new
<1> QED
  BY <1>2, <1>3
=============================================================================
