--------------------------- MODULE StreamSequencer ---------------------------
(***************************************************************************)
(* Class StreamSequencer of src/src/stream.ts: the STREAM frames that have *)
(* arrived and are not yet read, in the order of their offsets.  Pure      *)
(* operators over one sequencer, used by StreamTransfer.                   *)
(*                                                                         *)
(* An entry holds len bytes, which are the bytes first, first + 1, ... of  *)
(* the stream; the code's pendingOffsets are the offsets of the entries.   *)
(***************************************************************************)
EXTENDS Integers, FiniteSets, SequencesExt

NewSequencer == [list |-> <<>>, byteLen |-> 0, consumed |-> 0, final |-> -1]

\* Mutant: an offset below consumedOffset is not recognised.
HasPendingOffset(q, offset) == \E i \in DOMAIN q.list : q.list[i].offset = offset

HasOffset(q, offset) ==
  offset < q.consumed \/ \E i \in DOMAIN q.list : q.list[i].offset = offset

IsFIN(q) == q.consumed = q.final

End(entry) == entry.offset + entry.len

\* The offsets of the bytes of an entry.
Span(entry) == entry.offset..End(entry) - 1

\* The place before the first entry with a larger offset.
Place(list, offset) ==
  CHOOSE i \in 1..Len(list) + 1 :
    /\ \A j \in 1..i - 1 : list[j].offset <= offset
    /\ i <= Len(list) => list[i].offset > offset

\* Mutant: the entry is not counted in byteLen.
PushUncounted(q, entry) ==
  [q EXCEPT !.list = InsertAt(q.list, Place(q.list, entry.offset), entry)]

\* push(): there.
Push(q, entry) ==
  [q EXCEPT !.list = InsertAt(q.list, Place(q.list, entry.offset), entry),
            !.byteLen = q.byteLen + entry.len]

\* read() returns data k times in a row, or more often.
Readable(q, k) ==
  /\ k <= Len(q.list)
  /\ \A i \in 1..k :
       q.list[i].offset = IF i = 1 THEN q.consumed ELSE End(q.list[i - 1])

\* What the first k entries hold, which follow each other without a gap: how
\* much it is, the bytes, and the sequencer that has read them.
Size(q, k) == IF k = 0 THEN 0 ELSE End(q.list[k]) - q.consumed

DataOf(q, k) ==
  LET Byte(offset) ==
        LET i == CHOOSE i \in 1..k : offset \in Span(q.list[i])
        IN q.list[i].first + offset - q.list[i].offset
  IN [i \in 1..Size(q, k) |-> Byte(q.consumed + i - 1)]

\* Mutant: what was read is still counted in byteLen.
AfterReadHeld(q, k) ==
  [q EXCEPT !.list = SubSeq(q.list, k + 1, Len(q.list)),
            !.consumed = q.consumed + Size(q, k)]

AfterRead(q, k) ==
  [q EXCEPT !.list = SubSeq(q.list, k + 1, Len(q.list)),
            !.byteLen = q.byteLen - Size(q, k),
            !.consumed = q.consumed + Size(q, k)]

-----------------------------------------------------------------------------
(* What a sequencer is: used by the properties of StreamTransfer.           *)

SequencerEntries == [offset : Nat, first : Nat, len : Nat]

Sequencers == [list : Seq(SequencerEntries), byteLen : Nat, consumed : Nat,
               final : Nat \cup {-1}]

\* The offsets of the bytes that a sequencer holds.
Held(q) == UNION {Span(q.list[i]) : i \in DOMAIN q.list}

\* The entries hold the bytes of their offsets, lie above what was read and one
\* above the other, and byteLen is the number of their bytes.
Sound(q) ==
  /\ \A i \in DOMAIN q.list : /\ q.list[i].len > 0 /\ q.list[i].first = q.list[i].offset + 1
                              /\ q.list[i].offset >= q.consumed
  /\ \A i, j \in DOMAIN q.list : i < j => End(q.list[i]) <= q.list[j].offset
  /\ q.byteLen = Cardinality(Held(q))
=============================================================================
