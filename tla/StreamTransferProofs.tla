------------------------ MODULE StreamTransferProofs ------------------------
(***************************************************************************)
(* That the writer never exceeds the window it was granted, that what is   *)
(* granted also fits into the cache, and that the stream implements        *)
(* BytePipe: for every number of streams, every script and all sizes.      *)
(***************************************************************************)
EXTENDS StreamTransfer, StreamSequencerProofs

USE StreamTransferAssumption

SendControls == [maxSend : Nat, written : Nat]
ReceiveControls == [maxReceive : Nat, window : Nat, consumed : Nat, highest : Nat]
Frames == StreamFrames \cup WindowUpdateFrames

\* What every step of the writer's end of s does: at most one piece goes out, from
\* where writing had come to, within the window.
Fresh(f, s) ==
  /\ f \in StreamFrames /\ f.stream = s
  /\ f.offset = send[s].written /\ f.offset + f.len = send'[s].written
  /\ f.len > 0 => f.first = f.offset + 1
  /\ f.fin => localFIN'[s] /\ f.offset + f.len = accepted'[s]

WriterChanges(s) ==
  /\ accepted' = [accepted EXCEPT ![s] = accepted'[s]] /\ accepted'[s] \in Nat
  /\ chunks' = [chunks EXCEPT ![s] = chunks'[s]] /\ chunks'[s] \in Seq(Entries)
  /\ flushing' = [flushing EXCEPT ![s] = flushing'[s]] /\ flushing'[s] \in Nat \cup {Idle}
  /\ localFIN' = [localFIN EXCEPT ![s] = localFIN'[s]] /\ localFIN'[s] \in BOOLEAN
  /\ send' = [send EXCEPT ![s] = send'[s]] /\ send'[s] \in SendControls

WriterStep(s) ==
  /\ WriterChanges(s)
  /\ UNCHANGED reader
  /\ dups' \in Nat /\ errors' \in Nat
  /\ net' \subseteq net \cup {f \in StreamFrames : Fresh(f, s)}
  /\ WriterSound(s)'
  /\ send[s].written <= send'[s].written /\ send'[s].written <= send'[s].maxSend
  /\ send'[s].maxSend <= recv[s].maxReceive
  /\ accepted'[s] >= accepted[s]
  /\ accepted'[s] = accepted[s] \/ localFIN'[s] = localFIN[s]
  /\ localFIN[s] => localFIN'[s] /\ accepted'[s] = accepted[s]

\* What a step of the writer's end does not touch.
LEMMA WriterElsewhere ==
  ASSUME TypeOK, NEW s \in Streams, WriterChanges(s), NEW t \in Streams, t # s
  PROVE  /\ accepted'[t] = accepted[t] /\ chunks'[t] = chunks[t]
         /\ flushing'[t] = flushing[t] /\ localFIN'[t] = localFIN[t] /\ send'[t] = send[t]
  BY DEF WriterChanges, TypeOK

LEMMA WriterTypes ==
  ASSUME TypeOK, NEW s \in Streams, WriterStep(s)
  PROVE  TypeOK'
<1>1. /\ accepted' \in [Streams -> Nat] /\ chunks' \in [Streams -> Seq(Entries)]
      /\ flushing' \in [Streams -> Nat \cup {Idle}] /\ localFIN' \in [Streams -> BOOLEAN]
  BY DEF TypeOK, WriterStep, WriterChanges
<1>2. send' \in [Streams -> [maxSend : Nat, written : Nat]]
  BY DEF TypeOK, WriterStep, WriterChanges, SendControls
<1>3. net' \in SUBSET (StreamFrames \cup WindowUpdateFrames)
  BY DEF TypeOK, WriterStep
<1>4. UNCHANGED reader /\ dups' \in Nat /\ errors' \in Nat
  BY DEF WriterStep
<1> QED
  BY <1>1, <1>2, <1>3, <1>4 DEF TypeOK, reader

LEMMA WriterFields ==
  ASSUME IInv, NEW s \in Streams
  PROVE  /\ accepted[s] \in Nat /\ send[s] \in SendControls
         /\ send[s].maxSend \in Nat /\ send[s].written \in Nat
         /\ localFIN[s] \in BOOLEAN /\ chunks[s] \in Seq(Entries)
         /\ flushing[s] \in Nat \cup {Idle}
         /\ recv[s] \in ReceiveControls
         /\ recv[s].maxReceive \in Nat /\ recv[s].window \in Nat
         /\ recv[s].consumed \in Nat /\ recv[s].highest \in Nat
         /\ seq[s] \in Sequencers /\ destroyed[s] \in BOOLEAN /\ ended[s] \in BOOLEAN
         /\ remoteFIN[s] \in BOOLEAN
<1>1. send[s] \in SendControls /\ recv[s] \in ReceiveControls
  BY DEF IInv, TypeOK, SendControls, ReceiveControls
<1> QED
  BY <1>1 DEF IInv, TypeOK, SendControls, ReceiveControls

\* All that is in flight or waits of a stream was written.
LEMMA PiecesWritten ==
  ASSUME IInv, NEW s \in Streams, NEW p \in Pieces(s)
  PROVE  /\ p.offset \in Nat /\ p.len \in Nat /\ p.len > 0
         /\ End(p) \in Nat /\ p.offset < End(p) /\ End(p) <= send[s].written
<1>1. CASE \E f \in net : f.type = "STREAM" /\ f.stream = s /\ f.len > 0
                          /\ p = [offset |-> f.offset, len |-> f.len]
  <2>1. PICK f \in net : f.type = "STREAM" /\ f.stream = s /\ f.len > 0
                         /\ p = [offset |-> f.offset, len |-> f.len]
    BY <1>1
  <2>2. f \in StreamFrames
    BY <2>1 DEF IInv, TypeOK, WindowUpdateFrames
  <2>3. f.offset + f.len <= send[s].written
    BY <2>1 DEF IInv, FrameSound
  <2> QED
    BY <2>1, <2>2, <2>3 DEF StreamFrames, End
<1>2. CASE \E i \in DOMAIN seq[s].list :
              p = [offset |-> seq[s].list[i].offset, len |-> seq[s].list[i].len]
  <2>1. PICK i \in DOMAIN seq[s].list :
          p = [offset |-> seq[s].list[i].offset, len |-> seq[s].list[i].len]
    BY <1>2
  <2>2. seq[s] \in Sequencers /\ SequencerSound(s)
    BY WriterFields DEF IInv
  <2>3. /\ seq[s].list[i].offset \in Nat /\ seq[s].list[i].len \in Nat /\ seq[s].list[i].len > 0
        /\ End(seq[s].list[i]) <= send[s].written
    BY <2>1, <2>2, SequencerFields DEF SequencerSound, Sound
  <2> QED
    BY <2>1, <2>3 DEF End
<1> QED
  BY <1>1, <1>2 DEF Pieces

LEMMA WriterPieces ==
  ASSUME IInv, NEW s \in Streams, WriterStep(s), NEW t \in Streams
  PROVE  PiecesSound(t)'
<1> DEFINE new == [offset |-> send[s].written, len |-> send'[s].written - send[s].written]
<1>1. UNCHANGED <<seq, recv>>
  BY DEF WriterStep, reader
<1>2. /\ send[s].written \in Nat /\ send'[s].written \in Nat /\ recv[s].consumed \in Nat
      /\ send[s].written <= send'[s].written /\ recv[s].consumed <= send[s].written
  <2>1. send'[s].written \in Nat
    BY DEF WriterStep, WriterChanges, SendControls
  <2> QED
    BY <2>1, WriterFields DEF IInv, OutputSound, WriterStep
<1>3. ASSUME NEW p \in Pieces(t)', p \notin Pieces(t)
      PROVE  t = s /\ p = new
  <2>1. PICK f \in net' : f.type = "STREAM" /\ f.stream = t /\ f.len > 0
                          /\ p = [offset |-> f.offset, len |-> f.len]
    BY <1>1, <1>3 DEF Pieces
  <2>2. f \notin net
    BY <1>3, <2>1 DEF Pieces
  <2>3. Fresh(f, s)
    BY <2>2 DEF WriterStep
  <2>4. f.stream = s /\ f.offset = send[s].written /\ f.offset \in Nat /\ f.len \in Nat
        /\ f.offset + f.len = send'[s].written
    BY <2>3 DEF Fresh, StreamFrames
  <2> QED
    BY <1>2, <2>1, <2>4
<1>4. PiecesSound(t)
  BY DEF IInv
<1>5. ASSUME NEW p \in Pieces(s)
      PROVE  End(p) <= new.offset
  BY PiecesWritten
<1>6. new.offset = send[s].written
  OBVIOUS
<1> HIDE DEF new
<1>7. ASSUME NEW p \in Pieces(t)', NEW q \in Pieces(t)'
      PROVE  p = q \/ End(p) <= q.offset \/ End(q) <= p.offset
  BY <1>3, <1>4, <1>5 DEF PiecesSound
<1>8. ASSUME NEW p \in Pieces(t)'
      PROVE  p.offset >= recv[t].consumed \/ End(p) <= recv[t].consumed
  <2>1. CASE p \in Pieces(t)
    BY <1>4, <2>1 DEF PiecesSound
  <2>2. CASE p \notin Pieces(t)
    BY <1>2, <1>3, <1>6, <2>2
  <2> QED
    BY <2>1, <2>2
<1> QED
  BY <1>1, <1>7, <1>8 DEF PiecesSound

\* A step of the writer's end keeps the invariant.
LEMMA WriterKeeps ==
  ASSUME IInv, NEW s \in Streams, WriterStep(s)
  PROVE  IInv'
<1>1. TypeOK'
  BY WriterTypes DEF IInv
<1>2. UNCHANGED reader /\ WriterChanges(s)
  BY DEF WriterStep
<1>3. ASSUME NEW t \in Streams, t # s
      PROVE  /\ accepted'[t] = accepted[t] /\ chunks'[t] = chunks[t]
             /\ flushing'[t] = flushing[t] /\ localFIN'[t] = localFIN[t] /\ send'[t] = send[t]
  BY <1>2, <1>3, WriterElsewhere DEF IInv
<1>4. ASSUME NEW t \in Streams
      PROVE  /\ accepted[t] \in Nat /\ send[t].written \in Nat
             /\ send'[t].written \in Nat /\ send[t].written <= send'[t].written
             /\ localFIN[t] => localFIN'[t] /\ accepted'[t] = accepted[t]
  <2>1. accepted[t] \in Nat /\ send[t].written \in Nat
    BY WriterFields
  <2>2. t = s => send'[t].written \in Nat /\ send[t].written <= send'[t].written
    BY DEF WriterStep, WriterChanges, SendControls
  <2>3. t = s => (localFIN[t] => localFIN'[t] /\ accepted'[t] = accepted[t])
    BY DEF WriterStep
  <2>4. t # s => send'[t] = send[t] /\ localFIN'[t] = localFIN[t] /\ accepted'[t] = accepted[t]
    BY <1>3
  <2> QED
    BY <2>1, <2>2, <2>3, <2>4
<1>5. WindowRespected'
  <2>1. ASSUME NEW t \in Streams
        PROVE  /\ send'[t].written <= send'[t].maxSend /\ send'[t].maxSend <= recv[t].maxReceive
               /\ ~IsBlocked(recv[t])
    BY <1>3 DEF WriterStep, IInv, WindowRespected
  <2> QED
    BY <1>2, <2>1 DEF WindowRespected, reader
<1>6. ASSUME NEW f \in net'
      PROVE  FrameSound(f)'
  <2>1. recv' = recv
    BY <1>2 DEF reader
  <2>2. CASE f \in net
    <3>1. FrameSound(f) /\ f \in StreamFrames \cup WindowUpdateFrames
      BY <2>2 DEF IInv, TypeOK
    <3>2. CASE f \in StreamFrames
      <4>1. f.stream \in Streams /\ f.type = "STREAM" /\ f.offset + f.len \in Nat
        BY <3>2 DEF StreamFrames
      <4> QED
        BY <1>4, <3>1, <4>1 DEF FrameSound
    <3>3. CASE f \in WindowUpdateFrames
      <4>1. f.type = "WINDOW_UPDATE"
        BY <3>3 DEF WindowUpdateFrames
      <4> QED
        BY <2>1, <3>1, <4>1 DEF FrameSound
    <3> QED
      BY <3>1, <3>2, <3>3
  <2>3. CASE Fresh(f, s)
    <3>1. f.stream = s /\ f.type = "STREAM"
      BY <2>3 DEF Fresh, StreamFrames
    <3> QED
      BY <1>4, <2>3, <3>1 DEF FrameSound, Fresh
  <2> QED
    BY <2>2, <2>3 DEF WriterStep
<1>7. ASSUME NEW t \in Streams
      PROVE  WriterSound(t)'
  <2>1. CASE t = s
    BY <2>1 DEF WriterStep
  <2>2. CASE t # s
    BY <1>3, <2>2 DEF IInv, WriterSound
  <2> QED
    BY <2>1, <2>2
<1>8. ASSUME NEW t \in Streams
      PROVE  SequencerSound(t)' /\ OutputSound(t)' /\ GrantSound(t)'
  <2>1. UNCHANGED <<seq, recv, destroyed, output, ended>>
    BY <1>2 DEF reader
  <2>2. SequencerSound(t)'
    <3>1. \A i \in DOMAIN seq[t].list : End(seq[t].list[i]) <= send'[t].written
      <4>1. ASSUME NEW i \in DOMAIN seq[t].list
            PROVE  End(seq[t].list[i]) \in Nat /\ End(seq[t].list[i]) <= send[t].written
        BY WriterFields, SequencerFields DEF IInv, SequencerSound
      <4> QED
        BY <1>4, <4>1
    <3> QED
      BY <1>4, <2>1, <3>1 DEF IInv, SequencerSound
  <2>3. OutputSound(t)'
    <3>1. recv[t].consumed \in Nat
      BY WriterFields
    <3>2. output'[t] = [i \in 1..recv'[t].consumed |-> i]
      BY <2>1 DEF IInv, OutputSound
    <3>3. recv'[t].consumed <= send'[t].written
      <4>1. recv[t].consumed <= send[t].written
        BY DEF IInv, OutputSound
      <4> QED
        BY <1>4, <2>1, <3>1, <4>1
    <3>4. ended'[t] => localFIN'[t] /\ recv'[t].consumed = accepted'[t]
      BY <1>4, <2>1 DEF IInv, OutputSound
    <3> QED
      BY <3>2, <3>3, <3>4 DEF OutputSound
  <2>4. GrantSound(t)'
    BY <2>1 DEF IInv, GrantSound
  <2> QED
    BY <2>2, <2>3, <2>4
<1>9. \A t \in Streams : PiecesSound(t)'
  BY WriterPieces
<1> QED
  BY <1>1, <1>5, <1>6, <1>7, <1>8, <1>9 DEF IInv

-----------------------------------------------------------------------------
(* The writer's actions                                                    *)

\* Lists of one entry.
LEMMA OneEntry ==
  ASSUME NEW e \in Entries, NEW x \in Entries
  PROVE  /\ <<e>> \in Seq(Entries) /\ Len(<<e>>) = 1 /\ <<e>>[1] = e /\ <<e>> # <<>>
         /\ Head(<<e>>) = e /\ Tail(<<e>>) = <<>> /\ <<x>> \o Tail(<<e>>) = <<x>>
         /\ Len(<<>>) = 0 /\ <<>> \in Seq(Entries)
  OBVIOUS

LEMMA ListOfOne ==
  ASSUME NEW list \in Seq(Entries), Len(list) <= 1, list # <<>>
  PROVE  list[1] \in Entries /\ list = <<list[1]>>
<1>1. Len(list) = 1
  <2>1. Len(list) \in Nat \ {0}
    BY EmptySeq
  <2>2. \A n \in Nat \ {0} : n <= 1 => n = 1
    OBVIOUS
  <2> QED
    BY <2>1, <2>2
<1>2. list[1] \in Entries
  BY <1>1, ElementOfSeq
<1>3. <<list[1]>> \in Seq(Entries) /\ Len(<<list[1]>>) = 1 /\ <<list[1]>>[1] = list[1]
  BY <1>2, OneEntry
<1>4. \A i \in 1..Len(list) : list[i] = <<list[1]>>[i]
  BY <1>1, <1>3
<1> QED
  BY <1>1, <1>2, <1>3, <1>4, SeqEqual

\* What is ready to be flushed when a units have been accepted: the rest of a chunk
\* from where writing has come to, or the end of all chunks.
Ready(s, entry, a) ==
  /\ entry \in Entries
  /\ IF entry.fin
     THEN /\ entry.next = entry.end + 1 /\ send[s].written = a
          /\ \A end \in Script[s] : end <= a
     ELSE /\ entry.next = send[s].written + 1 /\ entry.end = a
          /\ send[s].written < a /\ ~localFIN[s]

\* The control with which a step sends: that of the stream, but for more room.
Control(s, fc) ==
  /\ fc \in SendControls /\ fc.written = send[s].written
  /\ send[s].maxSend <= fc.maxSend /\ fc.maxSend <= recv[s].maxReceive

\* What a step of the writer's end does besides flushing.
Beside(s, a, rest) ==
  /\ a \in Nat /\ a >= accepted[s] /\ (localFIN[s] => a = accepted[s])
  /\ accepted' = [accepted EXCEPT ![s] = a]
  /\ UNCHANGED reader /\ dups' \in Nat /\ errors' \in Nat
  /\ rest \subseteq net

LEMMA FlushDataStep ==
  ASSUME IInv, NEW s \in Streams, NEW entry, NEW a, NEW fc, NEW rest,
         Ready(s, entry, a), Control(s, fc), Beside(s, a, rest),
         ~entry.fin => fc.maxSend - fc.written >= Min2(a - fc.written, Payload),
         entry.fin => a = accepted[s],
         FlushData(s, <<entry>>, fc, rest)
  PROVE  /\ WriterStep(s)
         /\ ~entry.fin => localFIN' = localFIN
<1> DEFINE left == entry.end - entry.next + 1
           len == Min2(left, Payload)
           sent == [entry EXCEPT !.next = entry.next + len]
           piece == StreamFrame(s, fc.written, entry.next, len, entry.fin)
<1>1. /\ entry \in Entries /\ entry.fin \in BOOLEAN /\ entry.next \in Nat /\ entry.end \in Nat
      /\ fc.written \in Nat /\ fc.maxSend \in Nat /\ fc.written = send[s].written
      /\ a \in Nat /\ accepted[s] \in Nat /\ recv[s].maxReceive \in Nat /\ send[s].maxSend \in Nat
      /\ localFIN[s] \in BOOLEAN /\ send[s].written <= send[s].maxSend
  BY WriterFields DEF Ready, Control, Beside, Entries, SendControls, IInv, WindowRespected
<1>2. Head(<<entry>>) = entry
  BY <1>1, OneEntry
<1>3. /\ chunks' = [chunks EXCEPT ![s] = <<sent>> \o Tail(<<entry>>)]
      /\ flushing' = [flushing EXCEPT ![s] = Min2(len, left - len)]
      /\ localFIN' = [localFIN EXCEPT ![s] = localFIN[s] \/ entry.fin]
      /\ send' = [send EXCEPT ![s] = UpdateWrittenOffset(fc, len)]
      /\ net' = rest \cup {piece}
  BY <1>2 DEF FlushData
<1>4. /\ len \in Nat /\ left \in Nat /\ len <= left
      /\ entry.fin => left = 0 /\ len = 0 /\ send[s].written = a
      /\ ~entry.fin => /\ left = a - send[s].written /\ entry.next = send[s].written + 1
                       /\ send[s].written + len <= a
                       /\ Min2(len, left - len) = Min2(Payload, a - (send[s].written + len))
  BY <1>1 DEF Ready, Min2
<1>5. sent \in Entries /\ sent.fin = entry.fin /\ sent.next = entry.next + len /\ sent.end = entry.end
  <2>1. entry.next + len \in Nat
    BY <1>1, <1>4
  <2> HIDE DEF len
  <2> QED
    BY <1>1, <2>1 DEF Entries
<1>6. <<sent>> \o Tail(<<entry>>) = <<sent>> /\ <<sent>> \in Seq(Entries) /\ Len(<<sent>>) = 1
      /\ <<sent>>[1] = sent /\ <<sent>> # <<>>
  BY <1>1, <1>5, OneEntry
<1> HIDE DEF sent
<1>7. LET next == UpdateWrittenOffset(fc, len)
      IN /\ next \in SendControls /\ next.written = fc.written + len /\ next.maxSend = fc.maxSend
  <2>1. fc.written + len \in Nat
    BY <1>1, <1>4
  <2> HIDE DEF len
  <2> QED
    BY <1>1, <2>1 DEF UpdateWrittenOffset, SendControls, Control
<1>8. /\ accepted'[s] = a /\ chunks'[s] = <<sent>> /\ flushing'[s] = Min2(len, left - len)
      /\ localFIN'[s] = (localFIN[s] \/ entry.fin)
      /\ send'[s].written = send[s].written + len /\ send'[s].maxSend = fc.maxSend
      /\ send'[s] \in SendControls
  <2> HIDE DEF len, left
  <2> QED
    BY <1>1, <1>3, <1>6, <1>7 DEF IInv, TypeOK, Beside
<1>9. WriterChanges(s)
  <2>1. Min2(len, left - len) \in Nat
    BY <1>4 DEF Min2
  <2> HIDE DEF len, left
  <2> QED
    BY <1>1, <1>3, <1>6, <1>8, <2>1 DEF WriterChanges, Beside
<1>10. WriterSound(s)'
  <2>1. CASE entry.fin
    <3>1. flushing'[s] = 0
      BY <1>4, <1>8, <2>1 DEF Min2
    <3>2. sent.next = sent.end + 1 /\ send'[s].written = accepted'[s]
      BY <1>1, <1>4, <1>5, <1>8, <2>1 DEF Ready
    <3>3. \A end \in Script[s] : end <= accepted'[s]
      BY <1>8, <2>1 DEF Ready
    <3>4. localFIN'[s] /\ sent.fin
      BY <1>5, <1>8, <2>1
    <3>5. /\ Len(chunks'[s]) <= 1 /\ chunks'[s] # <<>> /\ chunks'[s][1] = sent
      BY <1>6, <1>8
    <3> HIDE DEF len, left
    <3> QED
      BY <3>1, <3>2, <3>3, <3>4, <3>5 DEF WriterSound
  <2>2. CASE ~entry.fin
    <3>1. flushing'[s] = Min2(Payload, accepted'[s] - send'[s].written) /\ flushing'[s] # Idle
      <4>1. Min2(len, left - len) \in Nat
        BY <1>4 DEF Min2
      <4> HIDE DEF len, left
      <4> QED
        BY <1>4, <1>8, <2>2, <4>1 DEF Idle
    <3>2. sent.next = send'[s].written + 1 /\ sent.end = accepted'[s]
          /\ send'[s].written <= accepted'[s] /\ ~localFIN'[s]
      <4> HIDE DEF len, left
      <4>1. sent.end = a /\ ~localFIN[s]
        BY <1>5, <2>2 DEF Ready
      <4> QED
        BY <1>1, <1>4, <1>5, <1>8, <2>2, <4>1
    <3> HIDE DEF len, left
    <3> QED
      BY <1>5, <1>6, <1>8, <2>2, <3>1, <3>2 DEF WriterSound
  <2> QED
    BY <2>1, <2>2
<1>11. ASSUME piece \notin net
       PROVE  Fresh(piece, s)
  <2> HIDE DEF left
  <2>1. piece = [type |-> "STREAM", stream |-> s, offset |-> fc.written, first |-> entry.next,
                 len |-> len, fin |-> entry.fin]
    BY DEF StreamFrame
  <2> HIDE DEF len
  <2>2. piece \in StreamFrames
    BY <1>1, <1>4, <2>1 DEF StreamFrames
  <2>3. len > 0 => entry.next = fc.written + 1
    BY <1>1, <1>4
  <2>4. entry.fin => localFIN'[s] /\ fc.written + len = accepted'[s]
    <3>1. entry.fin => localFIN'[s]
      BY <1>8
    <3>2. entry.fin => len = 0 /\ send[s].written = a /\ accepted'[s] = a
      BY <1>4, <1>8
    <3> QED
      BY <1>1, <3>1, <3>2
  <2> HIDE DEF piece
  <2> QED
    BY <1>1, <1>8, <2>1, <2>2, <2>3, <2>4 DEF Fresh
<1>12. send[s].written <= send'[s].written /\ send'[s].written <= send'[s].maxSend
       /\ send'[s].maxSend <= recv[s].maxReceive
  <2>1. len <= fc.maxSend - fc.written
    <3>1. CASE entry.fin
      <4> HIDE DEF len, left
      <4> QED
        BY <1>1, <1>4, <3>1 DEF Control
    <3>2. CASE ~entry.fin
      <4>1. len = Min2(a - fc.written, Payload)
        BY <1>1, <1>4, <3>2
      <4> HIDE DEF len, left
      <4> QED
        BY <3>2, <4>1
    <3> QED
      BY <3>1, <3>2
  <2> HIDE DEF len, left
  <2> QED
    BY <1>1, <1>4, <1>8, <2>1 DEF Control
<1>13. net' \subseteq net \cup {f \in StreamFrames : Fresh(f, s)}
  <2> HIDE DEF piece
  <2> QED
    BY <1>3, <1>11 DEF Beside, Fresh
<1>14. /\ accepted'[s] >= accepted[s]
       /\ accepted'[s] = accepted[s] \/ localFIN'[s] = localFIN[s]
       /\ localFIN[s] => localFIN'[s] /\ accepted'[s] = accepted[s]
  <2> HIDE DEF len, left
  <2> QED
    BY <1>1, <1>8 DEF Beside
<1>15. ~entry.fin => localFIN' = localFIN
  BY <1>1, <1>3 DEF IInv, TypeOK
<1>16. UNCHANGED reader /\ dups' \in Nat /\ errors' \in Nat
  BY DEF Beside
<1> QED
  BY <1>9, <1>10, <1>12, <1>13, <1>14, <1>15, <1>16 DEF WriterStep

\* Nothing can be flushed now.
LEMMA WaitStep ==
  ASSUME IInv, NEW s \in Streams, NEW list, NEW a, NEW fc, NEW rest,
         Control(s, fc), Beside(s, a, rest),
         \/ list = <<>> /\ send[s].written = a
         \/ \E entry : list = <<entry>> /\ Ready(s, entry, a) /\ ~entry.fin,
         chunks' = [chunks EXCEPT ![s] = list], flushing' = [flushing EXCEPT ![s] = Idle],
         send' = [send EXCEPT ![s] = fc], net' = rest, localFIN' = localFIN
  PROVE  WriterStep(s)
<1>1. /\ accepted'[s] = a /\ chunks'[s] = list /\ flushing'[s] = Idle
      /\ localFIN'[s] = localFIN[s] /\ send'[s] = fc
  BY DEF IInv, TypeOK, Beside
<1>2. /\ list \in Seq(Entries) /\ Len(list) <= 1
      /\ list # <<>> => Ready(s, list[1], a) /\ ~list[1].fin
  <2>1. CASE list = <<>>
    BY <2>1, EmptySeq
  <2>2. CASE \E entry : list = <<entry>> /\ Ready(s, entry, a) /\ ~entry.fin
    <3>1. PICK entry : list = <<entry>> /\ Ready(s, entry, a) /\ ~entry.fin
      BY <2>2
    <3>2. entry \in Entries
      BY <3>1 DEF Ready
    <3>3. list \in Seq(Entries) /\ Len(list) = 1 /\ list[1] = entry
      BY <3>1, <3>2, OneEntry
    <3> QED
      BY <3>1, <3>3
  <2> QED
    BY <2>1, <2>2
<1>3. /\ a \in Nat /\ accepted[s] \in Nat /\ send[s].written \in Nat /\ localFIN[s] \in BOOLEAN
      /\ fc \in SendControls /\ fc.written \in Nat /\ fc.maxSend \in Nat
      /\ send[s].maxSend \in Nat /\ send[s].written <= send[s].maxSend
  BY WriterFields DEF Control, Beside, SendControls, IInv, WindowRespected
<1>4. WriterChanges(s)
  <2>1. localFIN' = [localFIN EXCEPT ![s] = localFIN'[s]]
    BY DEF IInv, TypeOK
  <2> QED
    BY <1>1, <1>2, <1>3, <2>1 DEF WriterChanges, Beside
<1>5. WriterSound(s)'
  <2>1. WriterSound(s) /\ fc.written = send[s].written
    BY DEF IInv, Control
  <2>2. localFIN'[s] => \A end \in Script[s] : end <= accepted'[s]
    BY <1>1, <2>1 DEF WriterSound, Beside
  <2>3. chunks'[s] = <<>> => send'[s].written = accepted'[s] /\ flushing'[s] = Idle
    BY <1>1, <1>2, <2>1
  <2>4. chunks'[s] # <<>> =>
          LET entry == chunks'[s][1]
          IN /\ ~entry.fin /\ entry.next = send'[s].written + 1 /\ entry.end = accepted'[s]
             /\ send'[s].written < accepted'[s] /\ send'[s].written <= accepted'[s] /\ ~localFIN'[s]
    BY <1>1, <1>2, <1>3, <2>1 DEF Ready
  <2>5. Len(chunks'[s]) <= 1
    BY <1>1, <1>2
  <2> QED
    BY <1>1, <2>2, <2>3, <2>4, <2>5 DEF WriterSound
<1>6. send[s].written <= send'[s].written /\ send'[s].written <= send'[s].maxSend
      /\ send'[s].maxSend <= recv[s].maxReceive
  BY <1>1, <1>3 DEF Control
<1>7. /\ accepted'[s] >= accepted[s]
      /\ accepted'[s] = accepted[s] \/ localFIN'[s] = localFIN[s]
      /\ localFIN[s] => localFIN'[s] /\ accepted'[s] = accepted[s]
  BY <1>1 DEF Beside
<1> QED
  BY <1>4, <1>5, <1>6, <1>7 DEF WriterStep, Beside

LEMMA TryFlushStep ==
  ASSUME IInv, NEW s \in Streams, NEW list, NEW a, NEW fc, NEW rest,
         Control(s, fc), Beside(s, a, rest),
         \/ list = <<>> /\ send[s].written = a
         \/ \E entry : list = <<entry>> /\ Ready(s, entry, a) /\ (entry.fin => a = accepted[s]),
         TryFlush(s, list, fc, rest)
  PROVE  /\ WriterStep(s)
         /\ list = <<>> \/ ~Head(list).fin => localFIN' = localFIN
<1>1. CASE list # <<>> /\ (Head(list).fin \/ ~WillBlocked(fc, PacketSize))
  <2>1. PICK entry : list = <<entry>> /\ Ready(s, entry, a) /\ (entry.fin => a = accepted[s])
    BY <1>1
  <2>2. entry \in Entries /\ Head(list) = entry
    <3>1. entry \in Entries
      BY <2>1 DEF Ready
    <3> QED
      BY <2>1, <3>1, OneEntry
  <2>3. FlushData(s, <<entry>>, fc, rest)
    BY <1>1, <2>1 DEF TryFlush
  <2>4. ~entry.fin => fc.maxSend - fc.written >= Min2(a - fc.written, Payload)
    <3>1. fc.maxSend \in Nat /\ fc.written \in Nat /\ a \in Nat
      BY DEF Control, SendControls, Beside
    <3> QED
      BY <1>1, <2>2, <3>1 DEF WillBlocked, Min2
  <2> QED
    BY <1>1, <2>1, <2>2, <2>3, <2>4, FlushDataStep
<1>2. CASE ~(list # <<>> /\ (Head(list).fin \/ ~WillBlocked(fc, PacketSize)))
  <2>1. /\ chunks' = [chunks EXCEPT ![s] = list] /\ flushing' = [flushing EXCEPT ![s] = Idle]
        /\ send' = [send EXCEPT ![s] = fc] /\ net' = rest /\ localFIN' = localFIN
    BY <1>2 DEF TryFlush
  <2>2. \/ list = <<>> /\ send[s].written = a
        \/ \E entry : list = <<entry>> /\ Ready(s, entry, a) /\ ~entry.fin
    <3>1. CASE list = <<>>
      BY <3>1
    <3>2. CASE list # <<>>
      <4>1. PICK entry : list = <<entry>> /\ Ready(s, entry, a)
        BY <3>2
      <4>2. entry \in Entries
        BY <4>1 DEF Ready
      <4>3. Head(list) = entry
        BY <4>1, <4>2, OneEntry
      <4> QED
        BY <1>2, <3>2, <4>1, <4>3
    <3> QED
      BY <3>1, <3>2
  <2>3. WriterStep(s)
    BY <2>1, <2>2, WaitStep
  <2> QED
    BY <2>1, <2>3
<1> QED
  BY <1>1, <1>2

\* The stream's own control, and the state of its list.
LEMMA OwnControl ==
  ASSUME IInv, NEW s \in Streams
  PROVE  Control(s, send[s])
<1>1. send[s].maxSend \in Nat /\ recv[s].maxReceive \in Nat /\ send[s] \in SendControls
  BY WriterFields
<1> QED
  BY <1>1 DEF Control, IInv, WindowRespected

LEMMA EntryWaiting ==
  ASSUME IInv, NEW s \in Streams, chunks[s] # <<>>
  PROVE  LET entry == chunks[s][1]
         IN /\ entry \in Entries /\ chunks[s] = <<entry>>
            /\ Head(chunks[s]) = entry /\ Tail(chunks[s]) = <<>>
            /\ entry.fin \in BOOLEAN /\ entry.next \in Nat /\ entry.end \in Nat
<1> DEFINE entry == chunks[s][1]
<1>1. chunks[s] \in Seq(Entries) /\ Len(chunks[s]) <= 1
  BY WriterFields DEF IInv, WriterSound
<1>2. entry \in Entries /\ chunks[s] = <<entry>>
  BY <1>1, ListOfOne
<1>3. Head(<<entry>>) = entry /\ Tail(<<entry>>) = <<>>
  BY <1>2, OneEntry
<1> HIDE DEF entry
<1>4. entry.fin \in BOOLEAN /\ entry.next \in Nat /\ entry.end \in Nat
  BY <1>2 DEF Entries
<1> QED
  BY <1>2, <1>3, <1>4 DEF entry

LEMMA WriteStep ==
  ASSUME IInv, NEW s \in Streams, Write(s)
  PROVE  WriterStep(s) /\ localFIN' = localFIN
<1>1. PICK end \in Script[s] :
        /\ chunks[s] = <<>> /\ end > accepted[s]
        /\ accepted' = [accepted EXCEPT ![s] = end]
        /\ TryFlush(s, <<DataEntry(accepted[s] + 1, end)>>, send[s], net)
        /\ UNCHANGED <<reader, dups, errors>>
  BY DEF Write
<1> DEFINE entry == DataEntry(accepted[s] + 1, end)
<1>2. end \in Nat /\ accepted[s] \in Nat
  BY WriterFields
<1>3. entry \in Entries /\ ~entry.fin /\ entry.next = accepted[s] + 1 /\ entry.end = end
  BY <1>2 DEF Entries, DataEntry
<1>4. send[s].written = accepted[s] /\ ~localFIN[s]
  BY <1>1, <1>2 DEF IInv, WriterSound
<1> HIDE DEF entry
<1>5. Ready(s, entry, end)
  BY <1>1, <1>2, <1>3, <1>4 DEF Ready
<1>6. Beside(s, end, net)
  BY <1>1, <1>2, <1>4 DEF Beside, IInv, TypeOK
<1>7. TryFlush(s, <<entry>>, send[s], net) /\ Head(<<entry>>) = entry
  BY <1>1, <1>3, OneEntry DEF entry
<1> QED
  BY <1>3, <1>5, <1>6, <1>7, OwnControl, TryFlushStep

LEMMA FinalStep ==
  ASSUME IInv, NEW s \in Streams, Final(s)
  PROVE  WriterStep(s)
<1>1. FinEntry \in Entries /\ FinEntry.fin /\ FinEntry.next = FinEntry.end + 1
  BY DEF FinEntry, Entries
<1>2. send[s].written = accepted[s] /\ \A end \in Script[s] : end <= accepted[s]
  BY DEF Final, IInv, WriterSound
<1>3. Ready(s, FinEntry, accepted[s])
  BY <1>1, <1>2 DEF Ready
<1>4. Beside(s, accepted[s], net)
  BY WriterFields DEF Final, Beside, IInv, TypeOK
<1>5. TryFlush(s, <<FinEntry>>, send[s], net)
  BY DEF Final
<1> QED
  BY <1>3, <1>4, <1>5, OwnControl, TryFlushStep

LEMMA SentNextStep ==
  ASSUME IInv, NEW s \in Streams, SentNext(s)
  PROVE  WriterStep(s) /\ localFIN' = localFIN
<1> DEFINE entry == chunks[s][1]
<1>1. /\ flushing[s] > 0 /\ ~WillBlocked(send[s], flushing[s] + 1)
      /\ FlushData(s, chunks[s], send[s], net)
      /\ UNCHANGED <<accepted, reader, dups, errors>>
  BY DEF SentNext
<1>2. /\ accepted[s] \in Nat /\ send[s].written \in Nat /\ send[s].maxSend \in Nat
      /\ flushing[s] \in Nat \cup {Idle} /\ WriterSound(s)
  BY WriterFields DEF IInv
<1>3. chunks[s] # <<>>
  BY <1>1, <1>2 DEF WriterSound, Idle
<1>4. entry \in Entries /\ chunks[s] = <<entry>> /\ entry.fin \in BOOLEAN
  BY <1>3, EntryWaiting
<1>5. /\ ~entry.fin /\ entry.next = send[s].written + 1 /\ entry.end = accepted[s]
      /\ send[s].written <= accepted[s] /\ ~localFIN[s]
      /\ flushing[s] = Min2(Payload, accepted[s] - send[s].written)
  BY <1>1, <1>2, <1>3 DEF WriterSound, Idle
<1> HIDE DEF entry
<1>6. send[s].written < accepted[s]
      /\ send[s].maxSend - send[s].written >= Min2(accepted[s] - send[s].written, Payload)
  BY <1>1, <1>2, <1>5 DEF Min2, WillBlocked
<1>7. Ready(s, entry, accepted[s])
  BY <1>4, <1>5, <1>6 DEF Ready
<1>8. Beside(s, accepted[s], net)
  BY <1>1, <1>2 DEF Beside, IInv, TypeOK
<1> QED
  BY <1>1, <1>4, <1>5, <1>6, <1>7, <1>8, OwnControl, FlushDataStep

\* When a piece has been sent: what is left of the chunk, ready to be flushed.
LEMMA ShiftedReady ==
  ASSUME IInv, NEW s \in Streams, flushing[s] # Idle
  PROVE  LET list == ShiftConsumed(chunks[s])
         IN /\ \/ list = <<>> /\ send[s].written = accepted[s]
               \/ \E entry : list = <<entry>> /\ Ready(s, entry, accepted[s]) /\ ~entry.fin
            /\ list = <<>> \/ ~Head(list).fin
<1> DEFINE entry == chunks[s][1]
           list == ShiftConsumed(chunks[s])
<1>2. accepted[s] \in Nat /\ send[s].written \in Nat /\ WriterSound(s)
  BY WriterFields DEF IInv
<1>3. chunks[s] # <<>>
  BY <1>2 DEF WriterSound
<1>4. /\ entry \in Entries /\ chunks[s] = <<entry>> /\ entry.fin \in BOOLEAN
      /\ Head(chunks[s]) = entry /\ Tail(chunks[s]) = <<>>
      /\ entry.next \in Nat /\ entry.end \in Nat
  BY <1>3, EntryWaiting
<1>5. list = IF entry.next > entry.end THEN <<>> ELSE <<entry>>
  BY <1>4 DEF ShiftConsumed, CheckConsumed
<1>6. \/ list = <<>> /\ send[s].written = accepted[s]
      \/ list = <<entry>> /\ Ready(s, entry, accepted[s]) /\ ~entry.fin
  <2>1. CASE entry.fin
    <3>1. entry.next = entry.end + 1 /\ send[s].written = accepted[s]
      BY <1>2, <1>3, <2>1 DEF WriterSound
    <3> QED
      BY <1>4, <1>5, <3>1
  <2>2. CASE ~entry.fin
    <3>1. /\ entry.next = send[s].written + 1 /\ entry.end = accepted[s]
          /\ send[s].written <= accepted[s] /\ ~localFIN[s]
      BY <1>2, <1>3, <2>2 DEF WriterSound
    <3>2. CASE entry.next > entry.end
      BY <1>2, <1>5, <3>1, <3>2
    <3>3. CASE ~(entry.next > entry.end)
      <4>1. send[s].written < accepted[s] /\ list = <<entry>>
        BY <1>2, <1>5, <3>1, <3>3
      <4> QED
        BY <1>4, <2>2, <3>1, <4>1 DEF Ready
    <3> QED
      BY <3>2, <3>3
  <2> QED
    BY <1>4, <2>1, <2>2
<1> HIDE DEF list, entry
<1>7. list = <<>> \/ ~Head(list).fin
  BY <1>4, <1>6
<1> QED
  BY <1>6, <1>7 DEF list

LEMMA SentLastStep ==
  ASSUME IInv, NEW s \in Streams, SentLast(s)
  PROVE  WriterStep(s) /\ localFIN' = localFIN
<1> DEFINE list == ShiftConsumed(chunks[s])
<1>1. /\ flushing[s] # Idle /\ TryFlush(s, list, send[s], net)
      /\ UNCHANGED <<accepted, reader, dups, errors>>
  BY DEF SentLast
<1>2. /\ \/ list = <<>> /\ send[s].written = accepted[s]
         \/ \E entry : list = <<entry>> /\ Ready(s, entry, accepted[s]) /\ ~entry.fin
      /\ list = <<>> \/ ~Head(list).fin
  BY <1>1, ShiftedReady
<1> HIDE DEF list
<1>3. Beside(s, accepted[s], net)
  BY <1>1, WriterFields DEF Beside, IInv, TypeOK
<1> QED
  BY <1>1, <1>2, <1>3, OwnControl, TryFlushStep

LEMMA SendFailsStep ==
  ASSUME IInv, NEW s \in Streams, SendFails(s)
  PROVE  WriterStep(s) /\ localFIN' = localFIN
<1> DEFINE list == ShiftConsumed(chunks[s])
<1>1. /\ flushing[s] # Idle /\ errors' = errors + 1
      /\ chunks' = [chunks EXCEPT ![s] = list] /\ flushing' = [flushing EXCEPT ![s] = Idle]
      /\ UNCHANGED <<accepted, localFIN, send, reader, net, dups>>
  BY DEF SendFails
<1>2. \/ list = <<>> /\ send[s].written = accepted[s]
      \/ \E entry : list = <<entry>> /\ Ready(s, entry, accepted[s]) /\ ~entry.fin
  BY <1>1, ShiftedReady
<1> HIDE DEF list
<1>3. Beside(s, accepted[s], net)
  BY <1>1, WriterFields DEF Beside, IInv, TypeOK
<1>4. send' = [send EXCEPT ![s] = send[s]] /\ net' = net /\ localFIN' = localFIN
  BY <1>1 DEF IInv, TypeOK
<1> QED
  BY <1>1, <1>2, <1>3, <1>4, OwnControl, WaitStep

\* A window update that is in flight grants no more than the reader has room for.
LEMMA ReceiveWindowUpdateStep ==
  ASSUME IInv, NEW f \in net, NEW rest, rest \subseteq net, ReceiveWindowUpdate(f, rest),
         dups' \in Nat, errors' \in Nat
  PROVE  f.stream \in Streams /\ WriterStep(f.stream) /\ localFIN' = localFIN
<1> DEFINE s == f.stream
           fc == UpdateMaxSendOffset(send[s], f.offset)
<1>1. f.type = "WINDOW_UPDATE" /\ UNCHANGED <<accepted, reader>>
  BY DEF ReceiveWindowUpdate
<1>2. s \in Streams /\ f.offset \in Nat /\ f.offset <= recv[s].maxReceive
  <2>1. f \in WindowUpdateFrames
    BY <1>1 DEF IInv, TypeOK, StreamFrames
  <2> QED
    BY <1>1, <2>1 DEF WindowUpdateFrames, IInv, FrameSound
<1>3. /\ accepted[s] \in Nat /\ send[s].written \in Nat /\ send[s].maxSend \in Nat
      /\ send[s] \in SendControls /\ recv[s].maxReceive \in Nat
      /\ send[s].maxSend <= recv[s].maxReceive
  BY <1>2, WriterFields DEF IInv, WindowRespected
<1>4. Control(s, fc)
  <2>1. fc = [send[s] EXCEPT !.maxSend = Max2(send[s].maxSend, f.offset)]
    BY DEF UpdateMaxSendOffset
  <2>2. /\ Max2(send[s].maxSend, f.offset) \in Nat
        /\ send[s].maxSend <= Max2(send[s].maxSend, f.offset)
        /\ Max2(send[s].maxSend, f.offset) <= recv[s].maxReceive
    BY <1>2, <1>3 DEF Max2
  <2> HIDE DEF fc
  <2>3. /\ fc \in SendControls /\ fc.written = send[s].written
        /\ fc.maxSend = Max2(send[s].maxSend, f.offset)
    BY <1>3, <2>1, <2>2 DEF SendControls
  <2> QED
    BY <2>2, <2>3 DEF Control
<1>5. Beside(s, accepted[s], rest)
  BY <1>1, <1>2, <1>3 DEF Beside, IInv, TypeOK
<1>6. CASE f.offset > send[s].maxSend /\ flushing[s] = Idle
  <2>1. TryFlush(s, chunks[s], fc, rest)
    BY <1>6 DEF ReceiveWindowUpdate
  <2> HIDE DEF fc
  <2>2. CASE chunks[s] = <<>>
    <3>1. send[s].written = accepted[s]
      BY <1>2, <2>2 DEF IInv, WriterSound
    <3> QED
      BY <1>2, <1>4, <1>5, <2>1, <2>2, <3>1, TryFlushStep
  <2>3. CASE chunks[s] # <<>>
    <3> DEFINE entry == chunks[s][1]
    <3>1. /\ entry \in Entries /\ chunks[s] = <<entry>> /\ Head(chunks[s]) = entry
          /\ entry.fin \in BOOLEAN
      BY <1>2, <2>3, EntryWaiting
    <3>2. WriterSound(s)
      BY <1>2 DEF IInv
    <3>3. ~entry.fin
      BY <1>6, <2>3, <3>1, <3>2 DEF WriterSound, Idle
    <3>4. /\ entry.next = send[s].written + 1 /\ entry.end = accepted[s]
          /\ send[s].written < accepted[s] /\ ~localFIN[s]
      BY <1>6, <2>3, <3>2, <3>3 DEF WriterSound
    <3> HIDE DEF entry
    <3>5. Ready(s, entry, accepted[s])
      BY <3>1, <3>3, <3>4 DEF Ready
    <3> QED
      BY <1>2, <1>4, <1>5, <2>1, <3>1, <3>3, <3>5, TryFlushStep
  <2> QED
    BY <2>2, <2>3
<1>7. CASE ~(f.offset > send[s].maxSend /\ flushing[s] = Idle)
  <2>1. /\ send' = [send EXCEPT ![s] = fc] /\ net' = rest
        /\ UNCHANGED <<chunks, flushing, localFIN>>
    BY <1>7 DEF ReceiveWindowUpdate
  <2> HIDE DEF fc
  <2>2. /\ fc \in SendControls /\ fc.written = send[s].written /\ fc.written \in Nat
        /\ fc.maxSend \in Nat /\ send[s].maxSend <= fc.maxSend /\ fc.maxSend <= recv[s].maxReceive
    BY <1>4 DEF Control, SendControls
  <2>3. send'[s] = fc
    BY <1>2, <2>1 DEF IInv, TypeOK
  <2>4. WriterChanges(s)
    BY <1>1, <1>2, <2>1, <2>2, <2>3 DEF WriterChanges, IInv, TypeOK
  <2>5. WriterSound(s)'
    <3>1. WriterSound(s)
      BY <1>2 DEF IInv
    <3>2. send'[s].written = send[s].written
      BY <2>2, <2>3
    <3> QED
      BY <1>1, <2>1, <3>1, <3>2 DEF WriterSound
  <2>6. send[s].written <= send[s].maxSend
    BY <1>2 DEF IInv, WindowRespected
  <2>7. /\ send[s].written <= send'[s].written /\ send'[s].written <= send'[s].maxSend
        /\ send'[s].maxSend <= recv[s].maxReceive
    BY <1>3, <2>2, <2>3, <2>6
  <2>8. net' \subseteq net
    BY <2>1
  <2>9. /\ accepted'[s] >= accepted[s] /\ accepted'[s] = accepted[s]
        /\ localFIN[s] => localFIN'[s]
    BY <1>1, <1>3, <2>1
  <2> QED
    BY <1>1, <1>2, <2>1, <2>4, <2>5, <2>7, <2>8, <2>9 DEF WriterStep
<1> QED
  BY <1>2, <1>6, <1>7

-----------------------------------------------------------------------------
(* The reader's end                                                        *)

\* What every step of the reader's end of s does: it reads on, and may grant more.
ReaderChanges(s) ==
  /\ seq' = [seq EXCEPT ![s] = seq'[s]] /\ seq'[s] \in Sequencers
  /\ recv' = [recv EXCEPT ![s] = recv'[s]] /\ recv'[s] \in ReceiveControls
  /\ remoteFIN' = [remoteFIN EXCEPT ![s] = remoteFIN'[s]] /\ remoteFIN'[s] \in BOOLEAN
  /\ ended' = [ended EXCEPT ![s] = ended'[s]] /\ ended'[s] \in BOOLEAN
  /\ destroyed' = [destroyed EXCEPT ![s] = destroyed'[s]] /\ destroyed'[s] \in BOOLEAN
  /\ output' = [output EXCEPT ![s] = output'[s]]

Granted(f, s) ==
  f \in WindowUpdateFrames /\ f.stream = s /\ f.offset <= recv'[s].maxReceive

ReaderStep(s) ==
  /\ ReaderChanges(s)
  /\ UNCHANGED writer
  /\ dups' \in Nat /\ errors' \in Nat
  /\ \A f \in net' : f \in net \/ Granted(f, s)
  /\ SequencerSound(s)' /\ OutputSound(s)' /\ GrantSound(s)' /\ PiecesSound(s)'
  /\ recv[s].maxReceive <= recv'[s].maxReceive /\ ~IsBlocked(recv'[s])
  /\ recv[s].consumed <= recv'[s].consumed
  /\ ended[s] => ended'[s]

\* The bytes up to the n-th.
LEMMA Counted ==
  ASSUME NEW n \in Nat
  PROVE  /\ [i \in 1..n |-> i] \in Seq(Nat) /\ Len([i \in 1..n |-> i]) = n
<1>1. [i \in 1..n |-> i] \in [1..n -> Nat]
  OBVIOUS
<1>2. [i \in 1..n |-> i] \in Seq(Nat)
  BY <1>1
<1>3. DOMAIN [i \in 1..n |-> i] = 1..n
  OBVIOUS
<1>4. Len([i \in 1..n |-> i]) \in Nat /\ 1..n = 1..Len([i \in 1..n |-> i])
  BY <1>2, <1>3, LenProperties
<1>5. Len([i \in 1..n |-> i]) = n
  <2> DEFINE m == Len([i \in 1..n |-> i])
  <2>1. m \in Nat /\ 1..n = 1..m
    BY <1>4
  <2> HIDE DEF m
  <2>2. n > 0 => n \in 1..m
    BY <2>1
  <2>3. m > 0 => m \in 1..n
    BY <2>1
  <2>4. n = m
    BY <2>1, <2>2, <2>3
  <2> QED
    BY <2>4 DEF m
<1> QED
  BY <1>2, <1>5

LEMMA CountedOn ==
  ASSUME NEW n \in Nat, NEW m \in Nat
  PROVE  [i \in 1..n |-> i] \o [i \in 1..m |-> n + i] = [i \in 1..n + m |-> i]
<1> DEFINE a == [i \in 1..n |-> i]
           b == [i \in 1..m |-> n + i]
           c == [i \in 1..n + m |-> i]
<1>1. a \in Seq(Nat) /\ Len(a) = n /\ c \in Seq(Nat) /\ Len(c) = n + m
  <2>1. n + m \in Nat
    OBVIOUS
  <2> QED
    BY <2>1, Counted
<1>2. b \in Seq(Nat) /\ Len(b) = m
  <2>1. \A i \in 1..m : n + i \in Nat
    OBVIOUS
  <2>2. b \in [1..m -> Nat]
    BY <2>1
  <2>3. b \in Seq(Nat) /\ DOMAIN b = 1..m
    BY <2>2
  <2> QED
    BY <2>3, LenProperties
<1>3. \A i \in 1..n : a[i] = i
  OBVIOUS
<1>4. \A i \in 1..m : b[i] = n + i
  OBVIOUS
<1>5. \A i \in 1..n + m : c[i] = i
  OBVIOUS
<1> HIDE DEF a, b, c
<1>6. /\ a \o b \in Seq(Nat) /\ Len(a \o b) = n + m
      /\ \A i \in 1..n + m : (a \o b)[i] = IF i <= n THEN a[i] ELSE b[i - n]
  BY <1>1, <1>2, ConcatProperties
<1>7. ASSUME NEW i \in 1..n + m
      PROVE  (a \o b)[i] = c[i]
  <2>1. CASE i <= n
    BY <1>3, <1>5, <1>6, <2>1
  <2>2. CASE ~(i <= n)
    <3>1. i - n \in 1..m /\ n + (i - n) = i
      BY <2>2
    <3> QED
      BY <1>4, <1>5, <1>6, <2>2, <3>1
  <2> QED
    BY <2>1, <2>2
<1>8. Len(a \o b) = Len(c)
  BY <1>1, <1>6
<1>9. a \o b = c
  BY <1>1, <1>6, <1>7, <1>8, SeqEqual
<1> QED
  BY <1>9 DEF a, b, c

\* A step of the reader's end keeps the invariant.
LEMMA ReaderKeeps ==
  ASSUME IInv, NEW s \in Streams, ReaderStep(s)
  PROVE  IInv'
<1>1. UNCHANGED <<accepted, chunks, flushing, localFIN, send>> /\ ReaderChanges(s)
  BY DEF ReaderStep, writer
<1>2. recv'[s] \in ReceiveControls /\ recv'[s].consumed \in Nat /\ recv'[s].maxReceive \in Nat
  BY <1>1 DEF ReaderChanges, ReceiveControls
<1>3. TypeOK'
  <2>1. /\ seq' \in [Streams -> Sequencers] /\ remoteFIN' \in [Streams -> BOOLEAN]
        /\ ended' \in [Streams -> BOOLEAN] /\ destroyed' \in [Streams -> BOOLEAN]
    BY <1>1 DEF ReaderChanges, IInv, TypeOK
  <2>2. recv' \in [Streams -> [maxReceive : Nat, window : Nat, consumed : Nat, highest : Nat]]
    BY <1>1 DEF ReaderChanges, ReceiveControls, IInv, TypeOK
  <2>3. output' \in [Streams -> Seq(Nat)]
    <3>1. output'[s] \in Seq(Nat)
      <4>1. output'[s] = [i \in 1..recv'[s].consumed |-> i]
        BY DEF ReaderStep, OutputSound
      <4> QED
        BY <1>2, <4>1, Counted
    <3> QED
      BY <1>1, <3>1 DEF ReaderChanges, IInv, TypeOK
  <2>4. net' \in SUBSET (StreamFrames \cup WindowUpdateFrames)
    BY DEF ReaderStep, Granted, IInv, TypeOK
  <2>5. dups' \in Nat /\ errors' \in Nat
    BY DEF ReaderStep
  <2> QED
    BY <1>1, <2>1, <2>2, <2>3, <2>4, <2>5 DEF IInv, TypeOK
<1>4. ASSUME NEW t \in Streams, t # s
      PROVE  /\ seq'[t] = seq[t] /\ recv'[t] = recv[t] /\ ended'[t] = ended[t]
             /\ destroyed'[t] = destroyed[t] /\ output'[t] = output[t]
  BY <1>1, <1>4 DEF ReaderChanges, IInv, TypeOK
<1>5. WindowRespected'
  <2>1. ASSUME NEW t \in Streams
        PROVE  /\ send[t].written <= send[t].maxSend /\ send[t].maxSend <= recv'[t].maxReceive
               /\ ~IsBlocked(recv'[t])
    <3>1. CASE t = s
      <4>1. send[s].maxSend \in Nat /\ recv[s].maxReceive \in Nat
        BY WriterFields
      <4> QED
        BY <1>2, <3>1, <4>1 DEF ReaderStep, IInv, WindowRespected
    <3>2. CASE t # s
      BY <1>4, <3>2 DEF IInv, WindowRespected
    <3> QED
      BY <3>1, <3>2
  <2> QED
    BY <1>1, <2>1 DEF WindowRespected
<1>6. ASSUME NEW f \in net'
      PROVE  FrameSound(f)'
  <2>1. CASE f \in net
    <3>1. FrameSound(f) /\ f \in StreamFrames \cup WindowUpdateFrames
      BY <2>1 DEF IInv, TypeOK
    <3>2. CASE f \in StreamFrames
      <4>1. f.type = "STREAM"
        BY <3>2 DEF StreamFrames
      <4> QED
        BY <1>1, <3>1, <4>1 DEF FrameSound
    <3>3. CASE f \in WindowUpdateFrames
      <4>1. f.type = "WINDOW_UPDATE" /\ f.stream \in Streams /\ f.offset \in Nat
        BY <3>3 DEF WindowUpdateFrames
      <4>2. f.offset <= recv[f.stream].maxReceive /\ recv[f.stream].maxReceive \in Nat
        BY <3>1, <4>1, WriterFields DEF FrameSound
      <4>3. f.offset <= recv'[f.stream].maxReceive
        <5>1. CASE f.stream = s
          BY <1>2, <4>1, <4>2, <5>1 DEF ReaderStep
        <5>2. CASE f.stream # s
          BY <1>4, <4>1, <4>2, <5>2
        <5> QED
          BY <5>1, <5>2
      <4> QED
        BY <4>1, <4>3 DEF FrameSound
    <3> QED
      BY <3>1, <3>2, <3>3
  <2>2. CASE Granted(f, s)
    <3>1. f.type = "WINDOW_UPDATE" /\ f.stream = s /\ f.offset <= recv'[s].maxReceive
      BY <2>2 DEF Granted, WindowUpdateFrames
    <3> QED
      BY <3>1 DEF FrameSound
  <2> QED
    BY <2>1, <2>2 DEF ReaderStep
<1>7. ASSUME NEW t \in Streams
      PROVE  WriterSound(t)'
  BY <1>1 DEF IInv, WriterSound
<1>8. ASSUME NEW t \in Streams
      PROVE  SequencerSound(t)' /\ OutputSound(t)' /\ GrantSound(t)' /\ PiecesSound(t)'
  <2>1. CASE t = s
    BY <2>1 DEF ReaderStep
  <2>2. CASE t # s
    <3>1. SequencerSound(t)'
      BY <1>1, <1>4, <2>2 DEF IInv, SequencerSound
    <3>2. GrantSound(t)'
      BY <1>4, <2>2 DEF IInv, GrantSound
    <3>3. OutputSound(t)'
      <4>1. output'[t] = [i \in 1..recv'[t].consumed |-> i]
        BY <1>4, <2>2 DEF IInv, OutputSound
      <4>2. recv'[t].consumed <= send'[t].written
        <5>1. recv[t].consumed <= send[t].written
          BY DEF IInv, OutputSound
        <5> QED
          BY <1>1, <1>4, <2>2, <5>1
      <4>3. ended'[t] => localFIN'[t] /\ recv'[t].consumed = accepted'[t]
        BY <1>1, <1>4, <2>2 DEF IInv, OutputSound
      <4> QED
        BY <4>1, <4>2, <4>3 DEF OutputSound
    <3>4. PiecesSound(t)'
      <4>1. ASSUME NEW p \in Pieces(t)'
            PROVE  p \in Pieces(t)
        <5>1. \A f \in net' : f.type = "STREAM" => f \in net
          BY DEF ReaderStep, Granted, WindowUpdateFrames
        <5>2. seq'[t] = seq[t]
          BY <1>4, <2>2
        <5> QED
          BY <5>1, <5>2 DEF Pieces
      <4>2. PiecesSound(t) /\ recv'[t] = recv[t]
        BY <1>4, <2>2 DEF IInv
      <4> QED
        BY <4>1, <4>2 DEF PiecesSound
    <3> QED
      BY <3>1, <3>2, <3>3, <3>4
  <2> QED
    BY <2>1, <2>2
<1> QED
  BY <1>3, <1>5, <1>6, <1>7, <1>8 DEF IInv

\* A sequencer that s may have while a frame is handled: its entries are pieces of s.
Holds(s, q) ==
  /\ q \in Sequencers /\ Sound(q) /\ q.consumed = recv[s].consumed
  /\ \A i \in DOMAIN q.list : [offset |-> q.list[i].offset, len |-> q.list[i].len] \in Pieces(s)
  /\ q.final # -1 => localFIN[s] /\ q.final = accepted[s]

\* The entries of q were written.
LEMMA HeldWritten ==
  ASSUME IInv, NEW s \in Streams, NEW q, Holds(s, q), NEW i \in DOMAIN q.list
  PROVE  End(q.list[i]) <= send[s].written
<1> DEFINE p == [offset |-> q.list[i].offset, len |-> q.list[i].len]
<1>1. p \in Pieces(s)
  BY DEF Holds
<1>2. End(p) = End(q.list[i])
  BY DEF End
<1> HIDE DEF p
<1> QED
  BY <1>1, <1>2, PiecesWritten

\* What was read with k entries was written, and every piece lies above or below it.
LEMMA ReadPieces ==
  ASSUME IInv, NEW s \in Streams, NEW q, Holds(s, q), NEW k \in Nat, Readable(q, k)
  PROVE  LET top == q.consumed + Size(q, k)
         IN /\ top \in Nat /\ recv[s].consumed <= top /\ top <= send[s].written
            /\ \A p \in Pieces(s) : p.offset >= top \/ End(p) <= top
<1> DEFINE top == q.consumed + Size(q, k)
<1>1. /\ q \in Sequencers /\ Sound(q) /\ q.consumed = recv[s].consumed
      /\ q.consumed \in Nat /\ Size(q, k) \in Nat /\ k \in 0..Len(q.list)
      /\ k > 0 => top = End(q.list[k])
  BY SequencerFields, ReadableSize DEF Holds
<1>2. PiecesSound(s) /\ recv[s].consumed <= send[s].written /\ send[s].written \in Nat
  BY WriterFields DEF IInv, OutputSound
<1>3. CASE k = 0
  <2>1. top = recv[s].consumed
    BY <1>1, <1>3 DEF Size
  <2> HIDE DEF top
  <2> QED
    BY <1>1, <1>2, <2>1 DEF PiecesSound, top
<1>4. CASE k > 0
  <2> DEFINE last == [offset |-> q.list[k].offset, len |-> q.list[k].len]
  <2>1. k \in DOMAIN q.list
    BY <1>1, <1>4, SequencerFields
  <2>2. last \in Pieces(s) /\ End(last) = End(q.list[k])
    BY <2>1 DEF Holds, End
  <2>3. top = End(last) /\ top \in Nat /\ recv[s].consumed <= top
    BY <1>1, <1>4, <2>2
  <2> HIDE DEF top, last
  <2>4. last.offset <= top /\ last.offset \in Nat /\ top <= send[s].written
    BY <2>2, <2>3, PiecesWritten
  <2>5. ASSUME NEW p \in Pieces(s)
        PROVE  p.offset >= top \/ End(p) <= top
    <3>1. p.offset \in Nat /\ End(p) \in Nat
      BY PiecesWritten
    <3>2. p = last \/ End(p) <= last.offset \/ End(last) <= p.offset
      BY <1>2, <2>2 DEF PiecesSound
    <3> QED
      BY <2>3, <2>4, <3>1, <3>2
  <2> QED
    BY <2>3, <2>4, <2>5 DEF top
<1> QED
  BY <1>1, <1>3, <1>4

\* What is left in the sequencer fits into the window.
LEMMA ReadFits ==
  ASSUME IInv, NEW s \in Streams, NEW q, Holds(s, q), NEW k \in Nat, Readable(q, k)
  PROVE  AfterRead(q, k).byteLen \in Nat /\ AfterRead(q, k).byteLen <= WindowLimit
<1> DEFINE r == AfterRead(q, k)
           top == q.consumed + Size(q, k)
           room == top..send[s].written - 1
<1>1. q \in Sequencers /\ Sound(q)
  BY DEF Holds
<1>2. /\ r \in Sequencers /\ Sound(r) /\ r.consumed = top
      /\ \A i \in DOMAIN r.list : i + k \in DOMAIN q.list /\ r.list[i] = q.list[i + k]
  BY <1>1, ReadSound
<1>3. top \in Nat /\ recv[s].consumed <= top /\ top <= send[s].written
  BY ReadPieces
<1> HIDE DEF r, top
<1>4. send[s].written \in Nat /\ recv[s].consumed \in Nat
  BY WriterFields
<1>5. ASSUME NEW b \in Held(r)
      PROVE  b \in room
  <2>1. PICK i \in DOMAIN r.list : b \in Span(r.list[i])
    BY DEF Held
  <2>2. /\ r.list[i].offset \in Nat /\ End(r.list[i]) \in Nat /\ r.list[i].offset >= top
    BY <1>2, SequencerFields DEF Sound
  <2>3. End(r.list[i]) <= send[s].written
    BY <1>2, HeldWritten
  <2> QED
    BY <1>3, <1>4, <2>1, <2>2, <2>3 DEF Span
<1>6. IsFiniteSet(room) /\ Cardinality(room) = send[s].written - top
  <2>1. top \in Int /\ send[s].written - 1 \in Int
    BY <1>3, <1>4
  <2>2. IsFiniteSet(room)
        /\ Cardinality(room) = IF top > send[s].written - 1 THEN 0 ELSE (send[s].written - 1) - top + 1
    BY <2>1, FS_Interval
  <2> QED
    BY <1>3, <1>4, <2>2
<1>7. Cardinality(Held(r)) <= send[s].written - top
  <2> HIDE DEF room
  <2>1. Held(r) \in SUBSET room
    BY <1>5
  <2> QED
    BY <1>6, <2>1, FS_Subset
<1>8. r.byteLen = Cardinality(Held(r)) /\ r.byteLen \in Nat
  BY <1>2, SequencerFields DEF Sound
<1>9. send[s].written - top <= WindowLimit
  <2>1. /\ send[s].written <= send[s].maxSend /\ send[s].maxSend <= recv[s].maxReceive
        /\ recv[s].maxReceive <= recv[s].consumed + recv[s].window /\ recv[s].window <= WindowLimit
    BY DEF IInv, WindowRespected, GrantSound
  <2>2. send[s].maxSend \in Nat /\ recv[s].maxReceive \in Nat /\ recv[s].window \in Nat
    BY WriterFields
  <2> QED
    BY <1>3, <1>4, <2>1, <2>2
<1> QED
  BY <1>3, <1>4, <1>7, <1>8, <1>9 DEF r

\* What the reader's control becomes when consumedOffset reaches top.
LEMMA TunedGrant ==
  ASSUME NEW fc \in ReceiveControls, NEW w \in TunedWindows(fc), ShouldUpdateWindow(fc),
         fc.window <= WindowLimit
  PROVE  LET updated == UpdateWindowOffset(fc, w)
         IN /\ updated \in ReceiveControls /\ updated.consumed = fc.consumed
            /\ updated.highest = fc.highest
            /\ fc.maxReceive <= updated.maxReceive
            /\ updated.maxReceive = fc.consumed + updated.window /\ updated.window <= WindowLimit
<1>1. /\ fc.maxReceive \in Nat /\ fc.window \in Nat /\ fc.consumed \in Nat /\ fc.highest \in Nat
  BY DEF ReceiveControls
<1>2. w \in Nat /\ fc.window <= w /\ w <= WindowLimit
  <2>1. w = fc.window \/ w = Min2(2 * fc.window, WindowLimit)
    BY DEF TunedWindows
  <2> QED
    BY <1>1, <2>1 DEF Min2
<1>3. fc.maxReceive <= fc.consumed + w
  BY <1>1, <1>2 DEF ShouldUpdateWindow
<1>4. fc.consumed + w \in Nat
  BY <1>1, <1>2
<1> QED
  BY <1>1, <1>2, <1>3, <1>4 DEF UpdateWindowOffset, ReceiveControls

LEMMA ReadStep ==
  ASSUME IInv, NEW s \in Streams, ~destroyed[s], NEW q, Holds(s, q),
         NEW k \in Nat, Readable(q, k),
         NEW fc \in ReceiveControls, fc.maxReceive = recv[s].maxReceive,
         fc.window = recv[s].window, fc.consumed = recv[s].consumed, fc.highest <= fc.maxReceive,
         NEW fin, NEW rest, rest \subseteq net,
         Read(s, q, fc, fin, k, rest),
         seq' = [seq EXCEPT ![s] = seq'[s]],
         seq'[s] = IF destroyed'[s] THEN NewSequencer ELSE AfterRead(q, k),
         destroyed' = [destroyed EXCEPT ![s] = destroyed'[s]], destroyed'[s] \in BOOLEAN,
         remoteFIN' = [remoteFIN EXCEPT ![s] = remoteFIN'[s]], remoteFIN'[s] \in BOOLEAN,
         UNCHANGED writer, dups' \in Nat, errors' \in Nat
  PROVE  ReaderStep(s)
<1> DEFINE r == AfterRead(q, k)
           top == q.consumed + Size(q, k)
           now == UpdateConsumedOffset(fc, r.consumed)
<1>1. /\ q \in Sequencers /\ Sound(q) /\ q.consumed = recv[s].consumed /\ q.consumed \in Nat
      /\ Size(q, k) \in Nat
  BY SequencerFields, ReadableSize DEF Holds
<1>2. /\ r \in Sequencers /\ Sound(r) /\ r.consumed = top /\ r.final = q.final
      /\ \A i \in DOMAIN r.list : i + k \in DOMAIN q.list /\ r.list[i] = q.list[i + k]
  BY <1>1, ReadSound
<1>3. /\ top \in Nat /\ recv[s].consumed <= top /\ top <= send[s].written
      /\ \A p \in Pieces(s) : p.offset >= top \/ End(p) <= top
  BY ReadPieces
<1>4. /\ fc.maxReceive \in Nat /\ fc.window \in Nat /\ fc.consumed \in Nat /\ fc.highest \in Nat
      /\ send[s].written \in Nat
      /\ recv[s].maxReceive <= recv[s].consumed + recv[s].window /\ recv[s].window <= WindowLimit
  BY WriterFields DEF ReceiveControls, IInv, GrantSound
<1>5. /\ now \in ReceiveControls /\ now.consumed = top /\ now.maxReceive = fc.maxReceive
      /\ now.window = fc.window /\ now.highest = fc.highest
  <2>1. now = [fc EXCEPT !.consumed = Max2(fc.consumed, r.consumed)]
    BY DEF UpdateConsumedOffset
  <2>2. Max2(fc.consumed, r.consumed) = top
    BY <1>1, <1>2, <1>3, <1>4 DEF Max2
  <2> HIDE DEF r, top, now
  <2> QED
    BY <1>3, <2>1, <2>2 DEF ReceiveControls
<1>6. /\ output' = [output EXCEPT ![s] = output[s] \o DataOf(q, k)]
      /\ ended' = [ended EXCEPT ![s] = ended[s] \/ IsFIN(r)]
      /\ \/ recv' = [recv EXCEPT ![s] = now] /\ net' = rest
         \/ \E w \in TunedWindows(now) :
              LET updated == UpdateWindowOffset(now, w)
              IN /\ ShouldUpdateWindow(now)
                 /\ recv' = [recv EXCEPT ![s] = updated]
                 /\ net' = rest \cup {WindowUpdateFrame(s, updated.maxReceive)}
  BY DEF Read
<1> HIDE DEF r, now
<1>7. /\ recv' = [recv EXCEPT ![s] = recv'[s]] /\ recv'[s] \in ReceiveControls
      /\ recv'[s].consumed = top /\ recv'[s].highest = fc.highest
      /\ recv[s].maxReceive <= recv'[s].maxReceive
      /\ recv'[s].maxReceive <= top + recv'[s].window /\ recv'[s].window <= WindowLimit
      /\ \A f \in net' : f \in net \/ Granted(f, s)
  <2>1. CASE recv' = [recv EXCEPT ![s] = now] /\ net' = rest
    <3>1. recv'[s] = now
      BY <2>1 DEF IInv, TypeOK
    <3> HIDE DEF top
    <3>2. recv[s].maxReceive <= top + recv[s].window /\ recv[s].maxReceive <= recv[s].maxReceive
      BY <1>1, <1>3, <1>4
    <3> QED
      BY <1>4, <1>5, <2>1, <3>1, <3>2
  <2>2. CASE \E w \in TunedWindows(now) :
              LET updated == UpdateWindowOffset(now, w)
              IN /\ ShouldUpdateWindow(now)
                 /\ recv' = [recv EXCEPT ![s] = updated]
                 /\ net' = rest \cup {WindowUpdateFrame(s, updated.maxReceive)}
    <3>1. PICK w \in TunedWindows(now) :
              /\ ShouldUpdateWindow(now)
              /\ recv' = [recv EXCEPT ![s] = UpdateWindowOffset(now, w)]
              /\ net' = rest \cup {WindowUpdateFrame(s, UpdateWindowOffset(now, w).maxReceive)}
      BY <2>2
    <3> DEFINE updated == UpdateWindowOffset(now, w)
    <3>2. /\ updated \in ReceiveControls /\ updated.consumed = now.consumed
          /\ updated.highest = now.highest /\ now.maxReceive <= updated.maxReceive
          /\ updated.maxReceive = now.consumed + updated.window /\ updated.window <= WindowLimit
      BY <1>4, <1>5, <3>1, TunedGrant
    <3> HIDE DEF updated
    <3>3. recv'[s] = updated
      BY <3>1 DEF IInv, TypeOK, updated
    <3>4. /\ updated.maxReceive \in Nat /\ updated.maxReceive <= updated.maxReceive
      BY <3>2 DEF ReceiveControls
    <3>5. Granted(WindowUpdateFrame(s, updated.maxReceive), s)
      BY <3>3, <3>4 DEF Granted, WindowUpdateFrame, WindowUpdateFrames
    <3>6. \A f \in net' : f \in net \/ Granted(f, s)
      BY <3>1, <3>5 DEF updated
    <3> HIDE DEF top
    <3> QED
      BY <1>4, <1>5, <3>1, <3>2, <3>3, <3>4, <3>6 DEF updated
  <2> QED
    BY <1>6, <2>1, <2>2
<1> HIDE DEF top
<1>8. seq'[s] = IF destroyed'[s] THEN NewSequencer ELSE r
  BY DEF r
<1>9. NewSequencer \in Sequencers /\ Sound(NewSequencer) /\ NewSequencer.list = <<>>
      /\ NewSequencer.final = -1
  <2>1. NewSequencer \in Sequencers
    BY EmptySeq DEF NewSequencer, Sequencers
  <2>2. NewSequencer.list = <<>> /\ DOMAIN <<>> = {}
    BY DEF NewSequencer
  <2>3. Held(NewSequencer) = {} /\ NewSequencer.byteLen = 0
    BY <2>2 DEF Held, NewSequencer
  <2>4. Sound(NewSequencer)
    BY <2>2, <2>3, FS_EmptySet DEF Sound
  <2> QED
    BY <2>1, <2>2, <2>4 DEF NewSequencer
<1>10. ASSUME NEW i \in DOMAIN seq'[s].list
       PROVE  /\ [offset |-> seq'[s].list[i].offset, len |-> seq'[s].list[i].len] \in Pieces(s)
              /\ End(seq'[s].list[i]) <= send[s].written
  <2>1. ~destroyed'[s]
    <3>1. DOMAIN <<>> = {}
      OBVIOUS
    <3> QED
      BY <1>8, <1>9, <3>1
  <2>2. i + k \in DOMAIN q.list /\ seq'[s].list[i] = q.list[i + k]
    BY <1>2, <1>8, <2>1
  <2>3. /\ [offset |-> q.list[i + k].offset, len |-> q.list[i + k].len] \in Pieces(s)
        /\ End(q.list[i + k]) <= send[s].written
    BY <2>2, HeldWritten DEF Holds
  <2> QED
    BY <2>2, <2>3
<1>11. SequencerSound(s)'
  <2>1. Sound(seq'[s]) /\ (IF destroyed'[s] THEN seq'[s] = NewSequencer ELSE seq'[s].consumed = recv'[s].consumed)
    BY <1>2, <1>7, <1>8, <1>9
  <2>2. seq'[s].final # -1 => localFIN[s] /\ seq'[s].final = accepted[s]
    BY <1>2, <1>8, <1>9 DEF Holds
  <2> QED
    BY <1>8, <1>10, <2>1, <2>2 DEF SequencerSound, writer
<1>12. OutputSound(s)'
  <2>1. output'[s] = [i \in 1..top |-> i]
    <3>1. output[s] = [i \in 1..q.consumed |-> i]
      BY <1>1 DEF IInv, OutputSound
    <3>2. DataOf(q, k) = [i \in 1..Size(q, k) |-> q.consumed + i]
      BY <1>1, ReadData
    <3>3. output'[s] = output[s] \o DataOf(q, k)
      BY <1>6 DEF IInv, TypeOK
    <3>4. [i \in 1..q.consumed |-> i] \o [i \in 1..Size(q, k) |-> q.consumed + i] = [i \in 1..top |-> i]
      BY <1>1, CountedOn DEF top
    <3> QED
      BY <3>1, <3>2, <3>3, <3>4
  <2>2. ASSUME ended'[s]
        PROVE  localFIN[s] /\ top = accepted[s]
    <3>1. ended[s] \/ IsFIN(r)
      BY <1>6, <2>2 DEF IInv, TypeOK
    <3>2. CASE IsFIN(r)
      <4>1. top = q.final
        BY <1>2, <3>2 DEF IsFIN
      <4>2. q.final # -1
        BY <1>3, <4>1
      <4> QED
        BY <4>1, <4>2 DEF Holds
    <3>3. CASE ended[s]
      <4>1. localFIN[s] /\ recv[s].consumed = accepted[s]
        BY <3>3 DEF IInv, OutputSound
      <4>2. send[s].written <= accepted[s] /\ accepted[s] \in Nat
        <5>1. /\ accepted[s] \in Nat /\ WriterSound(s) /\ localFIN[s] \in BOOLEAN
          BY WriterFields DEF IInv
        <5>2. chunks[s] # <<>> => chunks[s][1].fin
          BY <4>1, <5>1 DEF WriterSound
        <5> QED
          BY <4>1, <5>1, <5>2 DEF WriterSound
      <4> QED
        BY <1>3, <1>4, <4>1, <4>2
    <3> QED
      BY <3>1, <3>2, <3>3
  <2>3. output'[s] = [i \in 1..recv'[s].consumed |-> i]
    BY <1>7, <2>1
  <2>4. recv'[s].consumed <= send'[s].written
    BY <1>3, <1>7 DEF writer
  <2>5. ended'[s] => localFIN'[s] /\ recv'[s].consumed = accepted'[s]
    BY <1>7, <2>2 DEF writer
  <2> QED
    BY <2>3, <2>4, <2>5 DEF OutputSound
<1>13. GrantSound(s)'
  BY <1>7 DEF GrantSound
<1>14. PiecesSound(s)'
  <2>1. ASSUME NEW p \in Pieces(s)'
        PROVE  p \in Pieces(s)
    <3>1. \A f \in net' : f.type = "STREAM" => f \in net
      BY <1>7 DEF Granted, WindowUpdateFrames
    <3>2. CASE \E f \in net' : f.type = "STREAM" /\ f.stream = s /\ f.len > 0
                               /\ p = [offset |-> f.offset, len |-> f.len]
      BY <3>1, <3>2 DEF Pieces
    <3>3. CASE \E i \in DOMAIN seq'[s].list :
                 p = [offset |-> seq'[s].list[i].offset, len |-> seq'[s].list[i].len]
      BY <1>10, <3>3
    <3> QED
      BY <3>2, <3>3 DEF Pieces
  <2>2. PiecesSound(s)
    BY DEF IInv
  <2> QED
    BY <1>3, <1>7, <2>1, <2>2 DEF PiecesSound
<1>15. ~IsBlocked(recv'[s])
  <2>1. recv'[s].maxReceive \in Nat
    BY <1>7 DEF ReceiveControls
  <2> QED
    BY <1>4, <1>7, <2>1 DEF IsBlocked
<1>16. ReaderChanges(s)
  <2>1. seq'[s] \in Sequencers /\ seq' = [seq EXCEPT ![s] = seq'[s]]
    BY <1>2, <1>8, <1>9
  <2>2. ended'[s] \in BOOLEAN /\ ended' = [ended EXCEPT ![s] = ended'[s]]
    BY <1>6 DEF IInv, TypeOK, IsFIN
  <2>3. output' = [output EXCEPT ![s] = output'[s]]
    BY <1>6 DEF IInv, TypeOK
  <2>4. destroyed'[s] \in BOOLEAN /\ destroyed' = [destroyed EXCEPT ![s] = destroyed'[s]]
    OBVIOUS
  <2> QED
    BY <1>7, <2>1, <2>2, <2>3, <2>4 DEF ReaderChanges
<1>17. ended[s] => ended'[s]
  BY <1>6 DEF IInv, TypeOK
<1>18. recv[s].consumed <= recv'[s].consumed
  BY <1>3, <1>7
<1> QED
  BY <1>7, <1>11, <1>12, <1>13, <1>14, <1>15, <1>16, <1>17, <1>18 DEF ReaderStep

\* The sequencer of a stream that was not destroyed holds pieces of the stream.
LEMMA OwnSequencer ==
  ASSUME IInv, NEW s \in Streams, ~destroyed[s]
  PROVE  Holds(s, seq[s])
<1>1. seq[s] \in Sequencers /\ SequencerSound(s)
  BY WriterFields DEF IInv
<1>2. \A i \in DOMAIN seq[s].list :
        [offset |-> seq[s].list[i].offset, len |-> seq[s].list[i].len] \in Pieces(s)
  BY DEF Pieces
<1> QED
  BY <1>1, <1>2 DEF SequencerSound, Holds

\* Asked for more, the stream reads on.
LEMMA ReadMoreStep ==
  ASSUME IInv, NEW s \in Streams, ReadMore(s)
  PROVE  ReaderStep(s) /\ (destroyed' = destroyed)
<1>1. PICK k \in 1..Len(seq[s].list) :
        /\ ~destroyed[s] /\ Readable(seq[s], k)
        /\ Read(s, seq[s], recv[s], remoteFIN[s], k, net)
        /\ seq' = [seq EXCEPT ![s] = AfterRead(seq[s], k)]
        /\ UNCHANGED <<writer, remoteFIN, destroyed, dups, errors>>
  BY DEF ReadMore
<1>2. Holds(s, seq[s])
  BY <1>1, OwnSequencer
<1>3. /\ recv[s] \in ReceiveControls /\ recv[s].highest <= recv[s].maxReceive
      /\ remoteFIN[s] \in BOOLEAN /\ dups \in Nat /\ errors \in Nat
  <2>1. recv[s].highest \in Nat /\ recv[s].maxReceive \in Nat /\ ~IsBlocked(recv[s])
    BY WriterFields DEF IInv, WindowRespected
  <2> QED
    <3>1. recv[s].highest <= recv[s].maxReceive
      BY <2>1 DEF IsBlocked
    <3>2. dups \in Nat /\ errors \in Nat
      BY DEF IInv, TypeOK
    <3> QED
      BY <3>1, <3>2, WriterFields
<1>4. /\ destroyed' = [destroyed EXCEPT ![s] = destroyed'[s]] /\ destroyed'[s] \in BOOLEAN
      /\ remoteFIN' = [remoteFIN EXCEPT ![s] = remoteFIN'[s]] /\ remoteFIN'[s] \in BOOLEAN
      /\ seq' = [seq EXCEPT ![s] = seq'[s]]
      /\ seq'[s] = IF destroyed'[s] THEN NewSequencer ELSE AfterRead(seq[s], k)
      /\ UNCHANGED writer /\ dups' \in Nat /\ errors' \in Nat
  BY <1>1, <1>3 DEF IInv, TypeOK
<1>5. k \in Nat /\ net \subseteq net
  OBVIOUS
<1>6. ReaderStep(s)
  BY <1>1, <1>2, <1>3, <1>4, <1>5, ReadStep
<1> QED
  BY <1>1, <1>6

\* The sequencer when at most the end of the stream has been noted.
Noted(s, q) ==
  \/ q = seq[s]
  \/ ~destroyed[s] /\ Holds(s, q) /\ q.list = seq[s].list

\* A frame of which nothing is taken over but its end and how far it reaches.
LEMMA NotedStep ==
  ASSUME IInv, NEW s \in Streams, NEW q, NEW fc \in ReceiveControls,
         Noted(s, q),
         fc.maxReceive = recv[s].maxReceive, fc.window = recv[s].window,
         fc.consumed = recv[s].consumed, fc.highest <= fc.maxReceive,
         seq' = [seq EXCEPT ![s] = q], recv' = [recv EXCEPT ![s] = fc],
         remoteFIN' = [remoteFIN EXCEPT ![s] = remoteFIN'[s]], remoteFIN'[s] \in BOOLEAN,
         UNCHANGED <<ended, destroyed, output, writer>>, net' \subseteq net,
         dups' \in Nat, errors' \in Nat
  PROVE  ReaderStep(s)
<1>1. seq'[s] = q /\ recv'[s] = fc
  BY DEF IInv, TypeOK
<1>2. /\ seq[s] \in Sequencers /\ SequencerSound(s) /\ fc.maxReceive \in Nat /\ fc.consumed \in Nat
      /\ fc.highest \in Nat /\ ended[s] \in BOOLEAN /\ destroyed[s] \in BOOLEAN
      /\ PiecesSound(s) /\ OutputSound(s) /\ GrantSound(s)
  BY WriterFields DEF IInv, ReceiveControls
<1>3. q \in Sequencers /\ q.list = seq[s].list
  BY <1>2 DEF Noted, Holds
<1>4. SequencerSound(s)'
  <2>1. CASE q = seq[s]
    BY <1>1, <1>2, <2>1 DEF SequencerSound, writer
  <2>2. CASE ~destroyed[s] /\ Holds(s, q) /\ q.list = seq[s].list
    BY <1>1, <1>2, <2>2 DEF SequencerSound, Holds, writer
  <2> QED
    BY <2>1, <2>2 DEF Noted
<1>5. OutputSound(s)'
  <2>1. output'[s] = [i \in 1..recv'[s].consumed |-> i]
    BY <1>1, <1>2 DEF OutputSound
  <2>2. recv'[s].consumed <= send'[s].written
    BY <1>1, <1>2 DEF OutputSound, writer
  <2>3. ended'[s] => localFIN'[s] /\ recv'[s].consumed = accepted'[s]
    BY <1>1, <1>2 DEF OutputSound, writer
  <2> QED
    BY <2>1, <2>2, <2>3 DEF OutputSound
<1>6. GrantSound(s)'
  BY <1>1, <1>2 DEF GrantSound
<1>7. PiecesSound(s)'
  <2>1. ASSUME NEW p \in Pieces(s)'
        PROVE  p \in Pieces(s)
    BY <1>1, <1>3 DEF Pieces
  <2> QED
    BY <1>1, <1>2, <2>1 DEF PiecesSound
<1>8. ReaderChanges(s)
  <2>1. seq' = [seq EXCEPT ![s] = seq'[s]] /\ recv' = [recv EXCEPT ![s] = recv'[s]]
    BY <1>1
  <2>2. /\ ended' = [ended EXCEPT ![s] = ended'[s]] /\ destroyed' = [destroyed EXCEPT ![s] = destroyed'[s]]
        /\ output' = [output EXCEPT ![s] = output'[s]]
    BY DEF IInv, TypeOK
  <2> QED
    BY <1>1, <1>2, <1>3, <2>1, <2>2 DEF ReaderChanges
<1>9. ~IsBlocked(recv'[s])
  BY <1>1, <1>2 DEF IsBlocked
<1>10. /\ recv[s].maxReceive <= recv'[s].maxReceive /\ recv[s].consumed <= recv'[s].consumed
       /\ ended[s] => ended'[s]
  BY <1>1, <1>2
<1> QED
  BY <1>4, <1>5, <1>6, <1>7, <1>8, <1>9, <1>10 DEF ReaderStep

\* A frame arrives, in its turn or not, for the first time or not.
LEMMA ReceiveStreamStep ==
  ASSUME IInv, NEW f \in net, NEW rest, rest \subseteq net, ReceiveStream(f, rest),
         dups' \in Nat, errors' \in Nat
  PROVE  /\ f.stream \in Streams /\ ReaderStep(f.stream)
         /\ WindowLimit <= CacheLimit /\ ~destroyed[f.stream] => ~destroyed'[f.stream]
<1> DEFINE s == f.stream
           fc == UpdateHighestReceived(recv[s], f.offset + f.len)
           noted == IF f.fin THEN [seq[s] EXCEPT !.final = f.offset + f.len] ELSE seq[s]
           e == [offset |-> f.offset, first |-> f.first, len |-> f.len]
           q == IF f.len > 0 THEN Push(noted, e) ELSE noted
           k == IF Readable(q, 1) THEN 1 ELSE 0
           full == AfterRead(q, k).byteLen > CacheLimit
<1>1. /\ f \in StreamFrames /\ s \in Streams /\ f.offset \in Nat /\ f.len \in Nat /\ f.first \in Nat
      /\ f.fin \in BOOLEAN /\ f.type = "STREAM"
  <2>1. f.type = "STREAM" /\ f \in StreamFrames \cup WindowUpdateFrames
    BY DEF ReceiveStream, IInv, TypeOK
  <2>2. f \in StreamFrames
    BY <2>1 DEF WindowUpdateFrames
  <2> QED
    BY <2>1, <2>2 DEF StreamFrames
<1>2. /\ f.offset + f.len <= send[s].written
      /\ f.len > 0 => f.first = f.offset + 1
      /\ f.fin => localFIN[s] /\ f.offset + f.len = accepted[s]
  BY <1>1 DEF IInv, FrameSound
<1>3. /\ recv[s] \in ReceiveControls /\ recv[s].maxReceive \in Nat /\ recv[s].highest \in Nat
      /\ recv[s].consumed \in Nat
      /\ seq[s] \in Sequencers /\ send[s].written \in Nat /\ send[s].maxSend \in Nat
      /\ destroyed[s] \in BOOLEAN /\ remoteFIN[s] \in BOOLEAN
      /\ send[s].written <= send[s].maxSend /\ send[s].maxSend <= recv[s].maxReceive
      /\ recv[s].highest <= recv[s].maxReceive
  <2>1. ~IsBlocked(recv[s]) /\ send[s].written <= send[s].maxSend /\ send[s].maxSend <= recv[s].maxReceive
    BY <1>1 DEF IInv, WindowRespected
  <2>2. recv[s].maxReceive \in Nat /\ recv[s].highest \in Nat
    BY <1>1, WriterFields
  <2> QED
    BY <1>1, <2>1, <2>2, WriterFields DEF IsBlocked
<1>4. /\ fc \in ReceiveControls /\ fc.maxReceive = recv[s].maxReceive /\ fc.window = recv[s].window
      /\ fc.consumed = recv[s].consumed /\ fc.highest <= fc.maxReceive /\ ~IsBlocked(fc)
  <2> DEFINE h == Max2(recv[s].highest, f.offset + f.len)
  <2>1. h \in Nat /\ h <= recv[s].maxReceive
    BY <1>1, <1>2, <1>3 DEF Max2
  <2>2. fc = [recv[s] EXCEPT !.highest = h]
    BY DEF UpdateHighestReceived
  <2> HIDE DEF fc, h
  <2>3. /\ fc \in ReceiveControls /\ fc.maxReceive = recv[s].maxReceive /\ fc.window = recv[s].window
        /\ fc.consumed = recv[s].consumed /\ fc.highest = h
    BY <1>3, <2>1, <2>2 DEF ReceiveControls
  <2> QED
    BY <1>3, <2>1, <2>3 DEF IsBlocked
<1>5. UNCHANGED writer
  BY DEF ReceiveStream
<1>6. CASE destroyed[s]
  <2>1. net' = rest /\ UNCHANGED reader
    BY <1>6 DEF ReceiveStream
  <2>2. /\ seq' = [seq EXCEPT ![s] = seq[s]] /\ recv' = [recv EXCEPT ![s] = recv[s]]
        /\ remoteFIN' = [remoteFIN EXCEPT ![s] = remoteFIN'[s]] /\ remoteFIN'[s] \in BOOLEAN
    BY <1>1, <1>3, <2>1 DEF reader, IInv, TypeOK
  <2>3. UNCHANGED <<ended, destroyed, output, writer>> /\ net' \subseteq net
    BY <1>5, <2>1 DEF reader
  <2> DEFINE own == recv[s]
             kept == seq[s]
  <2>4. /\ own \in ReceiveControls /\ own.maxReceive = recv[s].maxReceive
        /\ own.window = recv[s].window /\ own.consumed = recv[s].consumed
        /\ own.highest <= own.maxReceive /\ recv' = [recv EXCEPT ![s] = own]
    BY <1>3, <2>2
  <2>5. Noted(s, kept) /\ seq' = [seq EXCEPT ![s] = kept]
    <3>1. seq' = [seq EXCEPT ![s] = kept]
      BY <2>2
    <3>2. Noted(s, seq[s])
      BY DEF Noted
    <3> QED
      BY <3>1, <3>2
  <2> HIDE DEF own, kept
  <2>6. ReaderStep(s)
    BY <1>1, <2>2, <2>3, <2>4, <2>5, NotedStep
  <2> QED
    BY <1>1, <1>6, <2>6
<1>7. CASE ~destroyed[s]
  <2>1. /\ remoteFIN' = [remoteFIN EXCEPT ![s] = remoteFIN[s] \/ f.fin]
        /\ \/ /\ f.len > 0 /\ HasOffset(noted, f.offset)
              /\ net' = rest /\ recv' = [recv EXCEPT ![s] = fc]
              /\ seq' = [seq EXCEPT ![s] = noted]
              /\ UNCHANGED <<ended, destroyed, output>>
           \/ /\ ~(f.len > 0 /\ HasOffset(noted, f.offset))
              /\ Read(s, q, fc, remoteFIN[s] \/ f.fin, k, rest)
              /\ seq' = [seq EXCEPT ![s] = IF full THEN NewSequencer ELSE AfterRead(q, k)]
              /\ destroyed' = [destroyed EXCEPT ![s] = full]
    BY <1>4, <1>7 DEF ReceiveStream
  <2>2. /\ remoteFIN' = [remoteFIN EXCEPT ![s] = remoteFIN'[s]] /\ remoteFIN'[s] \in BOOLEAN
    BY <1>1, <1>3, <2>1 DEF IInv, TypeOK
  <2>3. Holds(s, noted) /\ noted.list = seq[s].list
    <3>1. Holds(s, seq[s])
      BY <1>1, <1>7, OwnSequencer
    <3>2. CASE ~f.fin
      BY <3>1, <3>2
    <3>3. CASE f.fin
      <4> DEFINE final == f.offset + f.len
      <4>1. final \in Nat /\ final = accepted[s] /\ localFIN[s]
        BY <1>1, <1>2, <3>3
      <4>2. noted = [seq[s] EXCEPT !.final = final]
        BY <3>3
      <4> HIDE DEF noted, final
      <4>3. /\ noted \in Sequencers /\ noted.list = seq[s].list /\ noted.byteLen = seq[s].byteLen
            /\ noted.consumed = seq[s].consumed /\ noted.final = final
        BY <1>3, <4>1, <4>2 DEF Sequencers
      <4>4. Sound(noted)
        BY <3>1, <4>3 DEF Holds, Sound, Held
      <4> QED
        BY <3>1, <4>1, <4>3, <4>4 DEF Holds
    <3> QED
      BY <1>1, <3>2, <3>3
  <2> HIDE DEF noted, fc
  <2>4. CASE /\ f.len > 0 /\ HasOffset(noted, f.offset)
             /\ net' = rest /\ recv' = [recv EXCEPT ![s] = fc]
             /\ seq' = [seq EXCEPT ![s] = noted]
             /\ UNCHANGED <<ended, destroyed, output>>
    <3>1. UNCHANGED <<ended, destroyed, output, writer>> /\ net' \subseteq net
      BY <1>5, <2>4
    <3>2. Noted(s, noted)
      BY <1>7, <2>3 DEF Noted
    <3>3. ReaderStep(s)
      BY <1>1, <1>4, <2>2, <2>4, <3>1, <3>2, NotedStep
    <3> QED
      BY <1>1, <1>7, <2>4, <3>3
  <2>5. CASE /\ ~(f.len > 0 /\ HasOffset(noted, f.offset))
             /\ Read(s, q, fc, remoteFIN[s] \/ f.fin, k, rest)
             /\ seq' = [seq EXCEPT ![s] = IF full THEN NewSequencer ELSE AfterRead(q, k)]
             /\ destroyed' = [destroyed EXCEPT ![s] = full]
    <3>1. Holds(s, q)
      <4>1. CASE ~(f.len > 0)
        BY <2>3, <4>1
      <4>2. CASE f.len > 0
        <5> DEFINE p == [offset |-> f.offset, len |-> f.len]
        <5>1. p \in Pieces(s) /\ End(p) = End(e) /\ p.offset = e.offset /\ e.len = f.len
          BY <1>1, <4>2 DEF Pieces, End
        <5>2. /\ e \in SequencerEntries /\ e.len > 0 /\ e.first = e.offset + 1
          BY <1>1, <1>2, <4>2 DEF SequencerEntries
        <5>3. noted \in Sequencers /\ Sound(noted) /\ noted.consumed \in Nat
              /\ noted.consumed = recv[s].consumed
          BY <1>3, <2>3 DEF Holds
        <5>4. /\ e.offset >= noted.consumed
              /\ \A i \in DOMAIN noted.list : noted.list[i].offset # f.offset
          BY <1>1, <2>5, <4>2, <5>3 DEF HasOffset
        <5> HIDE DEF e
        <5>5. ASSUME NEW i \in DOMAIN noted.list
              PROVE  End(noted.list[i]) <= e.offset \/ End(e) <= noted.list[i].offset
          <6> DEFINE other == [offset |-> noted.list[i].offset, len |-> noted.list[i].len]
          <6>1. other \in Pieces(s) /\ End(other) = End(noted.list[i])
            BY <2>3 DEF Holds, End
          <6>2. other.offset # p.offset
            BY <5>4
          <6>3. other.offset = noted.list[i].offset
            OBVIOUS
          <6> HIDE DEF other, p
          <6>4. other = p \/ End(other) <= p.offset \/ End(p) <= other.offset
            BY <1>1, <5>1, <6>1 DEF IInv, PiecesSound
          <6> QED
            BY <5>1, <6>1, <6>2, <6>3, <6>4
        <5>6. LET r == Push(noted, e)
              IN /\ r \in Sequencers /\ Sound(r)
                 /\ r.consumed = noted.consumed /\ r.final = noted.final
                 /\ \A i \in DOMAIN r.list :
                      r.list[i] = e \/ \E j \in DOMAIN noted.list : r.list[i] = noted.list[j]
          BY <5>2, <5>3, <5>4, <5>5, PushSound
        <5>7. q = Push(noted, e)
          BY <4>2
        <5> HIDE DEF q
        <5>8. ASSUME NEW i \in DOMAIN q.list
              PROVE  [offset |-> q.list[i].offset, len |-> q.list[i].len] \in Pieces(s)
          <6>1. CASE q.list[i] = e
            BY <5>1, <6>1
          <6>2. CASE \E j \in DOMAIN noted.list : q.list[i] = noted.list[j]
            BY <2>3, <6>2 DEF Holds
          <6> QED
            BY <5>6, <5>7, <6>1, <6>2
        <5> QED
          BY <2>3, <5>3, <5>6, <5>7, <5>8 DEF Holds
      <4> QED
        BY <4>1, <4>2
    <3> HIDE DEF q, e
    <3>2. k \in Nat /\ Readable(q, k)
      <4>1. CASE Readable(q, 1)
        BY <4>1
      <4>2. CASE ~Readable(q, 1)
        <5>1. k = 0 /\ Len(q.list) \in Nat
          BY <3>1, <4>2, SequencerFields DEF Holds
        <5> QED
          BY <5>1 DEF Readable
      <4> QED
        BY <4>1, <4>2
    <3> HIDE DEF k
    <3>3. AfterRead(q, k).byteLen \in Nat /\ AfterRead(q, k).byteLen <= WindowLimit
      BY <1>1, <3>1, <3>2, ReadFits
    <3>4. WindowLimit <= CacheLimit => ~full
      BY <3>3
    <3>5. full \in BOOLEAN
      OBVIOUS
    <3> HIDE DEF full
    <3>6. destroyed'[s] = full /\ seq'[s] = IF full THEN NewSequencer ELSE AfterRead(q, k)
      BY <1>1, <2>5 DEF IInv, TypeOK
    <3>7. /\ destroyed' = [destroyed EXCEPT ![s] = destroyed'[s]] /\ destroyed'[s] \in BOOLEAN
          /\ seq' = [seq EXCEPT ![s] = seq'[s]]
          /\ seq'[s] = IF destroyed'[s] THEN NewSequencer ELSE AfterRead(q, k)
      BY <2>5, <3>5, <3>6
    <3>8. ReaderStep(s)
      BY <1>1, <1>4, <1>5, <1>7, <2>2, <2>5, <3>1, <3>2, <3>7, ReadStep
    <3> QED
      BY <1>1, <3>4, <3>6, <3>8
  <2> QED
    BY <2>1, <2>4, <2>5
<1> QED
  BY <1>3, <1>6, <1>7

-----------------------------------------------------------------------------
(* The theorems                                                            *)

\* Every step is one of the writer's end or of the reader's end of a stream, and
\* destroys no stream when the window cannot outgrow the cache.
StreamStep ==
  /\ \E s \in Streams : WriterStep(s) \/ ReaderStep(s)
  /\ WindowLimit <= CacheLimit /\ GrantedFits => GrantedFits'

LEMMA WriterIsStep ==
  ASSUME IInv, NEW s \in Streams, WriterStep(s)
  PROVE  StreamStep
<1>1. destroyed' = destroyed
  BY DEF WriterStep, reader
<1> QED
  BY <1>1 DEF StreamStep, GrantedFits

LEMMA ReaderIsStep ==
  ASSUME IInv, NEW s \in Streams, ReaderStep(s),
         WindowLimit <= CacheLimit /\ ~destroyed[s] => ~destroyed'[s]
  PROVE  StreamStep
<1>1. \A t \in Streams : t # s => destroyed'[t] = destroyed[t]
  BY DEF ReaderStep, ReaderChanges, IInv, TypeOK
<1>2. WindowLimit <= CacheLimit /\ GrantedFits => GrantedFits'
  BY <1>1 DEF GrantedFits
<1> QED
  BY <1>2 DEF StreamStep

LEMMA ArriveStep ==
  ASSUME IInv, NEW f \in net, NEW rest, rest \subseteq net, Arrive(f, rest),
         dups' \in Nat, errors' \in Nat
  PROVE  StreamStep
<1>1. CASE ReceiveWindowUpdate(f, rest)
  BY <1>1, ReceiveWindowUpdateStep, WriterIsStep
<1>2. CASE ReceiveStream(f, rest)
  BY <1>2, ReceiveStreamStep, ReaderIsStep
<1> QED
  BY <1>1, <1>2 DEF Arrive

LEMMA NextStep ==
  ASSUME IInv, Next
  PROVE  StreamStep
<1>1. dups \in Nat /\ errors \in Nat
  BY DEF IInv, TypeOK
<1>2. ASSUME NEW s \in Streams, Write(s)
      PROVE  StreamStep
  BY <1>2, WriteStep, WriterIsStep
<1>3. ASSUME NEW s \in Streams, Final(s)
      PROVE  StreamStep
  BY <1>3, FinalStep, WriterIsStep
<1>4. ASSUME NEW s \in Streams, SentNext(s)
      PROVE  StreamStep
  BY <1>4, SentNextStep, WriterIsStep
<1>5. ASSUME NEW s \in Streams, SentLast(s)
      PROVE  StreamStep
  BY <1>5, SentLastStep, WriterIsStep
<1>6. ASSUME NEW s \in Streams, SendFails(s)
      PROVE  StreamStep
  BY <1>6, SendFailsStep, WriterIsStep
<1>7. ASSUME NEW s \in Streams, ReadMore(s)
      PROVE  StreamStep
  BY <1>7, ReadMoreStep, ReaderIsStep
<1>8. ASSUME NEW f \in net, Deliver(f)
      PROVE  StreamStep
  <2> DEFINE rest == net \ {f}
  <2>1. rest \subseteq net /\ Arrive(f, rest) /\ dups' \in Nat /\ errors' \in Nat
    BY <1>1, <1>8 DEF Deliver
  <2> HIDE DEF rest
  <2> QED
    BY <2>1, ArriveStep
<1>9. ASSUME DeliverAgain
      PROVE  StreamStep
  <2>1. PICK f \in net : dups' = dups + 1 /\ Arrive(f, net) /\ UNCHANGED errors
    BY <1>9 DEF DeliverAgain
  <2>2. net \subseteq net /\ dups' \in Nat /\ errors' \in Nat
    BY <1>1, <2>1
  <2> QED
    BY <2>1, <2>2, ArriveStep
<1> QED
  BY <1>2, <1>3, <1>4, <1>5, <1>6, <1>7, <1>8, <1>9 DEF Next

LEMMA InitialState ==
  ASSUME Init
  PROVE  IInv /\ GrantedFits
<1>1. NewSequencer \in Sequencers /\ Sound(NewSequencer) /\ NewSequencer.list = <<>>
      /\ NewSequencer.consumed = 0 /\ NewSequencer.final = -1
  <2>1. NewSequencer \in Sequencers
    BY EmptySeq DEF NewSequencer, Sequencers
  <2>2. NewSequencer.list = <<>> /\ DOMAIN <<>> = {}
    BY DEF NewSequencer
  <2>3. Held(NewSequencer) = {} /\ NewSequencer.byteLen = 0
    BY <2>2 DEF Held, NewSequencer
  <2>4. Sound(NewSequencer)
    BY <2>2, <2>3, FS_EmptySet DEF Sound
  <2> QED
    BY <2>1, <2>2, <2>4 DEF NewSequencer
<1>2. /\ NewSendControl.maxSend = InitialWindow /\ NewSendControl.written = 0
      /\ NewSendControl \in [maxSend : Nat, written : Nat]
  BY DEF NewSendControl
<1>3. /\ NewReceiveControl.maxReceive = InitialWindow /\ NewReceiveControl.window = Window
      /\ NewReceiveControl.consumed = 0 /\ NewReceiveControl.highest = 0
      /\ NewReceiveControl \in [maxReceive : Nat, window : Nat, consumed : Nat, highest : Nat]
  BY DEF NewReceiveControl
<1>4. <<>> \in Seq(Nat) /\ <<>> \in Seq(Entries) /\ Len(<<>>) = 0 /\ DOMAIN <<>> = {}
  BY EmptySeq
<1>5. TypeOK
  BY <1>1, <1>2, <1>3, <1>4 DEF Init, TypeOK, Idle
<1>6. ASSUME NEW s \in Streams
      PROVE  /\ accepted[s] = 0 /\ chunks[s] = <<>> /\ flushing[s] = Idle /\ ~localFIN[s]
             /\ send[s] = NewSendControl /\ seq[s] = NewSequencer /\ recv[s] = NewReceiveControl
             /\ ~ended[s] /\ ~destroyed[s] /\ output[s] = <<>>
  BY DEF Init
<1>7. net = {}
  BY DEF Init
<1>8. WindowRespected
  BY <1>2, <1>3, <1>6 DEF WindowRespected, IsBlocked
<1>9. ASSUME NEW s \in Streams
      PROVE  WriterSound(s) /\ PiecesSound(s) /\ SequencerSound(s) /\ OutputSound(s) /\ GrantSound(s)
  <2>1. WriterSound(s)
    BY <1>2, <1>4, <1>6 DEF WriterSound
  <2>2. Pieces(s) = {}
    BY <1>1, <1>4, <1>6, <1>7 DEF Pieces
  <2>3. PiecesSound(s)
    BY <2>2 DEF PiecesSound
  <2>4. SequencerSound(s)
    BY <1>1, <1>3, <1>4, <1>6 DEF SequencerSound
  <2>5. OutputSound(s)
    <3>1. [i \in 1..0 |-> i] = <<>>
      OBVIOUS
    <3> QED
      BY <1>2, <1>3, <1>6, <3>1 DEF OutputSound
  <2>6. GrantSound(s)
    BY <1>3, <1>6 DEF GrantSound
  <2> QED
    BY <2>1, <2>3, <2>4, <2>5, <2>6
<1>10. GrantedFits
  BY <1>6 DEF GrantedFits
<1> QED
  BY <1>5, <1>7, <1>8, <1>9, <1>10 DEF IInv

LEMMA StutteringKeeps ==
  ASSUME IInv, UNCHANGED vars
  PROVE  IInv'
<1>1. UNCHANGED <<accepted, chunks, flushing, localFIN, send, seq, recv, remoteFIN, ended,
                  destroyed, output, net, dups, errors>>
  BY DEF vars, writer, reader
<1>2. TypeOK' /\ WindowRespected'
  BY <1>1 DEF IInv, TypeOK, WindowRespected
<1>3. \A f \in net' : FrameSound(f)'
  BY <1>1 DEF IInv, FrameSound
<1>4. ASSUME NEW s \in Streams
      PROVE  (WriterSound(s) /\ PiecesSound(s) /\ SequencerSound(s) /\ OutputSound(s) /\ GrantSound(s))'
  <2>1. WriterSound(s)' /\ GrantSound(s)'
    BY <1>1 DEF IInv, WriterSound, GrantSound
  <2>2. SequencerSound(s)'
    BY <1>1 DEF IInv, SequencerSound
  <2>3. OutputSound(s)'
    BY <1>1 DEF IInv, OutputSound
  <2>4. PiecesSound(s)'
    <3>1. Pieces(s)' = Pieces(s)
      BY <1>1 DEF Pieces
    <3> QED
      BY <1>1, <3>1 DEF IInv, PiecesSound
  <2> QED
    BY <2>1, <2>2, <2>3, <2>4
<1> QED
  BY <1>2, <1>3, <1>4 DEF IInv

\* The inductive invariant of the two ends of a stream holds in every reachable
\* state: what waits, what is in flight and what was read are pieces of what was
\* written, one beside the other (_flushData, push, read, _trySendUpdateWindow).
THEOREM Invariance == Spec => []IInv
<1>1. Init => IInv
  BY InitialState
<1>2. IInv /\ [Next]_vars => IInv'
  <2> SUFFICES ASSUME IInv, [Next]_vars
               PROVE  IInv'
    OBVIOUS
  <2>1. CASE Next
    <3>1. PICK s \in Streams : WriterStep(s) \/ ReaderStep(s)
      BY <2>1, NextStep DEF StreamStep
    <3> QED
      BY <3>1, WriterKeeps, ReaderKeeps
  <2>2. CASE UNCHANGED vars
    BY <2>2, StutteringKeeps
  <2> QED
    BY <2>1, <2>2
<1> QED
  BY <1>1, <1>2, PTL DEF Spec

\* Every variable keeps its type: byteLen is never negative, whatever is read.
THEOREM TypeCorrect == Spec => []TypeOK
<1>1. IInv => TypeOK
  BY DEF IInv
<1> QED
  BY <1>1, Invariance, PTL

\* The writer never writes beyond what the reader has granted, so that _handleFrame
\* never finds the window overflowed: whatever the sizes of packets and windows.
THEOREM WindowIsRespected == Spec => []WindowRespected
<1>1. IInv => WindowRespected
  BY DEF IInv
<1> QED
  BY <1>1, Invariance, PTL

\* Where the window cannot outgrow the cache, which is so for a server (1 MB to
\* 2 MB), nothing that was granted destroys a stream for caching too much.
THEOREM GrantedAlwaysFits ==
  ASSUME WindowLimit <= CacheLimit
  PROVE  Spec => []GrantedFits
<1>1. Init => GrantedFits
  BY InitialState
<1>2. IInv /\ GrantedFits /\ [Next]_vars => GrantedFits'
  <2>1. ASSUME IInv, GrantedFits, Next
        PROVE  GrantedFits'
    BY <2>1, NextStep DEF StreamStep
  <2>2. ASSUME GrantedFits, UNCHANGED vars
        PROVE  GrantedFits'
    BY <2>2 DEF GrantedFits, vars, reader
  <2> QED
    BY <2>1, <2>2
<1> QED
  BY <1>1, <1>2, Invariance, PTL DEF Spec

\* The pipe's steps.
LEMMA WriterPipes ==
  ASSUME IInv, NEW s \in Streams, WriterStep(s)
  PROVE  [Pipe!Next]_(Pipe!vars)
<1>1. /\ accepted' = [accepted EXCEPT ![s] = accepted'[s]]
      /\ localFIN' = [localFIN EXCEPT ![s] = localFIN'[s]]
      /\ UNCHANGED <<output, ended>>
      /\ accepted[s] \in Nat /\ accepted'[s] \in Nat /\ accepted'[s] >= accepted[s]
      /\ localFIN[s] \in BOOLEAN /\ localFIN'[s] \in BOOLEAN
      /\ accepted'[s] = accepted[s] \/ localFIN'[s] = localFIN[s]
      /\ localFIN[s] => localFIN'[s] /\ accepted'[s] = accepted[s]
  BY WriterFields DEF WriterStep, WriterChanges, reader
<1>2. accepted \in [Streams -> Nat] /\ localFIN \in [Streams -> BOOLEAN]
  BY DEF IInv, TypeOK
<1>3. CASE accepted'[s] > accepted[s]
  <2>1. ~localFIN[s] /\ localFIN'[s] = localFIN[s]
    BY <1>1, <1>3
  <2>2. localFIN' = localFIN
    BY <1>1, <1>2, <2>1
  <2>3. Pipe!Accept(s)
    BY <1>1, <1>3, <2>1, <2>2 DEF Pipe!Accept
  <2> QED
    BY <2>3 DEF Pipe!Next
<1>4. CASE accepted'[s] = accepted[s] /\ localFIN'[s] # localFIN[s]
  <2>1. ~localFIN[s] /\ localFIN'[s] = TRUE
    BY <1>1, <1>4
  <2>2. accepted' = accepted /\ localFIN' = [localFIN EXCEPT ![s] = TRUE]
    BY <1>1, <1>2, <1>4, <2>1
  <2>3. Pipe!Close(s)
    BY <1>1, <2>1, <2>2 DEF Pipe!Close
  <2> QED
    BY <2>3 DEF Pipe!Next
<1>5. CASE accepted'[s] = accepted[s] /\ localFIN'[s] = localFIN[s]
  <2>1. accepted' = accepted /\ localFIN' = localFIN
    BY <1>1, <1>2, <1>5
  <2> QED
    BY <1>1, <2>1 DEF Pipe!vars
<1> QED
  BY <1>1, <1>3, <1>4, <1>5

LEMMA ReaderPipes ==
  ASSUME IInv, NEW s \in Streams, ReaderStep(s)
  PROVE  [Pipe!Next]_(Pipe!vars)
<1> DEFINE n == recv'[s].consumed
           m == recv[s].consumed
<1>1. /\ output' = [output EXCEPT ![s] = output'[s]] /\ ended' = [ended EXCEPT ![s] = ended'[s]]
      /\ UNCHANGED <<accepted, localFIN, send>>
      /\ ended[s] \in BOOLEAN /\ ended'[s] \in BOOLEAN /\ (ended[s] => ended'[s])
      /\ m \in Nat /\ n \in Nat /\ m <= n /\ accepted[s] \in Nat /\ send[s].written \in Nat
  BY WriterFields DEF ReaderStep, ReaderChanges, ReceiveControls, writer
<1>2. /\ output[s] = [i \in 1..m |-> i] /\ output'[s] = [i \in 1..n |-> i]
      /\ Len(output[s]) = m /\ Len(output'[s]) = n
  <2>1. output[s] = [i \in 1..m |-> i]
    BY DEF IInv, OutputSound
  <2>2. output'[s] = [i \in 1..n |-> i]
    BY DEF ReaderStep, OutputSound
  <2> QED
    BY <1>1, <2>1, <2>2, Counted
<1>3. n <= send[s].written
  BY <1>1 DEF ReaderStep, OutputSound
<1>4. send[s].written <= accepted[s]
  <2>1. WriterSound(s) /\ chunks[s] \in Seq(Entries)
    BY WriterFields DEF IInv
  <2>2. CASE chunks[s] = <<>>
    BY <1>1, <2>1, <2>2 DEF WriterSound
  <2>3. CASE chunks[s] # <<>>
    BY <1>1, <2>1, <2>3 DEF WriterSound
  <2> QED
    BY <2>2, <2>3
<1>5. /\ ended[s] => m = accepted[s]
      /\ ended'[s] => localFIN[s] /\ n = accepted[s]
  BY <1>1 DEF IInv, OutputSound, ReaderStep
<1>6. output \in [Streams -> Seq(Nat)] /\ ended \in [Streams -> BOOLEAN]
  BY DEF IInv, TypeOK
<1> HIDE DEF n, m
<1>7. CASE ended[s]
  <2>1. n = m /\ ended'[s] = ended[s]
    BY <1>1, <1>3, <1>4, <1>5, <1>7
  <2>2. output' = output /\ ended' = ended
    <3>1. output'[s] = output[s]
      BY <1>2, <2>1
    <3> QED
      BY <1>1, <1>6, <2>1, <3>1
  <2> QED
    BY <1>1, <2>2 DEF Pipe!vars
<1>8. CASE ~ended[s]
  <2>1. n \in Len(output[s])..accepted[s]
    BY <1>1, <1>2, <1>3, <1>4
  <2>2. output' = [output EXCEPT ![s] = [i \in 1..n |-> i]]
    BY <1>1, <1>2
  <2>3. ended'[s] => localFIN[s] /\ Len(output'[s]) = accepted[s]
    BY <1>2, <1>5
  <2>4. Pipe!Deliver(s)
    BY <1>1, <1>8, <2>1, <2>2, <2>3 DEF Pipe!Deliver
  <2> QED
    BY <2>4 DEF Pipe!Next
<1> QED
  BY <1>1, <1>7, <1>8

\* However frames overtake or repeat each other, the reader gets exactly the bytes
\* of the writer in order and then the end: the stream implements BytePipe.
THEOREM StreamIsPipe == Spec => PipeSpec
<1>1. Init => Pipe!Init
  BY DEF Init, Pipe!Init
<1>2. IInv /\ [Next]_vars => [Pipe!Next]_(Pipe!vars)
  <2>1. ASSUME IInv, Next
        PROVE  [Pipe!Next]_(Pipe!vars)
    <3>1. PICK s \in Streams : WriterStep(s) \/ ReaderStep(s)
      BY <2>1, NextStep DEF StreamStep
    <3> QED
      BY <2>1, <3>1, WriterPipes, ReaderPipes
  <2>2. ASSUME UNCHANGED vars
        PROVE  UNCHANGED Pipe!vars
    BY <2>2 DEF vars, writer, reader, Pipe!vars
  <2> QED
    BY <2>1, <2>2
<1> QED
  BY <1>1, <1>2, Invariance, PTL DEF Spec, PipeSpec, Pipe!Spec

=============================================================================
