--------------------------- MODULE StreamTransfer ---------------------------
(***************************************************************************)
(* One direction of the streams of a session, both ends of it (class       *)
(* Stream of src/src/stream.ts with StreamFlowController of                *)
(* src/src/internal/flowcontrol.ts): the writer's queue and flush loop,    *)
(* the reader's sequencer and the flow control between them.               *)
(*                                                                         *)
(* The packet layer below (PacketLayer) delivers every frame at last, in   *)
(* any order and perhaps more than once.  Sizes are in units, a few of     *)
(* which fill a packet.  BLOCKED frames only set two fields that nothing   *)
(* reads (updateBlockedFrame) and are left out.                            *)
(***************************************************************************)
EXTENDS StreamSequencer

CONSTANTS
  Streams,
  Script,         \* Script[s]: where the chunks end that are written to s, the last its end
  Payload,        \* data that fits into one packet
  PacketSize,     \* _stateMaxPacketSize, its headers included
  InitialWindow,  \* 16 KB in FlowController
  Window,         \* ReceiveStreamWindow, 32 KB
  WindowLimit,    \* DefaultMaxReceiveStreamWindowServer (1 MB) or ...Client (6 MB)
  CacheLimit,     \* MaxStreamReadCacheSize, 2 MB
  MaxDups,        \* bound: frames that arrive once more
  MaxErrors       \* bound: sends that call back with an error

ASSUME StreamTransferAssumption ==
  /\ Script \in [Streams -> SUBSET Nat]
  /\ Payload \in Nat \ {0} /\ PacketSize \in Nat /\ Payload < PacketSize
  /\ InitialWindow \in Nat /\ PacketSize <= InitialWindow
  /\ Window \in Nat /\ InitialWindow <= Window /\ 2 * PacketSize <= Window
  /\ WindowLimit \in Nat /\ Window <= WindowLimit
  /\ CacheLimit \in Nat /\ MaxDups \in Nat /\ MaxErrors \in Nat

VARIABLES
  (* the writer's Stream *)
  accepted,     \* history: units passed to _write so far
  chunks,       \* outgoingChunksList
  flushing,     \* flushing with the nextByteLen of the send under way, or Idle
  localFIN,
  send,         \* kFC: maxSendOffset, writtenOffset
  (* the reader's Stream *)
  seq,          \* incomingSequencer
  recv,         \* kFC: maxReceiveOffset, maxReceiveWindowSize, consumedOffset, ...
  remoteFIN, ended, destroyed,
  output,       \* history: the data pushed to the reader
  (* the packet layer *)
  net, dups, errors

writer == <<accepted, chunks, flushing, localFIN, send>>
reader == <<seq, recv, remoteFIN, ended, destroyed, output>>
vars == <<writer, reader, net, dups, errors>>

Idle == -1

Min2(a, b) == IF a <= b THEN a ELSE b
Max2(a, b) == IF a >= b THEN a ELSE b

StreamFrame(s, offset, first, len, fin) ==
  [type |-> "STREAM", stream |-> s, offset |-> offset, first |-> first,
   len |-> len, fin |-> fin]

WindowUpdateFrame(s, offset) ==
  [type |-> "WINDOW_UPDATE", stream |-> s, offset |-> offset]

\* An entry of outgoingChunksList: the bytes next..end are still to be sent.
DataEntry(first, last) == [fin |-> FALSE, next |-> first, end |-> last]
FinEntry == [fin |-> TRUE, next |-> 1, end |-> 0]

CheckConsumed(entry) == entry.next > entry.end

\* Mutant: the first entry is shifted out though some of it is left.
ShiftAny(list) == Tail(list)

\* outgoingChunksList: a list first in, first out, whose first entry is shifted
\* out when all of it has been sent.
ShiftConsumed(list) == IF CheckConsumed(Head(list)) THEN Tail(list) ELSE list

(* FlowController: the fields with which a Stream sends are in send, those with
   which it receives in recv. *)

NewSendControl == [maxSend |-> InitialWindow, written |-> 0]

NewReceiveControl ==
  [maxReceive |-> InitialWindow, window |-> Window, consumed |-> 0, highest |-> 0]

UpdateMaxSendOffset(fc, byteOffset) == [fc EXCEPT !.maxSend = Max2(@, byteOffset)]

UpdateWrittenOffset(fc, byteLen) == [fc EXCEPT !.written = @ + byteLen]

UpdateConsumedOffset(fc, offset) == [fc EXCEPT !.consumed = Max2(@, offset)]

UpdateHighestReceived(fc, byteOffset) == [fc EXCEPT !.highest = Max2(@, byteOffset)]

\* Mutant: any room in the window is taken to be enough.
WillBlockedWhenFull(fc, byteLen) == byteLen > 0 /\ fc.maxSend <= fc.written

WillBlocked(fc, byteLen) == byteLen > 0 /\ fc.maxSend - fc.written < byteLen

IsBlocked(fc) == fc.highest > fc.maxReceive

ShouldUpdateWindow(fc) == 2 * (fc.maxReceive - fc.consumed) < fc.window

UpdateWindowOffset(fc, window) ==
  [fc EXCEPT !.window = window, !.maxReceive = fc.consumed + window]

\* _autoTuning may double the window when this update comes within two round
\* trips of the one before.
TunedWindows(fc) ==
  {fc.window} \cup
  (IF fc.maxReceive > InitialWindow THEN {Min2(2 * fc.window, WindowLimit)} ELSE {})

Init ==
  /\ accepted = [s \in Streams |-> 0]
  /\ chunks = [s \in Streams |-> <<>>]
  /\ flushing = [s \in Streams |-> Idle]
  /\ localFIN = [s \in Streams |-> FALSE]
  /\ send = [s \in Streams |-> NewSendControl]
  /\ seq = [s \in Streams |-> NewSequencer]
  /\ recv = [s \in Streams |-> NewReceiveControl]
  /\ remoteFIN = [s \in Streams |-> FALSE]
  /\ ended = [s \in Streams |-> FALSE]
  /\ destroyed = [s \in Streams |-> FALSE]
  /\ output = [s \in Streams |-> <<>>]
  /\ net = {} /\ dups = 0 /\ errors = 0

-----------------------------------------------------------------------------
(* The writer                                                              *)

\* _flushData: the next piece of the first entry of list goes out.  rest is
\* what else is in flight.
FlushData(s, list, fc, rest) ==
  LET entry == Head(list)
      left  == entry.end - entry.next + 1
      len   == Min2(left, Payload)
  IN /\ chunks' = [chunks EXCEPT ![s] = <<[entry EXCEPT !.next = entry.next + len]>> \o Tail(list)]
     /\ flushing' = [flushing EXCEPT ![s] = Min2(len, left - len)]
     /\ localFIN' = [localFIN EXCEPT ![s] = @ \/ entry.fin]
     /\ send' = [send EXCEPT ![s] = UpdateWrittenOffset(fc, len)]
     /\ net' = rest \cup {StreamFrame(s, fc.written, entry.next, len, entry.fin)}

\* _tryFlushCallbacks when nothing is being flushed: data has to wait until
\* the window has room for a whole packet, the end of the stream has not.
TryFlush(s, list, fc, rest) ==
  IF list # <<>> /\ (Head(list).fin \/ ~WillBlocked(fc, PacketSize))
  THEN FlushData(s, list, fc, rest)
  ELSE /\ chunks' = [chunks EXCEPT ![s] = list]
       /\ flushing' = [flushing EXCEPT ![s] = Idle]
       /\ send' = [send EXCEPT ![s] = fc]
       /\ net' = rest
       /\ UNCHANGED localFIN

\* _write, and _writev of what has been gathered: the Writable passes on the
\* next chunk when the one before has been called back.
Write(s) ==
  \E end \in Script[s] :
    /\ chunks[s] = <<>> /\ end > accepted[s]
    /\ \A other \in Script[s] : other > accepted[s] => other >= end
    /\ accepted' = [accepted EXCEPT ![s] = end]
    /\ TryFlush(s, <<DataEntry(accepted[s] + 1, end)>>, send[s], net)
    /\ UNCHANGED <<reader, dups, errors>>

\* _final, when everything before has been called back.
Final(s) ==
  /\ chunks[s] = <<>> /\ ~localFIN[s]
  /\ \A end \in Script[s] : end <= accepted[s]
  /\ TryFlush(s, <<FinEntry>>, send[s], net)
  /\ UNCHANGED <<accepted, reader, dups, errors>>

\* The socket has sent a piece, and there is more and room for it.
SentNext(s) ==
  /\ flushing[s] > 0 /\ ~WillBlocked(send[s], flushing[s] + 1)
  /\ FlushData(s, chunks[s], send[s], net)
  /\ UNCHANGED <<accepted, reader, dups, errors>>

\* The socket has sent the last piece, or the last for which there is room.
SentLast(s) ==
  /\ flushing[s] # Idle
  /\ flushing[s] = 0 \/ WillBlocked(send[s], flushing[s] + 1)
  /\ TryFlush(s, ShiftConsumed(chunks[s]), send[s], net)
  /\ UNCHANGED <<accepted, reader, dups, errors>>

\* _sendPacket or the socket reports an error.  The packet is in the queue of
\* unacknowledged packets already, so the frame is sent again in any case,
\* but the loop stops.
SendFails(s) ==
  /\ flushing[s] # Idle
  /\ errors < MaxErrors /\ errors' = errors + 1
  /\ chunks' = [chunks EXCEPT ![s] = ShiftConsumed(chunks[s])]
  /\ flushing' = [flushing EXCEPT ![s] = Idle]
  /\ UNCHANGED <<accepted, localFIN, send, reader, net, dups>>

\* _handleWindowUpdateFrame of the session.
ReceiveWindowUpdate(f, rest) ==
  LET s == f.stream
      fc == UpdateMaxSendOffset(send[s], f.offset)
  IN /\ f.type = "WINDOW_UPDATE"
     /\ IF f.offset > send[s].maxSend /\ flushing[s] = Idle
        THEN TryFlush(s, chunks[s], fc, rest)
        ELSE /\ send' = [send EXCEPT ![s] = fc]
             /\ net' = rest
             /\ UNCHANGED <<chunks, flushing, localFIN>>
     /\ UNCHANGED <<accepted, reader>>

-----------------------------------------------------------------------------
(* The reader                                                              *)

\* _read: k entries are pushed to the Readable; the window is updated in the
\* next tick, before any other callback.
Read(s, q, fc, fin, k, rest) ==
  LET after == AfterRead(q, k)
      now == UpdateConsumedOffset(fc, after.consumed)
  IN /\ output' = [output EXCEPT ![s] = @ \o DataOf(q, k)]
     /\ ended' = [ended EXCEPT ![s] = @ \/ IsFIN(after)]
     /\ IF ~fin /\ ShouldUpdateWindow(now)
        THEN \E w \in TunedWindows(now) :
               LET updated == UpdateWindowOffset(now, w)
               IN /\ recv' = [recv EXCEPT ![s] = updated]
                  /\ net' = rest \cup {WindowUpdateFrame(s, updated.maxReceive)}
        ELSE recv' = [recv EXCEPT ![s] = now] /\ net' = rest

\* The Readable has room and asks for more.
ReadMore(s) ==
  \E k \in 1..Len(seq[s].list) :
    /\ ~destroyed[s] /\ Readable(seq[s], k)
    /\ Read(s, seq[s], recv[s], remoteFIN[s], k, net)
    /\ seq' = [seq EXCEPT ![s] = AfterRead(@, k)]
    /\ UNCHANGED <<writer, remoteFIN, destroyed, dups, errors>>

\* _handleFrame: no more than one entry is pushed on, asked for or not.  What the
\* code does about a peer that overruns the window (an error and close) is left
\* out, as WindowRespected says that none does, and so are the flags that the
\* destruction for a full cache sets, as nothing follows it.
ReceiveStream(f, rest) ==
  LET s == f.stream
      fc == UpdateHighestReceived(recv[s], f.offset + f.len)
      noted == IF f.fin THEN [seq[s] EXCEPT !.final = f.offset + f.len] ELSE seq[s]
      q == IF f.len > 0
           THEN Push(noted, [offset |-> f.offset, first |-> f.first, len |-> f.len])
           ELSE noted
      k == IF Readable(q, 1) THEN 1 ELSE 0
      full == AfterRead(q, k).byteLen > CacheLimit
  IN /\ f.type = "STREAM"
     /\ IF destroyed[s]
        THEN net' = rest /\ UNCHANGED reader
        ELSE IF IsBlocked(fc)
        THEN /\ net' = rest
             /\ recv' = [recv EXCEPT ![s] = fc]
             /\ UNCHANGED <<seq, remoteFIN, ended, destroyed, output>>
        ELSE /\ remoteFIN' = [remoteFIN EXCEPT ![s] = @ \/ f.fin]
             /\ IF f.len > 0 /\ HasOffset(noted, f.offset)
                THEN /\ net' = rest
                     /\ recv' = [recv EXCEPT ![s] = fc]
                     /\ seq' = [seq EXCEPT ![s] = noted]
                     /\ UNCHANGED <<ended, destroyed, output>>
                ELSE /\ Read(s, q, fc, remoteFIN[s] \/ f.fin, k, rest)
                     /\ seq' = [seq EXCEPT ![s] =
                                  IF full THEN NewSequencer ELSE AfterRead(q, k)]
                     /\ destroyed' = [destroyed EXCEPT ![s] = full]
     /\ UNCHANGED writer

-----------------------------------------------------------------------------
Arrive(f, rest) == ReceiveWindowUpdate(f, rest) \/ ReceiveStream(f, rest)

Deliver(f) == f \in net /\ Arrive(f, net \ {f}) /\ UNCHANGED <<dups, errors>>

\* A packet whose acknowledgement is late is sent again.
DeliverAgain ==
  \E f \in net :
    /\ dups < MaxDups /\ dups' = dups + 1
    /\ Arrive(f, net)
    /\ UNCHANGED errors

Next ==
  \/ \E s \in Streams :
       \/ Write(s) \/ Final(s) \/ SentNext(s) \/ SentLast(s)
       \/ SendFails(s) \/ ReadMore(s)
  \/ \E f \in net : Deliver(f)
  \/ DeliverAgain

Spec == Init /\ [][Next]_vars

\* The application writes its chunks and reads what there is, sockets call
\* back and frames arrive (PacketLayer's EventuallyDelivered).
Fairness ==
  /\ \A s \in Streams : /\ WF_vars(Write(s)) /\ WF_vars(Final(s))
                        /\ WF_vars(SentNext(s)) /\ WF_vars(SentLast(s))
                        /\ WF_vars(ReadMore(s))
  /\ WF_vars(\E f \in net : Deliver(f))

FairSpec == Spec /\ Fairness

-----------------------------------------------------------------------------
(* Properties                                                              *)

Entries == [fin : BOOLEAN, next : Nat, end : Nat]
StreamFrames == [type : {"STREAM"}, stream : Streams, offset : Nat, first : Nat,
                 len : Nat, fin : BOOLEAN]
WindowUpdateFrames == [type : {"WINDOW_UPDATE"}, stream : Streams, offset : Nat]

TypeOK ==
  /\ accepted \in [Streams -> Nat]
  /\ chunks \in [Streams -> Seq(Entries)]
  /\ flushing \in [Streams -> Nat \cup {Idle}]
  /\ localFIN \in [Streams -> BOOLEAN]
  /\ send \in [Streams -> [maxSend : Nat, written : Nat]]
  /\ recv \in [Streams -> [maxReceive : Nat, window : Nat, consumed : Nat, highest : Nat]]
  /\ seq \in [Streams -> Sequencers]
  /\ remoteFIN \in [Streams -> BOOLEAN]
  /\ ended \in [Streams -> BOOLEAN]
  /\ destroyed \in [Streams -> BOOLEAN]
  /\ output \in [Streams -> Seq(Nat)]
  /\ net \in SUBSET (StreamFrames \cup WindowUpdateFrames)
  /\ dups \in Nat /\ errors \in Nat

\* However frames overtake or repeat each other, the reader gets exactly the
\* bytes of the writer in order and then the end (_flushData, StreamSequencer
\* and the end test of _read).
Pipe == INSTANCE BytePipe WITH closed <- localFIN
PipeSpec == Pipe!Spec

\* The writer never exceeds what the reader has granted, though it tests the
\* window against other sizes than it writes (a whole packet, nextByteLen + 1):
\* so _handleFrame never finds the window overflowed.
WindowRespected ==
  \A s \in Streams : /\ send[s].written <= send[s].maxSend
                     /\ send[s].maxSend <= recv[s].maxReceive
                     /\ ~IsBlocked(recv[s])

\* What the reader is granted it can also hold: no stream is destroyed for
\* "Too large caching, stream data maybe lost" (_handleFrame).
GrantedFits == \A s \in Streams : ~destroyed[s]

\* Writer and reader never wait for each other (a whole packet of room for the
\* next chunk, half a window for the next update): unless a send fails,
\* everything written is read and followed by the end.
Completes == \A s \in Streams : <>(ended[s] \/ errors > 0)

-----------------------------------------------------------------------------
(* The inductive invariant behind the safety properties.                   *)

\* One chunk is under way at most.  What is left of it begins where writing has
\* come to, and a send under way knows how much its successor will write.
WriterSound(s) ==
  /\ Len(chunks[s]) <= 1
  /\ chunks[s] = <<>> => send[s].written = accepted[s] /\ flushing[s] = Idle
  /\ chunks[s] # <<>> =>
       LET entry == chunks[s][1]
       IN IF entry.fin
          THEN /\ entry.next = entry.end + 1
               /\ flushing[s] = 0 /\ localFIN[s] /\ send[s].written = accepted[s]
          ELSE /\ entry.next = send[s].written + 1 /\ entry.end = accepted[s]
               /\ send[s].written <= accepted[s] /\ ~localFIN[s]
               /\ IF flushing[s] = Idle
                  THEN send[s].written < accepted[s]
                  ELSE flushing[s] = Min2(Payload, accepted[s] - send[s].written)
  /\ localFIN[s] => \A end \in Script[s] : end <= accepted[s]

\* What is in flight was written, or granted.
FrameSound(f) ==
  /\ f.type = "STREAM" =>
       /\ f.offset + f.len <= send[f.stream].written
       /\ f.len > 0 => f.first = f.offset + 1
       /\ f.fin => localFIN[f.stream] /\ f.offset + f.len = accepted[f.stream]
  /\ f.type = "WINDOW_UPDATE" => f.offset <= recv[f.stream].maxReceive

\* The pieces of s that are in flight or wait to be read.
Pieces(s) ==
  {[offset |-> f.offset, len |-> f.len] :
     f \in {g \in net : g.type = "STREAM" /\ g.stream = s /\ g.len > 0}} \cup
  {[offset |-> seq[s].list[i].offset, len |-> seq[s].list[i].len] : i \in DOMAIN seq[s].list}

\* Pieces do not overlap, and each of them was read as a whole or not at all.
PiecesSound(s) ==
  /\ \A p, q \in Pieces(s) : p = q \/ End(p) <= q.offset \/ End(q) <= p.offset
  /\ \A p \in Pieces(s) : p.offset >= recv[s].consumed \/ End(p) <= recv[s].consumed

\* What waits in the sequencer was written, and destroy() resets it.
SequencerSound(s) ==
  /\ Sound(seq[s])
  /\ \A i \in DOMAIN seq[s].list : End(seq[s].list[i]) <= send[s].written
  /\ IF destroyed[s] THEN seq[s] = NewSequencer ELSE seq[s].consumed = recv[s].consumed
  /\ seq[s].final # -1 => localFIN[s] /\ seq[s].final = accepted[s]

\* What the reader got are the bytes up to consumedOffset, the end comes after
\* all that was written.
OutputSound(s) ==
  /\ output[s] = [i \in 1..recv[s].consumed |-> i]
  /\ recv[s].consumed <= send[s].written
  /\ ended[s] => localFIN[s] /\ recv[s].consumed = accepted[s]

\* No more is granted than the window above what was read, which has a limit.
GrantSound(s) ==
  /\ recv[s].maxReceive <= recv[s].consumed + recv[s].window
  /\ recv[s].window <= WindowLimit

IInv ==
  /\ TypeOK /\ WindowRespected
  /\ \A f \in net : FrameSound(f)
  /\ \A s \in Streams : /\ WriterSound(s) /\ PiecesSound(s) /\ SequencerSound(s)
                        /\ OutputSound(s) /\ GrantSound(s)
=============================================================================
