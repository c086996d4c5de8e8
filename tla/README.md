# TLA+ models of quic-js

This directory holds a formal model of [quic-js](../src/README.md), a QUIC
client and server for Node.js (the Google-QUIC wire format, no TLS). The modules
are written from the TypeScript under `src/src/`; `src/dist/` is its compiled
copy. TLC checks them on small instances; TLAPS proves all of their safety
properties and all refinements for every value of the constants.

`tlc -config <run>.cfg <module>.tla` repeats a run, `tlapm <module>Proofs.tla`
the proofs. `PROJECT.json` lists runs, theorems, the lines that each definition
stands for, and the hazards with the properties that answer them.

## 1. The system

Everything runs on Node's event loop: a handler runs to its end, and whatever
waits (a datagram, the callback of a send, a timer, a DNS lookup, `nextTick`) is
a callback later. So a handler is one action here, and the interleavings are
those of the callbacks and of the two ends.

| Component | State | Operations | Talks to |
|---|---|---|---|
| `Client` (`client.ts`) | `kSocket`, `versionNegotiated`, interval timer | `connect`, `spawn`, `socketOnMessage`, timer every 512 ms | creates or shares a `Socket`; is a `Session` |
| `Server`, `ServerSession` (`server.ts`) | `kConns`, `kSocket`, `destroyed`, interval timer | `listen`, `close`, `serverOnMessage`, timer every 1024 ms | one socket for all sessions; emits `session` |
| `Socket` (`socket.ts`) | `exclusive`, `destroyed`, `conns`, buffer pool | `sendPacket` | dgram |
| `Session` (`session.ts`) | `kNextPacketNumber`, `kUnackedPackets`, `kStreams`, `liveStreamCount`, `kNextStreamID`, `shuttingDown`, `destroyed` | `request`, `goaway`, `ping`, `close`, `reset`, `destroy`, `_handleRegularPacket` and a handler per frame, `_retransmit`, `_intervalCheck` | packets to the socket, frames to the streams |
| `ACKHandler` (`session.ts`) | `lowestAcked`, `largestAcked`, `numbersAcked`, `misshit`, times | `ack`, `lowest`, `toFrame` | the session |
| `Stream` (`stream.ts`) | `localFIN`, `remoteFIN`, `ended`, `flushing`, `destroyed`, the two lists | `_write`, `_writev`, `_final`, `_read`, `_destroy`, `close`, `_handleFrame`, `_handleRstFrame`, `_flushData` | Node's `Duplex` above, the session below |
| `StreamSequencer`, `StreamDataList` (`stream.ts`) | offsets and frames not yet read; chunks not yet sent | `push`, `read`, `hasOffset`, `setFinalOffset`, `reset` | the stream |
| `FlowController` and subclasses (`internal/flowcontrol.ts`) | send and receive offsets, window | `willBlocked`, `shouldUpdateWindow`, `updateWindowOffset`, ... | stream and session |
| Codecs (`internal/frame.ts`, `packet.ts`, `protocol.ts`) | none | `fromBuffer`, `writeTo`, `byteLen` | everything that sends |
| `Queue`, `BufferVisitor` (`internal/common.ts`) | two arrays and an offset | `push`, `shift`, ... | `kUnackedPackets`, codecs |
| Handshake, crypto, RTT, errors | | `setup` completes at once | |

What is hard, and what makes each part correct:

- **Packet layer.** UDP loses, repeats and reorders; a packet is sent again under
  a new number, and nothing but a later acknowledgement tells that it is missing.
  Correct means: acknowledgements are true, numbers are unique, no frame is
  forgotten, all of them arrive at last, and the ends do not acknowledge each
  other for ever.
- **Stream data.** Frames arrive in any order, the flush loop holds its buffer
  over callbacks, writer and reader wait for each other's windows. Correct means:
  what is read is what was written, then its end; the peer's window is never
  exceeded; nobody waits for ever.
- **Stream life.** Both ends open, end, reset and destroy streams at once, and
  `liveStreamCount` is kept at five places. Correct means: the count is the
  number of open streams, the limit holds, a stream is offered once, resets end,
  ended streams give their slots back.
- **Sessions and sockets.** Lookups and sends call back after the state they
  looked at has changed; clients share a socket and end in any order; server
  sessions stay as tombstones for late packets. Correct means: a socket lives
  exactly as long as its clients, and `Server.close` and sessions come to an end.

## 2. The modules

| Module | Models | Kind |
|---|---|---|
| `AckHandler` | `ACKHandler` | pure operators |
| `UnackedPackets` | what an ACK frame does to `kUnackedPackets`, as one step | pure operators |
| `PacketLayer` (extends both) | the packet layer of both ends and the network | state machine |
| `MCPacketLayer` | | TLC instances |
| `PacketLayerProofs` | | theorems |
| `SendQueue` (extends `UnackedPackets`) | what one end promises of the packets it sent | abstract specification |
| `PacketQueue` | `Queue` with its two arrays | pure operators |
| `PacketQueueProofs` | | theorems |
| `AckWire` (extends `AckHandler`) | `AckFrame`: ranges, blocks, writing and reading | pure operators |
| `AckWireProofs` | | theorems |
| `Retransmission` (extends `AckWire`, `PacketQueue`) | the loop of `_retransmit` and the ACK frames that drive it | state machine, implements `SendQueue` |
| `RetransmissionProofs` (extends `PacketQueueProofs`, `AckWireProofs`) | | theorems |
| `BytePipe` | what a stream promises | abstract specification |
| `StreamSequencer` | the reader's sequencer | pure operators |
| `StreamSequencerProofs` | | theorems |
| `StreamTransfer` (extends `StreamSequencer`) | data and windows of streams | state machine, implements `BytePipe` |
| `StreamTransferProofs` (extends `StreamSequencerProofs`) | | theorems |
| `MCStreamTransfer` | | TLC instances |
| `StreamLifecycle` | opening, ending, resetting, counting | state machine |
| `StreamLifecycleProofs` | | theorems |
| `Sessions` | clients, sockets, the server and its sessions | state machine |
| `SessionsProofs` | | theorems |

The state machines are layers of one session and assume of the layer below what
its own module establishes: `StreamTransfer` and `StreamLifecycle` take frames
that arrive at last, in any order and perhaps twice, which is what
`EventuallyDelivered` says and retransmission causes. An operator
whose comment begins with "Mutant:" is a deliberate error; put in the place of the
definition that follows it, it shows that a property notices.

**`AckHandler`, `PacketLayer`.** `numbersAcked` is sorted and scanned, with
duplicates skipped, so it is a set; `Ack`, `Lowest`, `AckFrameOf` and
`AfterFrame` are `ack`, `lowest` and the two halves of `toFrame` (the frame, and
the handler it leaves). *When* an ACK is due depends on the clock, on misses and
on the list's length; `MayAckNow` leaves it open. `SendData` stands for
`_sendFrame` and `_flushData` with `_sendPacket`, `Receive` for
`_handleRegularPacket` with the handler of its frame: recording the number,
perhaps an ACK at once, then the frame, all in one step. Each packet carries one
frame, as the code builds them. `unacked` is ordered by its numbers, as new
packets and retransmissions both take the next one. That this view of it is right is what
`Retransmission` shows: its loop implements `SendQueue`, and so does each end here
(`EndsAreSendQueues`, with `ClientEnd` and `ServerEnd`). `Ping` is `ping()`, called by
the application or by `_intervalCheck`: either end, any time. Only the liveness
properties need the keep-alive of `_intervalCheck` itself, with its 15 s of silence:
`KeepAlivePing` of `TimelyNext`. A client that keeps its connection alive pings for
ever, as stream 1 never leaves its `kStreams`, so the question is not whether it falls
silent but whether both ends come to rest between its pings (`AtRest`,
`RestsBetweenPings`). The history variables `sent`,
`received`, `delivered` and `written` exist for the properties only.

**`PacketQueue`, `AckWire`, `Retransmission`, `SendQueue`.** `PacketLayer` treats
the retransmission after an ACK frame as one step on a set, and an ACK frame as
the set of numbers it reports. `Retransmission` opens both up for one sender and
one receiver. `ReceiveAck`, `ShiftAcked`, `Resend` and `LoopEnds` are the rounds
of the `while` loop of `_retransmit` over the arrays of `Queue` (`Shift`, `Push`,
`First`, `Reset`), including the `_sendPacket` that finds the queue too long and
destroys the session in the middle of the loop. `ToFrame`, `WriteTo`, `ReadBlock`
and `FromBuffer` follow an ACK frame from `toFrame` through `writeTo` and
`fromBuffer` to `acksPacket`; each of their loops is a function of the number of its
rounds (`BlockCount`, `Written`, `Reading`), and `RangesOf` numbers the runs of the list
from the highest instead of sorting it. Datagrams may be lost, reordered and, if they are
ACK frames, repeated. The refinement mapping takes `kUnackedPackets` for the set
of its items; as the loop runs inside one handler, the session is seen until
`LoopEnds` as it was before the loop (`before`), so that the whole loop is one
step `Acknowledge` of `SendQueue`, whose operators (`UnackedPackets`) are the ones
`PacketLayer` uses. The packet of an ACK frame may itself be acknowledged at once,
which takes a number before those of the retransmissions: that is the choice of `base`
in `Acknowledge`. `WriteThrows` tells when `writeTo` would throw.

**`StreamSequencer`, `StreamTransfer`.** A chunk is a run of units, a frame
carries at most `Payload` of them; each unit is named by its place in the stream,
so that "the right bytes" can be said, and `Script` gives the places where the
chunks end. The sequencer's linked list is a sequence in the order of offsets, and
`k` calls of `read()` in a row are one operator: `Readable` says when they all
return data, `DataOf` what it is and `AfterRead` what they leave. `FlushData`, `SentNext` and `SentLast` are
one round of the `_flushData` loop and its callback in its two outcomes;
`TryFlush` is `_tryFlushCallbacks`. The window update of `_read` happens in
`nextTick`, before any other callback, and so belongs to the step that reads.
`ReceiveStream` is `_handleFrame`, with its early returns for overflow, for
repeated frames, and its destruction of a stream that holds too much.

**`StreamLifecycle`.** Data are pieces of one frame each; what matters is where
the resets fall between them. `CloseStream` is `Stream.close` with the two ways
its send may end, `DestroyStream` is `_destroy`, which Node calls once per stream,
`Finish` is Node's automatic destruction of a stream that has ended and finished
(from version 14 on, `AutoDestroy`). `SessionEnd`, `SessionClosed` and
`ReceiveConnectionClose` end the session of one end with all its streams
(`DestroySession`); what still arrives for it is dropped, and an application asks
nothing more of it.

**`Sessions`.** A connection is named by its client. `Connect` and `Spawn` end at
their `dnsLookup`; `ConnectLookedUp`, `ConnectListening`, `SpawnLookedUp` and
`LookupFails` go on in a later step, with what they saw before. A packet is
reduced to its kind and to whether it carries the version, which is all the
message handlers look at; a packet that is sent again keeps its version.
`CloseClient`/`CloseSent` are `close()` and `reset()` and the callback that
destroys. `Listen`, `ListenLookedUp` and `Bound` are `Server.listen`, whose lookup
or bind may fail; `ServerClose`, `ServerCloseNext` and `ServerCloseDone` are
`Server.close` between its awaits, and `ServerOnClose` the socket's close event.
A socket of the server has no owner among the clients and empty `conns`, as in
the code. `SessionIdle` and `Idle` are the idle timers, which fire only when
nothing that would have reset them is in flight (30 s outlast a datagram). With
`Overlap` FALSE an application does not use a client while its own `connect` or
`spawn` is pending, nor a server while its `listen` is at its lookup, and does not
listen on a server it has closed; with TRUE it may.

## 3. The runs

| Run | Properties | Bounds | Shows |
|---|---|---|---|
| `PacketLayerSafety` | `TypeOK`, `NoFalseAck`, `NumbersUnique`, `AcksOnlySent`, `NoLoss`, `StaleAcksHarmless`, `IInv`, `EndsAreSendQueues` | 2 frames of the client, 1 ping of either end, queue limit 2, numbers to 6 (to 5 once a datagram was repeated or the server pinged), 2 ranges, 1 repetition | Two frames of the client and a ping of either end over a network that reorders and repeats datagrams, with ACK frames cut off after two ranges and a queue of unacknowledged packets that may overflow: acknowledgements are true, numbers are unique, no frame is forgotten, late and repeated ACK frames make nothing be sent again, the inductive invariant of the proofs holds in every state, and each end takes only the steps of SendQueue. |
| `Retransmission` | `TypeOK`, `WireTrue`, `WireExact`, `EachPacketOnce`, `IInv`, `SendQueueSpec` | queue limit 2, numbers to 7 before a loop, 3 ranges, gaps to 2, 2 ACK frames | ACK frames are built, cut, split into blocks, read by the peer and worked off packet by packet on the two arrays of the queue, with an overflow in the middle: what is read is what was meant but for the lowest ranges, and the loop comes to the single step that PacketLayer takes. |
| `PacketLayerLive` | `EventuallyDelivered`, `RestsBetweenPings` | 1 frame, 1 ping beyond those that repair a loss, 2 losses, numbers to 15 (never reached); `FairSpec` | A client that keeps its connection alive gets its frame through although two datagrams are lost, and between its pings both ends come to rest again: acknowledgements are not acknowledged for ever. |
| `PacketLayerStopWaiting` (violated) | `StopWaitingBelowPacket` | 6 frames, a byte of 8 values, numbers to 8 | With packet numbers from half of a byte on, the least unacked number read from a STOP_WAITING frame lies above the packet's own number (the byte is scaled down to 8). |
| `StreamTransferPipe` | `TypeOK`, `WindowRespected`, `GrantedFits`, `IInv`, `PipeSpec`, `Completes` | chunks of 5, 4 and 6, payload 2, windows 4, 6 and 12, 2 repetitions, 1 failure; `FairSpec` | Fifteen units in three writes over packets of two, with window updates, repeated frames and a failed send: the stream implements BytePipe, flow control is never violated, and without the failure everything arrives. |
| `StreamLifecycleLimit` | `SlotsCounted`, `OpenBounded`, `IInv` | IDs 1-3, 2 slots, 1 close, 1 deletion, 2 ends of sessions | Streams of both ends compete for two slots, some are refused, reset and deleted, and one or both sessions end in the middle: the count and the limit hold. |
| `StreamLifecycleResets` | `TypeOK`, `IInv`, `ResetsEnd` | IDs 1-3, 2 slots, 2 closes, 1 failure, no automatic destruction (Node before 14); `FairSpec` | Closes of both ends cross each other, with refusals and a RST_STREAM that fails: the count of live streams and the rest of the inductive invariant hold, and the RST_STREAM frames come to an end. |
| `StreamLifecycleEnds` | `OfferedOnce`, `SlotsFreed` | IDs 1 and 3, 2 pieces, 1 repetition; `FairSpec` | Streams of two pieces that both ends end, destroyed by Node while frames overtake and repeat each other: a frame that arrives again after its stream was destroyed opens no new one, and the slots are given back. |
| `StreamResetData` (violated) | `NoDataBeyondReset` | IDs 1 and 3, 2 pieces, 1 close | A stream closed while a chunk is being flushed goes on sending data beyond the offset of its RST_STREAM frame. |
| `StreamResetSlot` (violated) | `SlotsFreed` | IDs 1 and 3, 1 close; `FairSpec` | The end that acknowledges a reset never destroys its stream and never frees its slot. |
| `SessionsLife` | `TypeOK`, `SocketsHeld`, `ReadyLinked`, `SessionsHeard`, `IInv`, `ServerStops`, `SessionsForgotten` | 2 clients, 1 socket of each side, 2 calls, 1 packet of data, 1 close; `FairSpec` | A client and one it spawns share a socket and end in any order, also while a lookup is pending, against a server that begins to listen or fails to, forgets, closes and is closed itself: sockets live as long as their users, no session outlives the server's socket, and sessions and Server.close come to an end. |
| `SessionsConnect` (violated) | `OneSocket` | 2 sockets, 2 calls, `Overlap` | Two calls of connect that overlap in their lookups both pass the check for an existing socket and open one each. |

The bounds: three frames, a ping among them, are the fewest for which a gap, a number below it and a
retransmission exist at once, and six numbers leave room for the ACKs and
retransmissions between them; two ranges per ACK frame make truncation happen
(255 would need hundreds of packets), and a queue of two overflows while frames
of it are still being acknowledged. In `Retransmission` the 255 ranges and the 255
numbers of a gap are scaled to three and two: frames that lose their lowest
ranges, gaps of one, two and three blocks and loops of four rounds with an
overflow in between all occur, which `WireExact` and the refinement need. A first
gap too long for the whole frame (`WriteThrows`, more than 254 * 255 missing
numbers in the code) does not occur there, nor in the code, whose queue holds
4096 packets. Fifteen units over windows of four and six
make the writer block in the middle of a chunk and between chunks, and need
several updates, one of which may double the window. Two slots with three stream
IDs make both ends compete, and the ID 1 the client spends on its handshake
counts too. One socket and two clients are the smallest sharing. A repeated datagram
multiplies the states of the packet layer, and so does a ping of the server, so the sixth
number is left to behaviours without either (`RepeatsWithFewerNumbers`): two
retransmissions by one ACK frame need six numbers, a packet processed twice or frames of
both ends that cross do not. One ping of an
idle connection is enough for `RestsBetweenPings`: at rest the connection is as before
it but for its numbers. Two pieces, their FIN and a repetition let a frame arrive once
more after autoDestroy has destroyed its stream, which `OfferedOnce` is about. In the safety
run of the packet layer and in `Retransmission` no datagram is removed, since one that never arrives is
already lost to the safety properties. `CHECK_DEADLOCK FALSE` is set everywhere:
an application may simply stop calling, and the bounds end every behaviour.

**Fairness.** Only what the runtime does by itself: datagrams that are not lost
arrive, sends call back, intervals fire, Node destroys finished streams. Nothing
is assumed of applications, except in `StreamTransfer`, whose question is whether
an application that goes on writing and reading gets through. The liveness of
the packet layer assumes also that timers (512 ms and more) outlast datagrams in
flight and that a datagram is not overtaken (`TimelyNext`), and a client with
keep-alive on, whose 15 s without a packet outlast both: the code has no other way to
find a lost last packet. `Spec` and the safety properties assume none of this: `Ping`
is not tied to silence there.

## 4. What the runs found

1. **STOP_WAITING is read signed** (`PacketLayerStopWaiting`). `frame.ts:740`
   reads with `readIntBE`; from a delta of half the field's range on (128 for one
   byte) `leastUnacked` lies above the packet's number, against the comment in
   `frame.ts:748`. The run scales a byte to eight values.
2. **Data beyond a reset** (`StreamResetData`). `Stream.close` sends the offset
   written so far, and the flush loop goes on with the rest of its chunk.
3. **A slot that is never freed** (`StreamResetSlot`). The end that receives a
   RST_STREAM first answers "closing stream locally" (`error.ts:50`) but never
   destroys its stream.
4. **Two sockets** (`SessionsConnect`). The check against a duplicate `connect`
   is before an `await`, the assignment after it. `Server.listen` has the same
   shape (`server.ts:125`): two calls open two sockets, and a `close` during the
   lookup leaves the socket of a closed server open, which is why `SocketsHeld` is
   checked for applications that wait (`Overlap` FALSE).

Seen while modelling, without a text in the repository that says otherwise (the
hazards without properties): a server's last frame that is lost stays lost; a
client's window may outgrow the read cache; a refused stream whose RST_STREAM
fails is counted out without having been counted in; a frame later than the idle
timeout opens its stream again; a session may process frames without having been
offered; `GOAWAY` names an ID of its sender's own numbering; connection-level
flow control is accounted for and never enforced; a write whose send fails in
the middle of a chunk is called back only after a WINDOW_UPDATE; the version
negotiation of the client can never succeed, since a regular packet with an
unsupported version is dropped when it is parsed (`packet.ts:308`), and so
`Queue.toArray`, which leaves out one of the two arrays, is never called for the
packets to be sent again; `toFrame` keeps 256 ranges where the wire has room for
255, so the lowest is lost and its packets are sent again for nothing; a failed
bind leaves the server with a socket that makes every later `listen` throw
"Server listening"; `Session.destroy` emits `error` before it marks the session as
destroyed, so a listener that closes the session enters it again without end;
`StreamID.nextID` wraps by `0xffffffff` and changes the parity of the ID; an error
while a BLOCKED frame is sent destroys the session.

## 5. The proofs

Every proof module states an inductive invariant `IInv` of its state machine as
`Invariance` and derives the properties from it. All theorems rest on the
assumptions on the constants that their modules name (`...Assumption`) and, where
the table says so, on one more. In every module a run checks `IInv` too.

| Module | Theorem | Property | Assumes besides |
|---|---|---|---|
| `PacketLayerProofs` | `TypeCorrect` | `TypeOK` | |
| | `NoFalseAckHolds` | `NoFalseAck` | |
| | `NumbersUniqueHolds` | `NumbersUnique` | |
| | `AcksOnlySentAlways` | `AcksOnlySent` | |
| | `NoLossHolds` | `NoLoss` | |
| | `StaleAcksAreHarmless` | `StaleAcksHarmless` | |
| | `EndsImplementSendQueue` | `EndsAreSendQueues` | |
| `AckWireProofs` | `FrameIsRead` | theorem on `AckWire` | `~WriteThrows` (below) |
| `RetransmissionProofs` | `TypeCorrectness` | `TypeOK` | |
| | `WireIsTrue` | `WireTrue` | |
| | `WireIsExact` | `WireExact` | |
| | `EachPacketIsTakenOnce` | `EachPacketOnce` | |
| | `LoopIsOneStep` | `SendQueueSpec` | |
| `StreamTransferProofs` | `TypeCorrect` | `TypeOK` | |
| | `WindowIsRespected` | `WindowRespected` | |
| | `GrantedAlwaysFits` | `GrantedFits` | `WindowLimit <= CacheLimit` |
| | `StreamIsPipe` | `PipeSpec` | |
| `StreamLifecycleProofs` | `TypeCorrect` | `TypeOK` | |
| | `SlotsAreCounted` | `SlotsCounted` | `MaxErrors = 0` |
| | `OpenIsBounded` | `OpenBounded` | `MaxErrors = 0` |
| | `OffersAreUnique` | `OfferedOnce` | `MaxDeletes = 0` |
| `SessionsProofs` | `TypeCorrect` | `TypeOK` | |
| | `SocketsAreHeld` | `SocketsHeld` | `~Overlap` |
| | `ReadyAreLinked` | `ReadyLinked` | `~Overlap` |
| | `SessionsAreHeard` | `SessionsHeard` | `~Overlap` |
| | `OnlyOneSocket` | `OneSocket` | `~Overlap` |
| `PacketQueueProofs` | `LengthCounts`, `PushAppends`, `ShiftTakesFirst` | lemmas on `Queue` | |
| `StreamSequencerProofs` | `PushSound`, `ReadData`, `ReadSound` | lemmas on `StreamSequencer` | |

Why these assumptions. Without each of them the property is false of the code,
and the counterexample is a hazard of `PROJECT.json` or a finding above:

- `~Overlap`: applications wait for `connect`, `spawn` and `listen`. `SessionsConnect`
  shows what happens otherwise. `TypeCorrect` holds of both.
- `MaxErrors = 0`: no RST_STREAM of a refusal calls back an error, after which the
  refused stream is counted out without having been counted in. `IInv`, which is
  proved for any number of errors, says by how much the count is off then
  (`SlotsDrift`).
- `MaxDeletes = 0`: no idle stream is deleted, after which a late frame opens its
  stream again. `IInv` bounds the offers by the deletions (`OffersCounted`).
- `~WriteThrows`: `FrameIsRead` is about frames that `writeTo` writes; `WriteThrows` is
  the case in which it throws instead, a first gap of more than 254 * 255 numbers.
- `WindowLimit <= CacheLimit`: true of a server (1 MB and 2 MB), false of a client
  (6 MB), whose stream may be destroyed for data that was granted. The other
  theorems of the module hold for both.

**`PacketLayer`.** `NoLoss` is not inductive: a frame leaves the queue when its number is
acknowledged, so one has to know that the number was processed by the peer
(`AcksSound`), that it was this very packet (`NumbersUnique`, `QueueSound`) and
that a processed packet's frame was delivered (`ReceivedWereDelivered`). That an
ACK frame reports only processed numbers needs that the handler remembers only
such numbers and that its largest one is among them whenever it has something to
report (`HandlersSound`): the point is `toFrame`, which resets `largestAcked` to
`lowestAcked` when STOP_WAITING has passed everything. That new numbers are fresh
needs `NumbersUsed` and `ReceivedWereSent`.

The proof goes in three layers: lemmas on one handler (`AckSound`, `LowestSound`,
`FrameSound`, `AfterFrameSound`) and on the numbers of retransmissions
(`RenumberedSound`); a predicate `Step(n, new, got)` that says what any step does
to the history, from which the parts about `sent`, `received` and the queues
follow once (`StepNumbers`, `StepHistory`, `StepQueue`, ...); and a lemma for each
way of sending and receiving (`SendReliableInv`, `IntervalAckInv`,
`RetransmitInv`, `ProcessInv`) that shows it to be such a step and to keep the
queue and the handlers. This is `PacketInv`, the larger part of `IInv`.

`StaleAcksHarmless` is about two ACK frames and the queue, so `IInv` adds that
successive ACK frames name larger and larger numbers (`AcksRise`) and that nothing up
to the largest number of a frame that was processed is left in the queue
(`AckedLeave`). The first needs that no operation lowers `largestAcked`, `toFrame`'s
reset to `lowestAcked` included (`LargestRises`, `AfterFrameRises`, from
`HandlersSound`); the second that new numbers lie above all that were acknowledged.
`OrderStep` says what a step does to this order, and each way of sending and receiving
is shown to be one.

`EndsImplementSendQueue` needs `PacketInv` in one place: `SendQueue` knows only ACK frames
that name numbers in use, and so the branch of `_handleACKFrame` that destroys the
session for a number not sent yet has to be impossible (`AckFrameStep`). A step of
`PacketLayer` is then `Send`, `UseNumber`, `Acknowledge` or a stutter of the end that
takes it (`SendReliableStep`, `IntervalAckStep`, `ProcessStep`), and a stutter of the
other. As `LoopIsOneStep` proves the same specification of the loop over the arrays, the
one step of `PacketLayer` is what `_retransmit` comes to.

**`AckWire`.** `FrameIsRead` says of every handler in a sound state (`HandlerSound`) what
its ACK frame becomes on the way: `fromBuffer` accepts it, the largest number and the
flag for missing packets are those that were meant, the reported numbers are too but for
the lowest ranges, and none is lost when every gap fits into one block. The argument
has three parts. The ranges that `toFrame` builds from the list are its maximal runs,
one for each first number, in descending order and apart (`OneRunEach`, `RangeNumbers`,
`RangesDescend`), and stay so when the middle ones are cut out (`CutKeeps`). What `writeTo`
writes for a gap are blocks whose gaps add up to it, all but the last full and of length
0 (`GapSplits`, `WrittenItems`). The reader is after each block either at the end of
a range it has read in full or inside a long gap, at a distance that is known
(`ReadUpTo`, `InGap`; `LongBlock`, `LastBlock`, `GapRead`), so that after all blocks it has
the ranges that were written (`ReadIsWritten`), none of them left incomplete. Facts about all
rounds of a loop are proved by `Climb`: a set of numbers that holds 0 and with each
number the next one holds all of them, which follows from the existence of a least element
and needs no induction theorem with an operator for a parameter. The loop that counts blocks
(`numWritableNackRanges`) and the loop that writes them agree because the count rises
with each range (`CountRises`).

**`PacketQueue` and `Retransmission`.** `PacketQueueProofs` shows, for any items
and queues of any length and with `Items` as the abstraction, that a well-formed
queue stays well-formed and that its operations are those of a FIFO. On top of it
`LoopInv` describes the loop of `_retransmit` after `b.rounds` of its rounds: the
queue holds the packets that are still to be looked at and behind them those that
were sent again, in the numbers that `SendQueue` gives them (`LoopRuns`), or the
session is destroyed (`LoopBroken`). `LoopFirst` is the heart of
`EachPacketIsTakenOnce`: what was sent again has a number above the largest that
the ACK frame names. For `LoopIsOneStep`, rounds are stutters, and `LoopEnds` is
the step `Acknowledge`: `LoopResult` counts the packets passed over, `LoopLeaves`
says what the queue holds, and `OverfullFalls` that the queue does not grow in the
loop, so that if a retransmission destroys the session it is the first one, which
is why `SendQueue` may answer an overflow with one number. The contents of ACK
frames enter only as whatever `acksPacket` answers, so the theorem does not depend
on how frames are cut and written. `ReceiverSound` keeps the handler of the receiver
`HandlerSound` (`AckKeeps`, `LowestKeeps`, `AfterFrameKeeps`) and what it remembers a part of
what has arrived; with `FrameIsRead` this gives `WireTrue` and `WireExact`, and the type
of the frame that the loop works off.

**`StreamSequencer` and `StreamTransfer`.** `Sound` says of a sequencer that its
entries hold the bytes of their offsets, in order and without overlap, above
`consumedOffset`, and that `byteLen` counts them; it is kept by `push()` at
whatever place (`PushSound`) and by any number of `read()`s (`ReadSound`), which
return the bytes that follow (`ReadData`). `IInv` adds: what is left of the chunk
under way, and the `nextByteLen` the flush loop carries over a callback
(`WriterSound`); that frames in flight carry what was written and updates what
was granted (`FrameSound`); that all pieces of a stream, in flight or waiting, are
apart and were each read as a whole or not at all (`PiecesSound`), which is why a
repeated frame is always recognised by its offset alone; that what the reader has
is `1..consumedOffset` (`OutputSound`); and that no more is granted than the window
above it (`GrantSound`). Each action is shown to be a `WriterStep` or a
`ReaderStep`, a relation that says what may change, and two lemmas (`WriterKeeps`,
`ReaderKeeps`) do the rest. `StreamIsPipe` maps `Write` to `Accept`, the step that
flushes the end to `Close`, reads to `Deliver` and all else to stutters.

**`StreamLifecycle`.** `SlotsDrift` relates `liveStreamCount` to the cardinality of
the open streams and bounds both; `IDsFresh` says that no end, and no frame, knows
an ID that `request` will use next, so that `request` never replaces a stream;
`StreamsKnown` that what is not in `kStreams` has no state left; `OffersCounted`
counts the offers of an ID against the deletions. The five places that change the
count are reduced to one lemma about the change of one stream.

**`Sessions`.** `LinksSound` makes a socket's `conns` and its clients' `kSocket` two
views of one relation; `OwnersSound` gives each client's socket one owner;
`CallsSound` says what a `connect` or `spawn` finds when its lookup or bind returns,
which is where `~Overlap` is needed; `ServerSound` and `SessionsSound` follow
`Server.close` between its awaits: what it has passed is destroyed, but for the
one awaited. `ClientsSound` says what the flags of a client imply.

Model-checked and not proved are the liveness properties (`EventuallyDelivered`,
`RestsBetweenPings`, `Completes`, `ResetsEnd`, `SlotsFreed`, `ServerStops`,
`SessionsForgotten`): fairness and `ENABLED` are beyond TLAPS. Between the modules of the
packet layer one thing remains informal: `PacketLayer` takes the ACK frame as
`AckHandler` gives it, and `FrameIsRead` shows the frame on the wire to report the same
numbers, or fewer when gaps are longer than 255. A frame that reports fewer makes the
sender repeat packets, which the safety properties allow at any time.

## 6. What is not modelled

- The handshake and crypto: `setup()` emits `secureConnection` at once.
- The byte formats, except where a conversion changes a value (STOP_WAITING) or
  has a structure of its own (ACK blocks).
- Connection-level flow control: its counters are written and never enforced.
- RTT statistics: they decide only whether a window doubles, which is open.
- Socket errors, except of the server's bind; migration of a client's address.
- `pop`, `unshift` and `migrateTo` of `Queue`, which nothing calls, and `toArray`.
- Node's own buffering in `Duplex` (high-water marks); `push` asks for more or
  not, which is open.
- `BLOCKED` frames: they set two fields that nothing reads.

## 7. Plan

Done: the packet layer with its refinement down to the queue's arrays and its ACK blocks,
stream transfer with its refinement, the life of streams with the end of their session,
sessions and sockets with `listen`, and the proofs of all their safety properties and
refinements.

What could come next:

1. `PacketLayer` with ACK frames that may lose further of their lowest ranges, so that
   `FrameIsRead` connects the two without the remark at the end of section 5.
2. The wrap-around of `StreamID.nextID` and the widths of `Offset` and `PacketNumber`.
3. The stream layer over `PacketLayer` in place of the assumption that frames arrive at
   last, in any order and perhaps twice.
