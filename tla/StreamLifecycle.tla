--------------------------- MODULE StreamLifecycle ---------------------------
(***************************************************************************)
(* How streams open, end, are reset and are counted, at both ends of a     *)
(* session (request, goaway and the stream handlers of Session in          *)
(* src/src/session.ts; close, _final, _destroy and _handleRstFrame of      *)
(* Stream in src/src/stream.ts).                                           *)
(*                                                                         *)
(* Data comes in pieces, one to a STREAM frame.  Flow control never holds  *)
(* a piece back and the reader keeps up (StreamTransfer models both); the  *)
(* packet layer delivers in any order, some frames twice (PacketLayer).    *)
(* Applications have a listener for every stream's 'error'.                *)
(***************************************************************************)
EXTENDS Integers, FiniteSets

CONSTANTS
  Client, Server,
  Ids,            \* the stream IDs used: odd ones are the client's
  MaxStreams,     \* DefaultMaxIncomingStreams, 100
  AutoDestroy,    \* what Node does with a Duplex that has ended and finished
  MaxPieces,      \* bound: pieces written to a stream at each end
  MaxCloses,      \* bound: calls of close() and destroy() by the applications
  MaxDeletes,     \* bound: idle streams that are forgotten
  MaxErrors,      \* bound: RST_STREAM frames whose sending calls back an error
  MaxDups,        \* bound: frames that arrive once more
  MaxEnds         \* bound: calls of close() and destroy() of a session

Node == {Client, Server}

InitStream == 1   \* requested by ClientHandShake and never used

ASSUME StreamLifecycleAssumption ==
  /\ Client # Server
  /\ Ids \subseteq Nat \ {0} /\ IsFiniteSet(Ids) /\ InitStream \in Ids
  /\ MaxStreams \in Nat \ {0} /\ AutoDestroy \in BOOLEAN
  /\ MaxPieces \in Nat /\ MaxCloses \in Nat /\ MaxDeletes \in Nat
  /\ MaxErrors \in Nat /\ MaxDups \in Nat /\ MaxEnds \in Nat

VARIABLES
  st,             \* st[n][id]: the Stream under id in kStreams of n
  live,           \* kState.liveStreamCount
  nextID,         \* kNextStreamID
  shuttingDown,   \* kState.shuttingDown
  phase,          \* of the session: "live", "closing" in close(), "destroyed"
  net,            \* frames in flight
  resetAt,        \* history: the offset of n's first RST_STREAM for id, or None
  offered,        \* history: 'stream' events of n for id
  closes, deletes, errors, dups, ends

session == <<phase, ends>>
vars == <<st, live, nextID, shuttingDown, net, resetAt, offered,
          closes, deletes, errors, dups, session>>

None == -1

Peer(n) == IF n = Client THEN Server ELSE Client

\* StreamID: the client's are odd and the server's even.
NextID(id) == id + 2
PrevID(id) == id - 2

NoStream ==
  [known |-> FALSE, localFIN |-> FALSE, remoteFIN |-> FALSE, destroyed |-> FALSE,
   left |-> 0,           \* pieces of the chunk under way that are still to be sent
   flush |-> "idle",     \* waits for the socket: "data", "fin"; or has: "done"
   written |-> 0, got |-> {}, final |-> None, ended |-> FALSE]

NewStream == [NoStream EXCEPT !.known = TRUE]

StreamFrame(to, id, offset, len, fin) ==
  [type |-> "STREAM", to |-> to, id |-> id, offset |-> offset, len |-> len, fin |-> fin]

RstStreamFrame(to, id, offset) ==
  [type |-> "RST_STREAM", to |-> to, id |-> id, offset |-> offset]

ConnectionCloseFrame(to) == [type |-> "CONNECTION_CLOSE", to |-> to]

GoAwayFrame(to, lastGood) == [type |-> "GOAWAY", to |-> to, lastGood |-> lastGood]

Init ==
  /\ st = [n \in Node |-> [id \in Ids |->
             IF n = Client /\ id = InitStream THEN NewStream ELSE NoStream]]
  /\ live = [n \in Node |-> IF n = Client THEN 1 ELSE 0]
  /\ nextID = [n \in Node |-> IF n = Client THEN NextID(InitStream) ELSE 2]
  /\ shuttingDown = [n \in Node |-> FALSE]
  /\ net = {}
  /\ resetAt = [n \in Node |-> [id \in Ids |-> None]]
  /\ offered = [n \in Node |-> [id \in Ids |-> 0]]
  /\ phase = [n \in Node |-> "live"]
  /\ closes = 0 /\ deletes = 0 /\ errors = 0 /\ dups = 0 /\ ends = 0

Put(n, id, s) == st' = [st EXCEPT ![n][id] = s]

\* The application holds this stream and it is not destroyed.
Open(n, id) == st[n][id].known /\ ~st[n][id].destroyed /\ id # InitStream

-----------------------------------------------------------------------------
(* Opening and writing.  Nothing is asked of a session that is destroyed.  *)

\* Mutant: the limit on open streams is not tested.
RequestUnlimited(n) ==
  /\ phase[n] # "destroyed" /\ ~shuttingDown[n] /\ nextID[n] \in Ids
  /\ Put(n, nextID[n], NewStream)
  /\ live' = [live EXCEPT ![n] = @ + 1]
  /\ nextID' = [nextID EXCEPT ![n] = NextID(@)]
  /\ UNCHANGED <<shuttingDown, net, resetAt, offered,
                 closes, deletes, errors, dups, session>>

\* request() throws when the session is shutting down or has too many streams.
Request(n) ==
  /\ phase[n] # "destroyed" /\ ~shuttingDown[n]
  /\ live[n] < MaxStreams /\ nextID[n] \in Ids
  /\ Put(n, nextID[n], NewStream)
  /\ live' = [live EXCEPT ![n] = @ + 1]
  /\ nextID' = [nextID EXCEPT ![n] = NextID(@)]
  /\ UNCHANGED <<shuttingDown, net, resetAt, offered,
                 closes, deletes, errors, dups, session>>

\* _flushData of the next piece.
FlushPiece(n, id, s) ==
  /\ Put(n, id, [s EXCEPT !.left = @ - 1, !.flush = "data", !.written = @ + 1])
  /\ net' = net \cup {StreamFrame(Peer(n), id, s.written, 1, FALSE)}

\* _write of a chunk of one piece or more; it fails after localFIN.
Write(n, id) ==
  /\ Open(n, id) /\ ~st[n][id].localFIN /\ st[n][id].flush = "idle"
  /\ \E pieces \in 1..(MaxPieces - st[n][id].written) :
       FlushPiece(n, id, [st[n][id] EXCEPT !.left = pieces])
  /\ UNCHANGED <<live, nextID, shuttingDown, resetAt, offered,
                 closes, deletes, errors, dups, session>>

\* _final, after end(): it does not look at localFIN.
End(n, id) ==
  /\ Open(n, id) /\ st[n][id].flush = "idle"
  /\ Put(n, id, [st[n][id] EXCEPT !.localFIN = TRUE, !.flush = "fin"])
  /\ net' = net \cup {StreamFrame(Peer(n), id, st[n][id].written, 0, TRUE)}
  /\ UNCHANGED <<live, nextID, shuttingDown, resetAt, offered,
                 closes, deletes, errors, dups, session>>

\* The socket calls back: the flush loop goes on with what is left of the
\* chunk, which it holds even when the stream was closed or destroyed.
SentNext(n, id) ==
  /\ st[n][id].flush = "data" /\ st[n][id].left > 0
  /\ FlushPiece(n, id, st[n][id])
  /\ UNCHANGED <<live, nextID, shuttingDown, resetAt, offered,
                 closes, deletes, errors, dups, session>>

\* Mutant: the callback of _final is not called.
SentLastForgets(n, id) ==
  /\ st[n][id].flush \in {"data", "fin"} /\ st[n][id].left = 0
  /\ Put(n, id, [st[n][id] EXCEPT !.flush = "idle"])
  /\ UNCHANGED <<live, nextID, shuttingDown, net, resetAt, offered,
                 closes, deletes, errors, dups, session>>

SentLast(n, id) ==
  /\ st[n][id].flush \in {"data", "fin"} /\ st[n][id].left = 0
  /\ Put(n, id, [st[n][id] EXCEPT !.flush = IF @ = "fin" THEN "done" ELSE "idle"])
  /\ UNCHANGED <<live, nextID, shuttingDown, net, resetAt, offered,
                 closes, deletes, errors, dups, session>>

-----------------------------------------------------------------------------
(* Closing                                                                 *)

\* Mutant: a stream that is destroyed leaves kStreams at once.
DestroyedForgotten(s) == NoStream

\* _destroy: Node calls it once for a stream.
Destroyed(s) == [s EXCEPT !.localFIN = TRUE, !.remoteFIN = TRUE, !.destroyed = TRUE]

\* destroy() of stream s, which is st[n][id] but for what was just noted in it.
DestroyStream(n, id, s) ==
  /\ Put(n, id, Destroyed(s))
  /\ live' = [live EXCEPT ![n] = @ - 1]

\* close(): a RST_STREAM frame at the offset written so far.  When its sending
\* calls back an error the stream is destroyed; the frame itself is queued and
\* may arrive all the same.
CloseStream(n, id, s, rest) ==
  /\ net' = rest \cup {RstStreamFrame(Peer(n), id, s.written)}
  /\ resetAt' = [resetAt EXCEPT ![n][id] = IF @ = None THEN s.written ELSE @]
  /\ \/ /\ Put(n, id, [s EXCEPT !.localFIN = TRUE])
        /\ UNCHANGED <<live, errors>>
     \/ /\ errors < MaxErrors /\ errors' = errors + 1
        /\ DestroyStream(n, id, s)

\* The application closes a stream.
Close(n, id) ==
  /\ Open(n, id) /\ closes < MaxCloses /\ closes' = closes + 1
  /\ CloseStream(n, id, st[n][id], net)
  /\ UNCHANGED <<nextID, shuttingDown, offered, deletes, dups, session>>

\* The application destroys a stream; the peer is not told.
Destroy(n, id) ==
  /\ Open(n, id) /\ closes < MaxCloses /\ closes' = closes + 1
  /\ DestroyStream(n, id, st[n][id])
  /\ UNCHANGED <<nextID, shuttingDown, net, resetAt, offered,
                 deletes, errors, dups, session>>

\* Node destroys a stream that has ended both ways, from version 14 on.
Finish(n, id) ==
  /\ AutoDestroy /\ Open(n, id) /\ st[n][id].ended /\ st[n][id].flush = "done"
  /\ DestroyStream(n, id, st[n][id])
  /\ UNCHANGED <<nextID, shuttingDown, net, resetAt, offered,
                 closes, deletes, errors, dups, session>>

\* _intervalCheck of the session, when the stream was idle for long.
Delete(n, id) ==
  /\ st[n][id].known /\ st[n][id].destroyed /\ st[n][id].flush \in {"idle", "done"}
  /\ deletes < MaxDeletes /\ deletes' = deletes + 1
  /\ Put(n, id, NoStream)
  /\ UNCHANGED <<live, nextID, shuttingDown, net, resetAt, offered,
                 closes, errors, dups, session>>

\* Mutant: the ID is stepped back twice.
GoawayTwoBack(n) ==
  /\ phase[n] # "destroyed" /\ ~shuttingDown[n]
  /\ shuttingDown' = [shuttingDown EXCEPT ![n] = TRUE]
  /\ net' = net \cup {GoAwayFrame(Peer(n), PrevID(PrevID(nextID[n])))}
  /\ UNCHANGED <<st, live, nextID, resetAt, offered,
                 closes, deletes, errors, dups, session>>

\* goaway() names the ID before its own next one.
Goaway(n) ==
  /\ phase[n] # "destroyed" /\ ~shuttingDown[n]
  /\ shuttingDown' = [shuttingDown EXCEPT ![n] = TRUE]
  /\ net' = net \cup {GoAwayFrame(Peer(n), PrevID(nextID[n]))}
  /\ UNCHANGED <<st, live, nextID, resetAt, offered,
                 closes, deletes, errors, dups, session>>

-----------------------------------------------------------------------------
(* The end of the session                                                  *)

\* Mutant: the streams are taken from kStreams without being destroyed.
DestroySessionOnly(n) ==
  /\ phase' = [phase EXCEPT ![n] = "destroyed"]
  /\ st' = [st EXCEPT ![n] = [id \in Ids |-> NoStream]]
  /\ UNCHANGED live

\* destroy(): every stream is destroyed, which Node does once for each, and
\* kStreams is emptied.  What a flush loop still sends fails, as kSocket is null.
DestroySession(n) ==
  /\ phase' = [phase EXCEPT ![n] = "destroyed"]
  /\ live' = [live EXCEPT ![n] =
       @ - Cardinality({id \in Ids : st[n][id].known /\ ~st[n][id].destroyed})]
  /\ st' = [st EXCEPT ![n] = [id \in Ids |-> NoStream]]

\* The application calls destroy(), or close() for the first time.
SessionEnd(n) ==
  /\ phase[n] # "destroyed" /\ ends < MaxEnds /\ ends' = ends + 1
  /\ \/ DestroySession(n) /\ UNCHANGED net
     \/ /\ phase[n] = "live" /\ phase' = [phase EXCEPT ![n] = "closing"]
        /\ net' = net \cup {ConnectionCloseFrame(Peer(n))}
        /\ UNCHANGED <<st, live>>
  /\ UNCHANGED <<nextID, shuttingDown, resetAt, offered, closes, deletes, errors, dups>>

\* The CONNECTION_CLOSE frame has been sent.
SessionClosed(n) ==
  /\ phase[n] = "closing" /\ DestroySession(n)
  /\ UNCHANGED <<nextID, shuttingDown, net, resetAt, offered,
                 closes, deletes, errors, dups, ends>>

-----------------------------------------------------------------------------
(* Receiving: f is the frame and rest what stays in flight                 *)

\* The pieces from offset 0 on that have been read.
Consumed(s) == Cardinality({i \in s.got : 0..i \subseteq s.got})

\* _handleFrame.
Handled(s, f) ==
  LET got   == IF f.len > 0 THEN s.got \cup {f.offset} ELSE s.got
      final == IF f.fin THEN f.offset + f.len ELSE s.final
      noted == [s EXCEPT !.got = got, !.final = final, !.remoteFIN = @ \/ f.fin]
  IN [noted EXCEPT !.ended = @ \/ Consumed(noted) = final]

\* Mutant: a stream that is destroyed counts as none, like one that is unknown.
ReceiveStreamRevives(f, rest) ==
  LET n == f.to
      s == st[n][f.id]
  IN /\ f.type = "STREAM"
     /\ IF s.known /\ ~s.destroyed
        THEN net' = rest /\ Put(n, f.id, Handled(s, f)) /\ UNCHANGED <<live, offered>>
        ELSE IF shuttingDown[n] \/ live[n] >= MaxStreams
        THEN /\ net' = rest \cup (IF shuttingDown[n] THEN {}
                                  ELSE {RstStreamFrame(Peer(n), f.id, 0)})
             /\ UNCHANGED <<st, live, offered>>
        ELSE /\ Put(n, f.id, Handled(NewStream, f))
             /\ live' = [live EXCEPT ![n] = @ + 1]
             /\ offered' = [offered EXCEPT ![n][f.id] = @ + 1]
             /\ net' = rest
     /\ UNCHANGED <<shuttingDown, resetAt, errors>>

\* _handleStreamFrame.
ReceiveStream(f, rest) ==
  LET n == f.to
      s == st[n][f.id]
  IN /\ f.type = "STREAM"
     /\ IF s.known
        THEN /\ IF s.destroyed THEN UNCHANGED st ELSE Put(n, f.id, Handled(s, f))
             /\ net' = rest
             /\ UNCHANGED <<live, resetAt, offered, errors>>
        ELSE IF shuttingDown[n]
        THEN net' = rest /\ UNCHANGED <<st, live, resetAt, offered, errors>>
        ELSE IF live[n] >= MaxStreams
        THEN \* the Stream made to refuse it is in no map and was not counted
             /\ net' = rest \cup {RstStreamFrame(Peer(n), f.id, 0)}
             /\ \/ UNCHANGED <<live, errors>>
                \/ /\ errors < MaxErrors /\ errors' = errors + 1
                   /\ live' = [live EXCEPT ![n] = @ - 1]
             /\ UNCHANGED <<st, resetAt, offered>>
        ELSE /\ Put(n, f.id, Handled(NewStream, f))
             /\ live' = [live EXCEPT ![n] = @ + 1]
             /\ offered' = [offered EXCEPT ![n][f.id] = @ + 1]
             /\ net' = rest
             /\ UNCHANGED <<resetAt, errors>>
     /\ UNCHANGED shuttingDown

\* Mutant: every RST_STREAM frame is answered.
ReceiveRstAnswers(f, rest) ==
  LET n == f.to
      s == st[n][f.id]
  IN /\ f.type = "RST_STREAM"
     /\ IF ~s.known \/ s.destroyed
        THEN net' = rest /\ UNCHANGED <<st, live, resetAt, errors>>
        ELSE CloseStream(n, f.id, [s EXCEPT !.remoteFIN = TRUE], rest)
     /\ UNCHANGED <<shuttingDown, offered>>

\* _handleRstStreamFrame and _handleRstFrame.
ReceiveRst(f, rest) ==
  LET n == f.to
      s == st[n][f.id]
      noted == [s EXCEPT !.remoteFIN = TRUE, !.final = f.offset]
  IN /\ f.type = "RST_STREAM"
     /\ IF ~s.known \/ s.destroyed
        THEN net' = rest /\ UNCHANGED <<st, live, resetAt, errors>>
        ELSE IF s.localFIN
        THEN /\ DestroyStream(n, f.id, noted)
             /\ net' = rest
             /\ UNCHANGED <<resetAt, errors>>
        ELSE CloseStream(n, f.id, noted, rest)
     /\ UNCHANGED <<shuttingDown, offered>>

ReceiveGoaway(f, rest) ==
  /\ f.type = "GOAWAY"
  /\ shuttingDown' = [shuttingDown EXCEPT ![f.to] = TRUE]
  /\ net' = rest
  /\ UNCHANGED <<st, live, resetAt, offered, errors>>

ReceiveConnectionClose(f, rest) ==
  /\ f.type = "CONNECTION_CLOSE"
  /\ DestroySession(f.to) /\ net' = rest
  /\ UNCHANGED <<shuttingDown, resetAt, offered, errors>>

\* The message handlers drop what arrives for a destroyed session.
Arrive(f, rest) ==
  /\ \/ /\ phase[f.to] # "destroyed"
        /\ \/ /\ ReceiveStream(f, rest) \/ ReceiveRst(f, rest) \/ ReceiveGoaway(f, rest)
              /\ UNCHANGED phase
           \/ ReceiveConnectionClose(f, rest)
     \/ /\ phase[f.to] = "destroyed" /\ net' = rest
        /\ UNCHANGED <<st, live, shuttingDown, resetAt, offered, errors, phase>>
  /\ UNCHANGED <<nextID, closes, deletes, ends>>

Deliver(f) == f \in net /\ Arrive(f, net \ {f}) /\ UNCHANGED dups

DeliverAgain ==
  \E f \in net : dups < MaxDups /\ dups' = dups + 1 /\ Arrive(f, net)

-----------------------------------------------------------------------------
Next ==
  \/ \E n \in Node :
       \/ Request(n) \/ Goaway(n) \/ SessionEnd(n) \/ SessionClosed(n)
       \/ \E id \in Ids : \/ Write(n, id) \/ End(n, id)
                         \/ SentNext(n, id) \/ SentLast(n, id)
                         \/ Close(n, id) \/ Destroy(n, id) \/ Finish(n, id)
                         \/ Delete(n, id)
  \/ \E f \in net : Deliver(f)
  \/ DeliverAgain

Spec == Init /\ [][Next]_vars

\* Frames arrive (PacketLayer), sockets call back and Node destroys streams
\* that are done.  Nothing is assumed of the applications.
Fairness ==
  /\ WF_vars(\E f \in net : Deliver(f))
  /\ \A n \in Node, id \in Ids :
       WF_vars(SentNext(n, id)) /\ WF_vars(SentLast(n, id)) /\ WF_vars(Finish(n, id))

FairSpec == Spec /\ Fairness

-----------------------------------------------------------------------------
(* Properties                                                              *)

StreamStates ==
  [known : BOOLEAN, localFIN : BOOLEAN, remoteFIN : BOOLEAN, destroyed : BOOLEAN,
   left : Nat, flush : {"idle", "data", "fin", "done"}, written : Nat,
   got : SUBSET Nat, final : Nat \cup {None}, ended : BOOLEAN]

Frames ==
  [type : {"STREAM"}, to : Node, id : Ids, offset : Nat, len : {0, 1}, fin : BOOLEAN]
    \cup [type : {"RST_STREAM"}, to : Node, id : Ids, offset : Nat]
    \cup [type : {"GOAWAY"}, to : Node, lastGood : Nat]
    \cup [type : {"CONNECTION_CLOSE"}, to : Node]

TypeOK ==
  /\ st \in [Node -> [Ids -> StreamStates]]
  /\ live \in [Node -> Int]
  /\ nextID \in [Node -> Nat]
  /\ shuttingDown \in [Node -> BOOLEAN]
  /\ net \in SUBSET Frames
  /\ resetAt \in [Node -> [Ids -> Nat \cup {None}]]
  /\ offered \in [Node -> [Ids -> Nat]]
  /\ phase \in [Node -> {"live", "closing", "destroyed"}]
  /\ closes \in Nat /\ deletes \in Nat /\ errors \in Nat /\ dups \in Nat /\ ends \in Nat

OpenStreams(n) == {id \in Ids : st[n][id].known /\ ~st[n][id].destroyed}

\* liveStreamCount is the number of streams that are open, in whatever order
\* they were requested, accepted, reset, destroyed and deleted, and ended with
\* their session.
SlotsCounted == \A n \in Node : live[n] = Cardinality(OpenStreams(n))

\* DefaultMaxIncomingStreams is the maximum number of streams a peer may open.
OpenBounded == \A n \in Node : Cardinality(OpenStreams(n)) <= MaxStreams

\* A RST_STREAM frame carries the offset of the end of the data.
NoDataBeyondReset ==
  \A n \in Node, id \in Ids :
    resetAt[n][id] # None => st[n][id].written <= resetAt[n][id]

\* A stream ID is unique: an application is offered each stream once.
OfferedOnce == \A n \in Node, id \in Ids : offered[n][id] <= 1

\* A stream that is closed both ways is destroyed and gives its slot back, so
\* that "Too many streams already open" does not count it (_final, _destroy; a
\* reset is answered while "Closing stream locally").
SlotsFreed ==
  \A n \in Node, id \in Ids :
    (st[n][id].known /\ st[n][id].localFIN /\ st[n][id].remoteFIN)
      ~> (~st[n][id].known \/ st[n][id].destroyed)

\* Resets, their acknowledgements and refusals come to an end: the two ends
\* do not answer each other's RST_STREAM frames for ever (_handleRstFrame).
ResetsEnd == <>[](net = {})

-----------------------------------------------------------------------------
(* The inductive invariant behind the safety properties, for any number of *)
(* errors and deletions: each of them spoils the count by one at most.     *)

\* StreamID: an ID of the streams that n requests.
OwnID(n, id) == id % 2 = IF n = Client THEN 1 ELSE 0

\* What is not in kStreams is nothing: it neither flushes nor has a state.
StreamsKnown == \A n \in Node, id \in Ids : ~st[n][id].known => st[n][id] = NoStream

\* kNextStreamID has never been used, by neither end: request() does not
\* replace a stream of kStreams.
IDsFresh ==
  \A n \in Node :
    /\ nextID[n] >= 2 /\ OwnID(n, nextID[n])
    /\ \A id \in Ids : OwnID(n, id) /\ id >= nextID[n] =>
         /\ \A m \in Node : ~st[m][id].known
         /\ \A f \in net : f.type \in {"STREAM", "RST_STREAM"} => f.id # id

\* liveStreamCount is never above the number of open streams, and below it by
\* the refusals whose RST_STREAM could not be sent.
SlotsDrift ==
  \A n \in Node :
    LET open == Cardinality(OpenStreams(n))
    IN /\ live[n] <= open /\ open <= live[n] + errors
       /\ open <= MaxStreams + errors

\* An ID is offered again only after its stream was deleted as idle.
OffersCounted ==
  \A n \in Node, id \in Ids :
    offered[n][id] <=
      deletes + IF st[n][id].known \/ phase[n] = "destroyed" THEN 1 ELSE 0

IInv == TypeOK /\ StreamsKnown /\ IDsFresh /\ SlotsDrift /\ OffersCounted
=============================================================================
