------------------------ MODULE StreamLifecycleProofs ------------------------
(***************************************************************************)
(* Streams are counted and offered as they should be: TypeOK, SlotsCounted,*)
(* OpenBounded and OfferedOnce of StreamLifecycle, for any set of stream   *)
(* IDs, any limit and any numbers of closes, repetitions and ends of       *)
(* sessions.  Errors of refusals and deletions of idle streams enter the   *)
(* invariant as they are counted: SlotsCounted and OpenBounded are for runs*)
(* without such errors, OfferedOnce for runs without deletions.            *)
(***************************************************************************)
EXTENDS StreamLifecycle, FiniteSetTheorems, TLAPS

-----------------------------------------------------------------------------
(* Types                                                                   *)

LEMMA StreamTypes ==
  /\ NoStream \in StreamStates /\ NewStream \in StreamStates
  /\ \A s \in StreamStates : Destroyed(s) \in StreamStates
  /\ \A s \in StreamStates : [s EXCEPT !.localFIN = TRUE] \in StreamStates
  /\ \A s \in StreamStates, offset \in Nat :
       [s EXCEPT !.remoteFIN = TRUE, !.final = offset] \in StreamStates
BY DEF NoStream, NewStream, Destroyed, StreamStates, None

LEMMA HandledType ==
  ASSUME NEW s \in StreamStates, NEW f \in Frames, f.type = "STREAM"
  PROVE  Handled(s, f) \in StreamStates
<1> DEFINE got   == IF f.len > 0 THEN s.got \cup {f.offset} ELSE s.got
           final == IF f.fin THEN f.offset + f.len ELSE s.final
           noted == [s EXCEPT !.got = got, !.final = final, !.remoteFIN = s.remoteFIN \/ f.fin]
<1>1. f.offset \in Nat /\ f.len \in {0, 1} /\ f.fin \in BOOLEAN
  BY DEF Frames
<1>2. got \in SUBSET Nat /\ final \in Nat \cup {None}
  BY <1>1 DEF StreamStates
<1>3. noted \in StreamStates
  BY <1>1, <1>2 DEF StreamStates
<1>4. Handled(s, f) = [noted EXCEPT !.ended = noted.ended \/ Consumed(noted) = final]
  BY DEF Handled
<1> HIDE DEF got, final, noted
<1>5. \A b \in BOOLEAN : [noted EXCEPT !.ended = b] \in StreamStates
  BY <1>3 DEF StreamStates
<1>6. (noted.ended \/ Consumed(noted) = final) \in BOOLEAN
  OBVIOUS
<1> QED BY <1>4, <1>5, <1>6

LEMMA PutType ==
  ASSUME TypeOK, NEW n \in Node, NEW id \in Ids, NEW s \in StreamStates, Put(n, id, s)
  PROVE  st' \in [Node -> [Ids -> StreamStates]]
BY DEF TypeOK, Put

LEMMA LiveType ==
  ASSUME TypeOK, NEW n \in Node, NEW d \in Int, live' = [live EXCEPT ![n] = live[n] + d]
  PROVE  live' \in [Node -> Int]
BY DEF TypeOK

LEMMA NodeFacts ==
  /\ \A n \in Node : Peer(n) \in Node /\ Peer(n) # n
  /\ \A n \in Node, m \in Node : m = n \/ m = Peer(n)
BY StreamLifecycleAssumption DEF Node, Peer

\* The frames that an end makes.
LEMMA FrameTypes ==
  ASSUME NEW n \in Node, NEW id \in Ids, NEW offset \in Nat
  PROVE  /\ \A len \in {0, 1}, fin \in BOOLEAN : StreamFrame(n, id, offset, len, fin) \in Frames
         /\ RstStreamFrame(n, id, offset) \in Frames
         /\ GoAwayFrame(n, offset) \in Frames
         /\ ConnectionCloseFrame(n) \in Frames
BY DEF StreamFrame, RstStreamFrame, GoAwayFrame, ConnectionCloseFrame, Frames

LEMMA OpenStreamsFinite ==
  ASSUME NEW n \in Node
  PROVE  IsFiniteSet(OpenStreams(n)) /\ Cardinality(OpenStreams(n)) \in Nat
<1>1. OpenStreams(n) \subseteq Ids
  BY DEF OpenStreams
<1> QED BY <1>1, FS_Subset, FS_CardinalityType, StreamLifecycleAssumption

LEMMA DestroySessionType ==
  ASSUME TypeOK, NEW n \in Node, DestroySession(n)
  PROVE  /\ st' \in [Node -> [Ids -> StreamStates]]
         /\ live' \in [Node -> Int]
         /\ phase' \in [Node -> {"live", "closing", "destroyed"}]
<1>1. Cardinality(OpenStreams(n)) \in Nat
  BY OpenStreamsFinite
<1>2. live' = [live EXCEPT ![n] = live[n] - Cardinality(OpenStreams(n))]
  BY DEF DestroySession, OpenStreams
<1> HIDE DEF OpenStreams
<1>3. live' \in [Node -> Int]
  BY <1>1, <1>2 DEF TypeOK
<1> QED BY <1>3, StreamTypes DEF DestroySession, TypeOK

\* close() of stream s, which is that of n or was just noted in it.
LEMMA CloseStreamType ==
  ASSUME TypeOK, NEW n \in Node, NEW id \in Ids, NEW s \in StreamStates, NEW rest \in SUBSET Frames,
         CloseStream(n, id, s, rest)
  PROVE  /\ st' \in [Node -> [Ids -> StreamStates]]
         /\ live' \in [Node -> Int]
         /\ net' \in SUBSET Frames
         /\ resetAt' \in [Node -> [Ids -> Nat \cup {None}]]
         /\ errors' \in Nat
<1>1. s.written \in Nat
  BY DEF StreamStates
<1>2. net' \in SUBSET Frames
  BY <1>1, FrameTypes, NodeFacts DEF CloseStream
<1>3. resetAt' \in [Node -> [Ids -> Nat \cup {None}]]
  BY <1>1 DEF CloseStream, TypeOK
<1>4. CASE Put(n, id, [s EXCEPT !.localFIN = TRUE]) /\ UNCHANGED <<live, errors>>
  BY <1>2, <1>3, <1>4, PutType, StreamTypes DEF TypeOK
<1>5. CASE errors' = errors + 1 /\ DestroyStream(n, id, s)
  <2>1. Put(n, id, Destroyed(s)) /\ Destroyed(s) \in StreamStates
    BY <1>5, StreamTypes DEF DestroyStream
  <2>2. live' \in [Node -> Int]
    BY <1>5 DEF DestroyStream, TypeOK
  <2> QED BY <1>2, <1>3, <1>5, <2>1, <2>2, PutType DEF TypeOK
<1> QED BY <1>4, <1>5 DEF CloseStream

LEMMA DestroyStreamType ==
  ASSUME TypeOK, NEW n \in Node, NEW id \in Ids, NEW s \in StreamStates, DestroyStream(n, id, s)
  PROVE  st' \in [Node -> [Ids -> StreamStates]] /\ live' \in [Node -> Int]
<1>1. Put(n, id, Destroyed(s)) /\ Destroyed(s) \in StreamStates
  BY StreamTypes DEF DestroyStream
<1>2. live' \in [Node -> Int]
  BY DEF DestroyStream, TypeOK
<1> QED BY <1>1, <1>2, PutType

LEMMA TypeInit == Init => TypeOK
<1> SUFFICES ASSUME Init PROVE TypeOK
  OBVIOUS
<1>1. st \in [Node -> [Ids -> StreamStates]]
  BY StreamTypes DEF Init
<1> QED BY <1>1 DEF Init, TypeOK, NextID, InitStream, None

\* What an application or the socket does to one stream.
LEMMA TypeStream ==
  ASSUME TypeOK, NEW n \in Node, NEW id \in Ids,
         \/ Write(n, id) \/ End(n, id) \/ SentNext(n, id) \/ SentLast(n, id)
         \/ Close(n, id) \/ Destroy(n, id) \/ Finish(n, id) \/ Delete(n, id)
  PROVE  TypeOK'
<1> DEFINE s == st[n][id]
<1>0. s \in StreamStates /\ Peer(n) \in Node /\ s.written \in Nat /\ s.left \in Nat
  BY NodeFacts DEF TypeOK, StreamStates
<1> HIDE DEF s
<1>1. ASSUME NEW r \in StreamStates, r.left > 0, FlushPiece(n, id, r)
      PROVE  st' \in [Node -> [Ids -> StreamStates]] /\ net' \in SUBSET Frames
  <2>0. r.left \in Nat /\ r.written \in Nat /\ r.left - 1 \in Nat /\ r.written + 1 \in Nat
    BY <1>1 DEF StreamStates
  <2>1. [r EXCEPT !.left = r.left - 1, !.flush = "data", !.written = r.written + 1] \in StreamStates
    BY <2>0 DEF StreamStates
  <2>2. StreamFrame(Peer(n), id, r.written, 1, FALSE) \in Frames
    BY <1>0, <2>0, FrameTypes
  <2> QED BY <1>1, <2>1, <2>2, PutType DEF FlushPiece, TypeOK
<1>2. CASE Write(n, id)
  <2>1. PICK pieces \in 1..(MaxPieces - s.written) : FlushPiece(n, id, [s EXCEPT !.left = pieces])
    BY <1>2 DEF Write, s
  <2>2. pieces \in Nat /\ pieces > 0
    BY <1>0, <2>1, StreamLifecycleAssumption
  <2>3. [s EXCEPT !.left = pieces] \in StreamStates /\ [s EXCEPT !.left = pieces].left > 0
    BY <1>0, <2>2 DEF StreamStates
  <2>4. st' \in [Node -> [Ids -> StreamStates]] /\ net' \in SUBSET Frames
    BY <1>1, <2>1, <2>3
  <2> QED BY <1>2, <2>4 DEF Write, TypeOK, session
<1>3. CASE End(n, id)
  <2>1. [s EXCEPT !.localFIN = TRUE, !.flush = "fin"] \in StreamStates
    BY <1>0 DEF StreamStates
  <2>2. StreamFrame(Peer(n), id, s.written, 0, TRUE) \in Frames
    BY <1>0, FrameTypes
  <2>3. st' \in [Node -> [Ids -> StreamStates]] /\ net' \in SUBSET Frames
    BY <1>3, <2>1, <2>2, PutType DEF End, TypeOK, s
  <2> QED BY <1>3, <2>3 DEF End, TypeOK, session
<1>4. CASE SentNext(n, id)
  <2>1. st' \in [Node -> [Ids -> StreamStates]] /\ net' \in SUBSET Frames
    BY <1>0, <1>1, <1>4 DEF SentNext, s
  <2> QED BY <1>4, <2>1 DEF SentNext, TypeOK, session
<1>5. CASE SentLast(n, id)
  <2>1. [s EXCEPT !.flush = IF s.flush = "fin" THEN "done" ELSE "idle"] \in StreamStates
    BY <1>0 DEF StreamStates
  <2>2. st' \in [Node -> [Ids -> StreamStates]]
    BY <1>5, <2>1, PutType DEF SentLast, s
  <2> QED BY <1>5, <2>2 DEF SentLast, TypeOK, session
<1>6. CASE Close(n, id)
  <2>1. CloseStream(n, id, s, net) /\ net \in SUBSET Frames
    BY <1>6 DEF Close, TypeOK, s
  <2>2. /\ st' \in [Node -> [Ids -> StreamStates]] /\ live' \in [Node -> Int]
        /\ net' \in SUBSET Frames /\ resetAt' \in [Node -> [Ids -> Nat \cup {None}]]
        /\ errors' \in Nat
    BY <1>0, <2>1, CloseStreamType
  <2> QED BY <1>6, <2>2 DEF Close, TypeOK, session
<1>7. CASE Destroy(n, id) \/ Finish(n, id)
  <2>1. DestroyStream(n, id, s)
    BY <1>7 DEF Destroy, Finish, s
  <2>2. st' \in [Node -> [Ids -> StreamStates]] /\ live' \in [Node -> Int]
    BY <1>0, <2>1, DestroyStreamType
  <2>3. closes' \in Nat
    BY <1>7 DEF Destroy, Finish, TypeOK
  <2> QED BY <1>7, <2>2, <2>3 DEF Destroy, Finish, TypeOK, session
<1>8. CASE Delete(n, id)
  <2>1. st' \in [Node -> [Ids -> StreamStates]]
    BY <1>8, StreamTypes, PutType DEF Delete
  <2> QED BY <1>8, <2>1 DEF Delete, TypeOK, session
<1> QED BY <1>2, <1>3, <1>4, <1>5, <1>6, <1>7, <1>8

LEMMA TypeSession ==
  ASSUME TypeOK, IDsFresh, NEW n \in Node,
         Request(n) \/ Goaway(n) \/ SessionEnd(n) \/ SessionClosed(n)
  PROVE  TypeOK'
<1>1. nextID[n] \in Nat /\ nextID[n] >= 2 /\ Peer(n) \in Node
  BY NodeFacts DEF IDsFresh, TypeOK
<1>2. CASE Request(n)
  <2>1. st' \in [Node -> [Ids -> StreamStates]]
    BY <1>2, StreamTypes, PutType DEF Request
  <2>2. live' \in [Node -> Int] /\ nextID' \in [Node -> Nat]
    BY <1>1, <1>2 DEF Request, TypeOK, NextID
  <2> QED BY <1>2, <2>1, <2>2 DEF Request, TypeOK, session
<1>3. CASE Goaway(n)
  <2>1. PrevID(nextID[n]) \in Nat
    BY <1>1 DEF PrevID
  <2>2. GoAwayFrame(Peer(n), PrevID(nextID[n])) \in Frames
    BY <1>1, <2>1 DEF GoAwayFrame, Frames
  <2> QED BY <1>3, <2>2 DEF Goaway, TypeOK, session
<1>4. CASE SessionEnd(n)
  <2>1. CASE DestroySession(n) /\ UNCHANGED net
    BY <1>4, <2>1, DestroySessionType DEF SessionEnd, TypeOK
  <2>2. CASE /\ phase[n] = "live" /\ phase' = [phase EXCEPT ![n] = "closing"]
             /\ net' = net \cup {ConnectionCloseFrame(Peer(n))}
             /\ UNCHANGED <<st, live>>
    <3>1. ConnectionCloseFrame(Peer(n)) \in Frames
      BY <1>1 DEF ConnectionCloseFrame, Frames
    <3> QED BY <1>4, <2>2, <3>1 DEF SessionEnd, TypeOK
  <2> QED BY <1>4, <2>1, <2>2 DEF SessionEnd
<1>5. CASE SessionClosed(n)
  BY <1>5, DestroySessionType DEF SessionClosed, TypeOK
<1> QED BY <1>2, <1>3, <1>4, <1>5

LEMMA TypeArrive ==
  ASSUME TypeOK, NEW f \in net, NEW rest \in SUBSET net, Arrive(f, rest),
         UNCHANGED dups \/ dups' = dups + 1
  PROVE  TypeOK'
<1> DEFINE n == f.to
<1>0. /\ f \in Frames /\ n \in Node /\ Peer(n) \in Node /\ rest \in SUBSET Frames
      /\ nextID' = nextID /\ closes' = closes /\ deletes' = deletes /\ ends' = ends
      /\ dups' \in Nat
  BY NodeFacts DEF TypeOK, Frames, Arrive
<1> HIDE DEF n
<1>1. SUFFICES /\ st' \in [Node -> [Ids -> StreamStates]] /\ live' \in [Node -> Int]
               /\ shuttingDown' \in [Node -> BOOLEAN] /\ net' \in SUBSET Frames
               /\ resetAt' \in [Node -> [Ids -> Nat \cup {None}]]
               /\ offered' \in [Node -> [Ids -> Nat]]
               /\ phase' \in [Node -> {"live", "closing", "destroyed"}] /\ errors' \in Nat
  BY <1>0 DEF TypeOK
<1>2. CASE ReceiveStream(f, rest) /\ UNCHANGED phase
  <2> DEFINE s == st[n][f.id]
  <2>1. f.type = "STREAM" /\ f.id \in Ids
    BY <1>0, <1>2 DEF ReceiveStream, Frames
  <2>2. s \in StreamStates
    BY <1>0, <2>1 DEF TypeOK
  <2>3. Handled(s, f) \in StreamStates /\ Handled(NewStream, f) \in StreamStates
    BY <1>0, <2>1, <2>2, StreamTypes, HandledType
  <2>4. RstStreamFrame(Peer(n), f.id, 0) \in Frames
    BY <1>0, <2>1, FrameTypes
  <2>5. \/ UNCHANGED st
        \/ Put(n, f.id, Handled(s, f)) \/ Put(n, f.id, Handled(NewStream, f))
    BY <1>2 DEF ReceiveStream, n
  <2>6. st' \in [Node -> [Ids -> StreamStates]]
    BY <1>0, <2>1, <2>3, <2>5, PutType DEF TypeOK
  <2>7. net' = rest \/ net' = rest \cup {RstStreamFrame(Peer(n), f.id, 0)}
    BY <1>2 DEF ReceiveStream, n
  <2>8. \/ live' = live \/ live' = [live EXCEPT ![n] = live[n] + 1]
        \/ live' = [live EXCEPT ![n] = live[n] - 1]
    BY <1>2 DEF ReceiveStream, n
  <2>9. offered' = offered \/ offered' = [offered EXCEPT ![n][f.id] = offered[n][f.id] + 1]
    BY <1>2 DEF ReceiveStream, n
  <2>10. live' \in [Node -> Int]
    BY <2>8 DEF TypeOK
  <2>11. offered' \in [Node -> [Ids -> Nat]]
    <3>1. offered \in [Node -> [Ids -> Nat]] /\ offered[n][f.id] + 1 \in Nat
      BY <1>0, <2>1 DEF TypeOK
    <3>2. \A k \in Nat : [offered EXCEPT ![n][f.id] = k] \in [Node -> [Ids -> Nat]]
      BY <1>0, <2>1, <3>1
    <3> QED BY <2>9, <3>1, <3>2
  <2>12. UNCHANGED <<resetAt, shuttingDown>> /\ (errors' = errors \/ errors' = errors + 1)
    BY <1>2 DEF ReceiveStream
  <2> QED BY <1>0, <1>2, <2>4, <2>6, <2>7, <2>10, <2>11, <2>12 DEF TypeOK
<1>3. CASE ReceiveRst(f, rest) /\ UNCHANGED phase
  <2> DEFINE s == st[n][f.id]
             noted == [s EXCEPT !.remoteFIN = TRUE, !.final = f.offset]
  <2>1. f.type = "RST_STREAM" /\ f.id \in Ids /\ f.offset \in Nat
    BY <1>0, <1>3 DEF ReceiveRst, Frames
  <2>2. s \in StreamStates
    BY <1>0, <2>1 DEF TypeOK
  <2>3. noted \in StreamStates
    BY <2>1, <2>2, StreamTypes
  <2>4. \/ net' = rest /\ UNCHANGED <<st, live, resetAt, errors>>
        \/ DestroyStream(n, f.id, noted) /\ net' = rest /\ UNCHANGED <<resetAt, errors>>
        \/ CloseStream(n, f.id, noted, rest)
    BY <1>3 DEF ReceiveRst, n
  <2>5. UNCHANGED <<shuttingDown, offered>>
    BY <1>3 DEF ReceiveRst
  <2> HIDE DEF noted
  <2>6. CASE net' = rest /\ UNCHANGED <<st, live, resetAt, errors>>
    BY <1>0, <1>3, <2>5, <2>6 DEF TypeOK
  <2>7. CASE DestroyStream(n, f.id, noted) /\ net' = rest /\ UNCHANGED <<resetAt, errors>>
    BY <1>0, <1>3, <2>1, <2>3, <2>5, <2>7, DestroyStreamType DEF TypeOK
  <2>8. CASE CloseStream(n, f.id, noted, rest)
    BY <1>0, <1>3, <2>1, <2>3, <2>5, <2>8, CloseStreamType DEF TypeOK
  <2> QED BY <2>4, <2>6, <2>7, <2>8
<1>4. CASE ReceiveGoaway(f, rest) /\ UNCHANGED phase
  BY <1>0, <1>4 DEF ReceiveGoaway, TypeOK
<1>5. CASE ReceiveConnectionClose(f, rest)
  BY <1>0, <1>5, DestroySessionType DEF ReceiveConnectionClose, TypeOK, n
<1>6. CASE net' = rest /\ UNCHANGED <<st, live, shuttingDown, resetAt, offered, errors, phase>>
  BY <1>0, <1>6 DEF TypeOK
<1> QED BY <1>2, <1>3, <1>4, <1>5, <1>6 DEF Arrive

LEMMA TypeStep == TypeOK /\ IDsFresh /\ [Next]_vars => TypeOK'
<1> SUFFICES ASSUME TypeOK, IDsFresh, [Next]_vars PROVE TypeOK'
  OBVIOUS
<1>1. ASSUME NEW n \in Node,
             \/ Request(n) \/ Goaway(n) \/ SessionEnd(n) \/ SessionClosed(n)
      PROVE  TypeOK'
  BY <1>1, TypeSession
<1>2. ASSUME NEW n \in Node, NEW id \in Ids,
             \/ Write(n, id) \/ End(n, id) \/ SentNext(n, id) \/ SentLast(n, id)
             \/ Close(n, id) \/ Destroy(n, id) \/ Finish(n, id) \/ Delete(n, id)
      PROVE  TypeOK'
  BY <1>2, TypeStream
<1>3. ASSUME NEW f \in net, Deliver(f)
      PROVE  TypeOK'
  BY <1>3, TypeArrive DEF Deliver
<1>4. ASSUME DeliverAgain
      PROVE  TypeOK'
  BY <1>4, TypeArrive DEF DeliverAgain
<1>5. CASE UNCHANGED vars
  BY <1>5 DEF TypeOK, vars, session
<1> QED BY <1>1, <1>2, <1>3, <1>4, <1>5 DEF Next

-----------------------------------------------------------------------------
(* What a step does to the IDs, the slots and the offers                   *)

Safe == StreamsKnown /\ IDsFresh /\ SlotsDrift /\ OffersCounted

StreamFrames == {"STREAM", "RST_STREAM"}

\* An ID that one of the ends or the network has.
Used(id) ==
  \/ \E n \in Node : st[n][id].known
  \/ \E f \in net : f.type \in StreamFrames /\ f.id = id

\* A step that brings no ID into use.
LEMMA FreshStays ==
  ASSUME IDsFresh, UNCHANGED nextID, \A id \in Ids : Used(id)' => Used(id)
  PROVE  IDsFresh'
BY DEF IDsFresh, Used, StreamFrames, OwnID

\* One stream changes at most, and only frames of it are sent.
LEMMA UsedStays ==
  ASSUME TypeOK, NEW n \in Node, NEW id \in Ids, NEW s, Used(id),
         Put(n, id, s) \/ UNCHANGED st,
         \A g \in net' : g \in net \/ (g.type \in StreamFrames => g.id = id)
  PROVE  \A i \in Ids : Used(i)' => Used(i)
<1>1. \A m \in Node, i \in Ids : i # id => st'[m][i] = st[m][i]
  BY DEF Put, TypeOK
<1> QED BY <1>1 DEF Used

LEMMA OpenPut ==
  ASSUME TypeOK, NEW n \in Node, NEW id \in Ids, NEW s, Put(n, id, s)
  PROVE  /\ \A m \in Node : m # n => OpenStreams(m)' = OpenStreams(m)
         /\ s.known /\ ~s.destroyed => OpenStreams(n)' = OpenStreams(n) \cup {id}
         /\ ~(s.known /\ ~s.destroyed) => OpenStreams(n)' = OpenStreams(n) \ {id}
<1>1. /\ st'[n][id] = s /\ \A i \in Ids : i # id => st'[n][i] = st[n][i]
      /\ \A m \in Node : m # n => st'[m] = st[m]
  BY DEF Put, TypeOK
<1> QED BY <1>1 DEF OpenStreams

LEMMA SlotsStay ==
  ASSUME TypeOK, SlotsDrift, UNCHANGED live, errors' \in Nat, errors' >= errors,
         \A n \in Node : OpenStreams(n)' = OpenStreams(n)
  PROVE  SlotsDrift'
<1> SUFFICES ASSUME NEW n \in Node
             PROVE  LET open == Cardinality(OpenStreams(n)')
                    IN live'[n] <= open /\ open <= live'[n] + errors' /\ open <= MaxStreams + errors'
  BY DEF SlotsDrift
<1>1. /\ Cardinality(OpenStreams(n)) \in Nat /\ live[n] \in Int /\ errors \in Nat
      /\ MaxStreams \in Nat
  BY OpenStreamsFinite, StreamLifecycleAssumption DEF TypeOK
<1>2. LET open == Cardinality(OpenStreams(n))
      IN live[n] <= open /\ open <= live[n] + errors /\ open <= MaxStreams + errors
  BY DEF SlotsDrift
<1> HIDE DEF OpenStreams
<1> QED BY <1>1, <1>2

\* A stream opens, is counted and passes the limit.
LEMMA SlotGained ==
  ASSUME TypeOK, SlotsDrift, NEW n \in Node, NEW id \in Ids, NEW s, Put(n, id, s),
         s.known, ~s.destroyed, id \notin OpenStreams(n),
         live[n] < MaxStreams, live' = [live EXCEPT ![n] = live[n] + 1], UNCHANGED errors
  PROVE  SlotsDrift'
<1> SUFFICES ASSUME NEW m \in Node
             PROVE  LET open == Cardinality(OpenStreams(m)')
                    IN live'[m] <= open /\ open <= live'[m] + errors' /\ open <= MaxStreams + errors'
  BY DEF SlotsDrift
<1>1. /\ IsFiniteSet(OpenStreams(m)) /\ Cardinality(OpenStreams(m)) \in Nat
      /\ live \in [Node -> Int] /\ errors \in Nat /\ MaxStreams \in Nat
  BY OpenStreamsFinite, StreamLifecycleAssumption DEF TypeOK
<1>2. LET open == Cardinality(OpenStreams(m))
      IN live[m] <= open /\ open <= live[m] + errors /\ open <= MaxStreams + errors
  BY DEF SlotsDrift
<1>3. CASE m # n
  <2>1. OpenStreams(m)' = OpenStreams(m) /\ live'[m] = live[m]
    BY <1>1, <1>3, OpenPut
  <2> HIDE DEF OpenStreams
  <2> QED BY <1>1, <1>2, <2>1
<1>4. CASE m = n
  <2>1. OpenStreams(n)' = OpenStreams(n) \cup {id}
    BY OpenPut
  <2>2. Cardinality(OpenStreams(n)') = Cardinality(OpenStreams(n)) + 1
    BY <1>1, <1>4, <2>1, FS_AddElement
  <2>3. live'[n] = live[n] + 1 /\ live[n] \in Int
    BY <1>1
  <2> HIDE DEF OpenStreams
  <2> QED BY <1>1, <1>2, <1>4, <2>2, <2>3
<1> QED BY <1>3, <1>4

\* A stream that was open is destroyed and counted out.
LEMMA SlotLost ==
  ASSUME TypeOK, SlotsDrift, NEW n \in Node, NEW id \in OpenStreams(n), NEW s, Put(n, id, s),
         s.destroyed, live' = [live EXCEPT ![n] = live[n] - 1], errors' \in Nat, errors' >= errors
  PROVE  SlotsDrift'
<1> SUFFICES ASSUME NEW m \in Node
             PROVE  LET open == Cardinality(OpenStreams(m)')
                    IN live'[m] <= open /\ open <= live'[m] + errors' /\ open <= MaxStreams + errors'
  BY DEF SlotsDrift
<1>1. /\ IsFiniteSet(OpenStreams(m)) /\ Cardinality(OpenStreams(m)) \in Nat
      /\ live \in [Node -> Int] /\ errors \in Nat /\ MaxStreams \in Nat
  BY OpenStreamsFinite, StreamLifecycleAssumption DEF TypeOK
<1>2. LET open == Cardinality(OpenStreams(m))
      IN live[m] <= open /\ open <= live[m] + errors /\ open <= MaxStreams + errors
  BY DEF SlotsDrift
<1>0. id \in Ids
  BY DEF OpenStreams
<1>3. CASE m # n
  <2>1. OpenStreams(m)' = OpenStreams(m) /\ live'[m] = live[m]
    BY <1>0, <1>1, <1>3, OpenPut
  <2> HIDE DEF OpenStreams
  <2> QED BY <1>1, <1>2, <2>1
<1>4. CASE m = n
  <2>1. OpenStreams(n)' = OpenStreams(n) \ {id}
    BY <1>0, OpenPut
  <2>2. Cardinality(OpenStreams(n)') = Cardinality(OpenStreams(n)) - 1
    BY <1>1, <1>4, <2>1, FS_RemoveElement
  <2>3. live'[n] = live[n] - 1 /\ live[n] \in Int
    BY <1>1
  <2> HIDE DEF OpenStreams
  <2> QED BY <1>1, <1>2, <1>4, <2>2, <2>3
<1> QED BY <1>3, <1>4

LEMMA OffersStay ==
  ASSUME TypeOK, OffersCounted, UNCHANGED <<offered, deletes>>,
         \A n \in Node, id \in Ids :
           st[n][id].known \/ phase[n] = "destroyed" =>
             st'[n][id].known \/ phase'[n] = "destroyed"
  PROVE  OffersCounted'
<1> SUFFICES ASSUME NEW n \in Node, NEW id \in Ids
             PROVE  offered'[n][id] <=
                      deletes' + IF st'[n][id].known \/ phase'[n] = "destroyed" THEN 1 ELSE 0
  BY DEF OffersCounted
<1>1. offered[n][id] <= deletes + IF st[n][id].known \/ phase[n] = "destroyed" THEN 1 ELSE 0
  BY DEF OffersCounted
<1>2. offered[n][id] \in Nat /\ deletes \in Nat
  BY DEF TypeOK
<1> QED BY <1>1, <1>2

\* A step of one stream of kStreams, which may be destroyed in it.
LEMMA KnownStep ==
  ASSUME TypeOK, Safe, NEW n \in Node, NEW id \in Ids, NEW s, Put(n, id, s),
         st[n][id].known, s.known,
         \/ s.destroyed = st[n][id].destroyed /\ UNCHANGED live
         \/ /\ ~st[n][id].destroyed /\ s.destroyed
            /\ live' = [live EXCEPT ![n] = live[n] - 1],
         errors' \in Nat, errors' >= errors, UNCHANGED <<nextID, offered, deletes, phase>>,
         \A g \in net' : g \in net \/ (g.type \in StreamFrames => g.id = id)
  PROVE  Safe'
<1>1. /\ st'[n][id] = s /\ \A i \in Ids : i # id => st'[n][i] = st[n][i]
      /\ \A m \in Node : m # n => st'[m] = st[m]
  BY DEF Put, TypeOK
<1>2. StreamsKnown'
  BY <1>1 DEF Safe, StreamsKnown
<1>3. IDsFresh'
  <2>1. Used(id)
    BY DEF Used
  <2> QED BY <2>1, UsedStays, FreshStays DEF Safe
<1>4. SlotsDrift'
  <2>1. CASE s.destroyed = st[n][id].destroyed /\ UNCHANGED live
    <3>1. OpenStreams(n)' = OpenStreams(n)
      BY <1>1, <2>1 DEF OpenStreams
    <3>2. \A m \in Node : OpenStreams(m)' = OpenStreams(m)
      BY <3>1, OpenPut
    <3> QED BY <2>1, <3>2, SlotsStay DEF Safe
  <2>2. CASE ~st[n][id].destroyed /\ s.destroyed /\ live' = [live EXCEPT ![n] = live[n] - 1]
    <3>1. id \in OpenStreams(n)
      BY <2>2 DEF OpenStreams
    <3> QED BY <2>2, <3>1, SlotLost DEF Safe
  <2> QED BY <2>1, <2>2
<1>5. OffersCounted'
  BY <1>1, OffersStay DEF Safe
<1> QED BY <1>2, <1>3, <1>4, <1>5 DEF Safe

\* A step that changes no stream, and sends no frame of an ID that is not used.
LEMMA QuietStep ==
  ASSUME TypeOK, Safe, UNCHANGED <<st, live, nextID, offered, deletes>>,
         errors' \in Nat, errors' >= errors,
         \A n \in Node : phase[n] = "destroyed" => phase'[n] = "destroyed",
         \A g \in net' : g \in net \/ g.type \notin StreamFrames
  PROVE  Safe'
<1>1. StreamsKnown'
  BY DEF Safe, StreamsKnown
<1>2. IDsFresh'
  <2>1. \A id \in Ids : Used(id)' => Used(id)
    BY DEF Used
  <2> QED BY <2>1, FreshStays DEF Safe
<1>3. SlotsDrift'
  <2>1. \A n \in Node : OpenStreams(n)' = OpenStreams(n)
    BY DEF OpenStreams
  <2> QED BY <2>1, SlotsStay DEF Safe
<1>4. OffersCounted'
  BY OffersStay DEF Safe
<1> QED BY <1>1, <1>2, <1>3, <1>4 DEF Safe

\* The session of n ends with its streams.
LEMMA DestroyStep ==
  ASSUME TypeOK, Safe, NEW n \in Node, DestroySession(n),
         UNCHANGED <<nextID, offered, deletes, errors>>, net' \subseteq net
  PROVE  Safe'
<1>1. /\ \A id \in Ids : st'[n][id] = NoStream
      /\ \A m \in Node : m # n => st'[m] = st[m]
  BY DEF DestroySession, TypeOK
<1>2. ~NoStream.known
  BY DEF NoStream
<1>3. StreamsKnown'
  BY <1>1 DEF Safe, StreamsKnown
<1>4. IDsFresh'
  <2>1. \A id \in Ids : Used(id)' => Used(id)
    BY <1>1, <1>2 DEF Used
  <2> QED BY <2>1, FreshStays DEF Safe
<1>5. SlotsDrift'
  <2> SUFFICES ASSUME NEW m \in Node
               PROVE  LET open == Cardinality(OpenStreams(m)')
                      IN live'[m] <= open /\ open <= live'[m] + errors' /\ open <= MaxStreams + errors'
    BY DEF SlotsDrift
  <2>1. /\ Cardinality(OpenStreams(m)) \in Nat
        /\ live \in [Node -> Int] /\ errors \in Nat /\ MaxStreams \in Nat
    BY OpenStreamsFinite, StreamLifecycleAssumption DEF TypeOK
  <2>2. LET open == Cardinality(OpenStreams(m))
        IN live[m] <= open /\ open <= live[m] + errors /\ open <= MaxStreams + errors
    BY DEF Safe, SlotsDrift
  <2>3. live' = [live EXCEPT ![n] = live[n] - Cardinality(OpenStreams(n))]
    BY DEF DestroySession, OpenStreams
  <2>4. CASE m # n
    <3>1. OpenStreams(m)' = OpenStreams(m)
      BY <1>1, <2>4 DEF OpenStreams
    <3>2. live'[m] = live[m]
      BY <2>1, <2>3, <2>4
    <3> HIDE DEF OpenStreams
    <3> QED BY <2>1, <2>2, <3>1, <3>2
  <2>5. CASE m = n
    <3>1. OpenStreams(n)' = {}
      BY <1>1, <1>2 DEF OpenStreams
    <3>2. Cardinality(OpenStreams(n)') = 0
      BY <3>1, FS_EmptySet
    <3>3. live'[n] = live[n] - Cardinality(OpenStreams(n)) /\ live[n] \in Int
      BY <2>1, <2>3
    <3> HIDE DEF OpenStreams
    <3> QED BY <2>1, <2>2, <2>5, <3>2, <3>3
  <2> QED BY <2>4, <2>5
<1>6. OffersCounted'
  <2>1. \A m \in Node : phase[m] = "destroyed" => phase'[m] = "destroyed"
    BY DEF DestroySession, TypeOK
  <2>2. phase'[n] = "destroyed"
    BY DEF DestroySession, TypeOK
  <2> QED BY <1>1, <2>1, <2>2, OffersStay DEF Safe
<1> QED BY <1>3, <1>4, <1>5, <1>6 DEF Safe

\* close() of a stream of kStreams that is not destroyed.
LEMMA CloseStep ==
  ASSUME TypeOK, Safe, NEW n \in Node, NEW id \in Ids, NEW s \in StreamStates,
         NEW rest \in SUBSET net, CloseStream(n, id, s, rest),
         st[n][id].known, ~st[n][id].destroyed, s.known, ~s.destroyed,
         UNCHANGED <<nextID, offered, deletes, phase>>
  PROVE  Safe'
<1>1. \A g \in net' : g \in net \/ (g.type \in StreamFrames => g.id = id)
  BY DEF CloseStream, RstStreamFrame
<1>2. CASE Put(n, id, [s EXCEPT !.localFIN = TRUE]) /\ UNCHANGED <<live, errors>>
  <2> DEFINE r == [s EXCEPT !.localFIN = TRUE]
  <2>1. r.known /\ r.destroyed = s.destroyed
    BY DEF StreamStates
  <2>2. errors' \in Nat /\ errors' >= errors /\ s.destroyed \in BOOLEAN
        /\ st[n][id].destroyed \in BOOLEAN
    BY <1>2 DEF TypeOK, StreamStates
  <2> HIDE DEF r
  <2>3. Put(n, id, r)
    BY <1>2 DEF r
  <2> QED BY <1>1, <1>2, <2>1, <2>2, <2>3, KnownStep
<1>3. CASE errors' = errors + 1 /\ DestroyStream(n, id, s)
  <2>1. Destroyed(s).known /\ Destroyed(s).destroyed
    BY DEF Destroyed, StreamStates
  <2>2. errors' \in Nat /\ errors' >= errors
    BY <1>3 DEF TypeOK
  <2> QED BY <1>1, <1>3, <2>1, <2>2, KnownStep DEF DestroyStream
<1> QED BY <1>2, <1>3 DEF CloseStream

\* destroy() of a stream of kStreams that is not destroyed.
LEMMA DestroyStreamStep ==
  ASSUME TypeOK, Safe, NEW n \in Node, NEW id \in Ids, NEW s \in StreamStates,
         DestroyStream(n, id, s), st[n][id].known, ~st[n][id].destroyed, s.known,
         UNCHANGED <<nextID, offered, deletes, phase, errors>>, net' \subseteq net
  PROVE  Safe'
<1>1. Destroyed(s).known /\ Destroyed(s).destroyed
  BY DEF Destroyed, StreamStates
<1>2. errors' \in Nat /\ errors' >= errors
  BY DEF TypeOK
<1> QED BY <1>1, <1>2, KnownStep DEF DestroyStream

-----------------------------------------------------------------------------
(* The steps                                                               *)

LEMMA SafeStream ==
  ASSUME TypeOK, Safe, NEW n \in Node, NEW id \in Ids,
         \/ Write(n, id) \/ End(n, id) \/ SentNext(n, id) \/ SentLast(n, id)
         \/ Close(n, id) \/ Destroy(n, id) \/ Finish(n, id) \/ Delete(n, id)
  PROVE  Safe'
<1> DEFINE s == st[n][id]
<1>0. s \in StreamStates /\ errors \in Nat
  BY DEF TypeOK
<1>1. s.flush \in {"data", "fin"} => s.known
  BY DEF Safe, StreamsKnown, NoStream
<1>2. /\ UNCHANGED <<nextID, offered, phase>>
      /\ Delete(n, id) \/ UNCHANGED deletes
  BY DEF Write, End, SentNext, SentLast, Close, Destroy, Finish, Delete, session
<1> HIDE DEF s
<1>3. ASSUME NEW r \in StreamStates, r.known = s.known, r.destroyed = s.destroyed, s.known,
             Put(n, id, r), UNCHANGED <<live, errors, deletes>>,
             \A g \in net' : g \in net \/ (g.type \in StreamFrames => g.id = id)
      PROVE  Safe'
  <2>1. errors' \in Nat /\ errors' >= errors /\ UNCHANGED <<nextID, offered, deletes, phase>>
    BY <1>0, <1>2, <1>3
  <2>2. st[n][id].known /\ r.known /\ r.destroyed = st[n][id].destroyed
    BY <1>3 DEF s
  <2> QED BY <1>3, <2>1, <2>2, KnownStep
<1>4. ASSUME NEW r \in StreamStates, r.known = s.known, r.destroyed = s.destroyed, s.known,
             FlushPiece(n, id, r), UNCHANGED <<live, errors, deletes>>, r.left > 0
      PROVE  Safe'
  <2> DEFINE q == [r EXCEPT !.left = r.left - 1, !.flush = "data", !.written = r.written + 1]
  <2>0. r.left \in Nat /\ r.written \in Nat /\ r.left - 1 \in Nat /\ r.written + 1 \in Nat
    BY <1>4 DEF StreamStates
  <2>1. q \in StreamStates /\ q.known = r.known /\ q.destroyed = r.destroyed
    BY <2>0 DEF StreamStates
  <2>2. Put(n, id, q)
    BY <1>4 DEF FlushPiece
  <2>3. \A g \in net' : g \in net \/ (g.type \in StreamFrames => g.id = id)
    BY <1>4 DEF FlushPiece, StreamFrame
  <2> HIDE DEF q
  <2> QED BY <1>3, <1>4, <2>1, <2>2, <2>3
<1>5. CASE Write(n, id)
  <2>1. PICK pieces \in 1..(MaxPieces - s.written) : FlushPiece(n, id, [s EXCEPT !.left = pieces])
    BY <1>5 DEF Write, s
  <2>2. pieces \in Nat /\ pieces > 0
    BY <1>0, <2>1, StreamLifecycleAssumption DEF StreamStates
  <2> DEFINE r == [s EXCEPT !.left = pieces]
  <2>3. r \in StreamStates /\ r.left > 0 /\ r.known = s.known /\ r.destroyed = s.destroyed
    BY <1>0, <2>2 DEF StreamStates
  <2>4. s.known /\ UNCHANGED <<live, errors, deletes>>
    BY <1>5 DEF Write, Open, s
  <2>5. FlushPiece(n, id, r)
    BY <2>1
  <2> HIDE DEF r
  <2> QED BY <1>4, <2>3, <2>4, <2>5
<1>6. CASE End(n, id)
  <2> DEFINE r == [s EXCEPT !.localFIN = TRUE, !.flush = "fin"]
  <2>1. r \in StreamStates /\ r.known = s.known /\ r.destroyed = s.destroyed
    BY <1>0 DEF StreamStates
  <2>2. /\ s.known /\ UNCHANGED <<live, errors, deletes>> /\ Put(n, id, r)
        /\ \A g \in net' : g \in net \/ (g.type \in StreamFrames => g.id = id)
    BY <1>6 DEF End, Open, s, StreamFrame
  <2> HIDE DEF r
  <2> QED BY <1>3, <2>1, <2>2
<1>7. CASE SentNext(n, id)
  BY <1>0, <1>1, <1>4, <1>7 DEF SentNext, s
<1>8. CASE SentLast(n, id)
  <2> DEFINE r == [s EXCEPT !.flush = IF s.flush = "fin" THEN "done" ELSE "idle"]
  <2>1. r \in StreamStates /\ r.known = s.known /\ r.destroyed = s.destroyed
    BY <1>0 DEF StreamStates
  <2>2. /\ s.known /\ UNCHANGED <<live, errors, deletes, net>> /\ Put(n, id, r)
    BY <1>1, <1>8 DEF SentLast, s
  <2> HIDE DEF r
  <2> QED BY <1>3, <2>1, <2>2
<1>9. CASE Close(n, id)
  <2>1. CloseStream(n, id, s, net) /\ s.known /\ ~s.destroyed
    BY <1>9 DEF Close, Open, s
  <2>2. UNCHANGED deletes
    BY <1>9 DEF Close
  <2> QED BY <1>0, <1>2, <2>1, <2>2, CloseStep DEF s
<1>10. CASE Destroy(n, id) \/ Finish(n, id)
  <2>1. DestroyStream(n, id, s) /\ s.known /\ ~s.destroyed /\ UNCHANGED <<errors, net, deletes>>
    BY <1>10 DEF Destroy, Finish, Open, s
  <2> QED BY <1>0, <1>2, <2>1, DestroyStreamStep DEF s
<1>11. CASE Delete(n, id)
  <2>1. /\ s.known /\ s.destroyed /\ Put(n, id, NoStream) /\ deletes' = deletes + 1
        /\ UNCHANGED <<live, errors, net>>
    BY <1>11 DEF Delete, s
  <2>2. /\ st'[n][id] = NoStream /\ \A i \in Ids : i # id => st'[n][i] = st[n][i]
        /\ \A m \in Node : m # n => st'[m] = st[m]
    BY <2>1 DEF Put, TypeOK
  <2>3. StreamsKnown'
    BY <2>2 DEF Safe, StreamsKnown
  <2>4. IDsFresh'
    <3>1. Used(id)
      BY <2>1 DEF Used, s
    <3>2. \A i \in Ids : Used(i)' => Used(i)
      BY <2>1, <3>1, UsedStays
    <3> QED BY <1>2, <3>2, FreshStays DEF Safe
  <2>5. SlotsDrift'
    <3>1. OpenStreams(n)' = OpenStreams(n)
      BY <2>1, <2>2 DEF OpenStreams, NoStream, s
    <3>2. \A m \in Node : OpenStreams(m)' = OpenStreams(m)
      BY <2>1, <3>1, OpenPut
    <3>3. errors' \in Nat /\ errors' >= errors
      BY <1>0, <2>1
    <3> QED BY <2>1, <3>2, <3>3, SlotsStay DEF Safe
  <2>6. OffersCounted'
    <3> SUFFICES ASSUME NEW m \in Node, NEW i \in Ids
                 PROVE  offered'[m][i] <=
                          deletes' + IF st'[m][i].known \/ phase'[m] = "destroyed" THEN 1 ELSE 0
      BY DEF OffersCounted
    <3>1. offered[m][i] <= deletes + IF st[m][i].known \/ phase[m] = "destroyed" THEN 1 ELSE 0
      BY DEF Safe, OffersCounted
    <3>2. offered[m][i] \in Nat /\ deletes \in Nat /\ UNCHANGED <<offered, phase>>
      BY <1>2 DEF TypeOK
    <3> QED BY <2>1, <3>1, <3>2
  <2> QED BY <2>3, <2>4, <2>5, <2>6 DEF Safe
<1> QED BY <1>5, <1>6, <1>7, <1>8, <1>9, <1>10, <1>11

\* request(): the ID was not used before, and the next one is not either.
LEMMA SafeRequest ==
  ASSUME TypeOK, Safe, NEW n \in Node, Request(n)
  PROVE  Safe'
<1> DEFINE id == nextID[n]
<1>1. /\ id \in Ids /\ Put(n, id, NewStream) /\ live[n] < MaxStreams
      /\ live' = [live EXCEPT ![n] = live[n] + 1]
      /\ nextID' = [nextID EXCEPT ![n] = id + 2]
      /\ UNCHANGED <<net, offered, deletes, errors, phase>>
  BY DEF Request, NextID, session
<1>2. /\ st'[n][id] = NewStream /\ \A i \in Ids : i # id => st'[n][i] = st[n][i]
      /\ \A m \in Node : m # n => st'[m] = st[m]
  BY <1>1 DEF Put, TypeOK
<1>3. ~Used(id) /\ ~st[n][id].known
  <2>1. OwnID(n, id) /\ id >= id
    BY DEF Safe, IDsFresh, TypeOK
  <2>2. /\ \A m \in Node : ~st[m][id].known
        /\ \A f \in net : f.type \in {"STREAM", "RST_STREAM"} => f.id # id
    BY <1>1, <2>1 DEF Safe, IDsFresh
  <2> QED BY <2>2 DEF Used, StreamFrames
<1>4. NewStream.known /\ ~NewStream.destroyed
  BY DEF NewStream, NoStream
<1>5. StreamsKnown'
  BY <1>2, <1>4 DEF Safe, StreamsKnown
<1>6. IDsFresh'
  <2> SUFFICES ASSUME NEW m \in Node
               PROVE  /\ nextID'[m] >= 2 /\ OwnID(m, nextID'[m])
                      /\ \A i \in Ids : OwnID(m, i) /\ i >= nextID'[m] => ~Used(i)'
    BY DEF IDsFresh, Used, StreamFrames, OwnID
  <2>1. \A i \in Ids : i # id => (Used(i)' => Used(i))
    BY <1>1, <1>2 DEF Used
  <2>2. \A k \in Node : /\ nextID[k] \in Nat /\ nextID[k] >= 2 /\ OwnID(k, nextID[k])
                        /\ \A i \in Ids : OwnID(k, i) /\ i >= nextID[k] => ~Used(i)
    BY DEF Safe, IDsFresh, Used, StreamFrames, TypeOK
  <2>3. Ids \subseteq Nat
    BY StreamLifecycleAssumption
  <2> HIDE DEF Used
  <2>4. CASE m = n
    <3>1. nextID'[n] = nextID[n] + 2
      BY <1>1 DEF TypeOK
    <3>2. OwnID(n, nextID[n] + 2)
      BY <2>2 DEF OwnID
    <3> QED BY <2>1, <2>2, <2>3, <2>4, <3>1, <3>2
  <2>5. CASE m # n
    <3>1. nextID'[m] = nextID[m]
      BY <1>1, <2>5 DEF TypeOK
    <3>2. ~OwnID(m, id)
      <4>1. OwnID(n, id) /\ Client # Server /\ (m = Client) # (n = Client)
        BY <2>2, <2>5, StreamLifecycleAssumption DEF Node
      <4> QED BY <4>1 DEF OwnID
    <3> QED BY <2>1, <2>2, <3>1, <3>2
  <2> QED BY <2>4, <2>5
<1>7. SlotsDrift'
  <2>1. id \notin OpenStreams(n)
    BY <1>3 DEF OpenStreams
  <2> QED BY <1>1, <1>4, <2>1, SlotGained DEF Safe
<1>8. OffersCounted'
  BY <1>1, <1>2, <1>4, OffersStay DEF Safe
<1> QED BY <1>5, <1>6, <1>7, <1>8 DEF Safe

LEMMA SafeSession ==
  ASSUME TypeOK, Safe, NEW n \in Node, Goaway(n) \/ SessionEnd(n) \/ SessionClosed(n)
  PROVE  Safe'
<1>0. errors \in Nat /\ UNCHANGED <<nextID, offered, deletes, errors>>
  BY DEF TypeOK, Goaway, SessionEnd, SessionClosed
<1>1. CASE Goaway(n)
  BY <1>0, <1>1, QuietStep DEF Goaway, session, GoAwayFrame, StreamFrames
<1>2. CASE DestroySession(n) /\ UNCHANGED net
  BY <1>0, <1>2, DestroyStep
<1>3. CASE /\ phase[n] = "live" /\ phase' = [phase EXCEPT ![n] = "closing"]
           /\ net' = net \cup {ConnectionCloseFrame(Peer(n))}
           /\ UNCHANGED <<st, live>>
  <2>1. \A m \in Node : phase[m] = "destroyed" => phase'[m] = "destroyed"
    BY <1>3 DEF TypeOK
  <2> QED BY <1>0, <1>3, <2>1, QuietStep DEF ConnectionCloseFrame, StreamFrames
<1> QED BY <1>1, <1>2, <1>3 DEF SessionEnd, SessionClosed

\* A stream that the peer opens is counted, and offered as one that is not known.
LEMMA SafeAccept ==
  ASSUME TypeOK, Safe, NEW n \in Node, NEW id \in Ids, NEW s, Put(n, id, s),
         ~st[n][id].known, phase[n] # "destroyed", Used(id), s.known, ~s.destroyed,
         live[n] < MaxStreams, live' = [live EXCEPT ![n] = live[n] + 1],
         offered' = [offered EXCEPT ![n][id] = offered[n][id] + 1],
         UNCHANGED <<nextID, deletes, errors, phase>>, net' \subseteq net
  PROVE  Safe'
<1>1. /\ st'[n][id] = s /\ \A i \in Ids : i # id => st'[n][i] = st[n][i]
      /\ \A m \in Node : m # n => st'[m] = st[m]
  BY DEF Put, TypeOK
<1>2. StreamsKnown'
  BY <1>1 DEF Safe, StreamsKnown
<1>3. IDsFresh'
  BY UsedStays, FreshStays DEF Safe
<1>4. SlotsDrift'
  <2>1. id \notin OpenStreams(n)
    BY DEF OpenStreams
  <2> QED BY <2>1, SlotGained DEF Safe
<1>5. OffersCounted'
  <2> SUFFICES ASSUME NEW m \in Node, NEW i \in Ids
               PROVE  offered'[m][i] <=
                        deletes' + IF st'[m][i].known \/ phase'[m] = "destroyed" THEN 1 ELSE 0
    BY DEF OffersCounted
  <2>1. offered[m][i] <= deletes + IF st[m][i].known \/ phase[m] = "destroyed" THEN 1 ELSE 0
    BY DEF Safe, OffersCounted
  <2>2. offered[m][i] \in Nat /\ deletes \in Nat /\ offered \in [Node -> [Ids -> Nat]]
    BY DEF TypeOK
  <2>3. CASE m = n /\ i = id
    <3>1. offered'[n][id] = offered[n][id] + 1
      BY <2>2
    <3> QED BY <1>1, <2>1, <2>2, <2>3, <3>1
  <2>4. CASE m # n \/ i # id
    <3>1. offered'[m][i] = offered[m][i]
      BY <2>2, <2>4
    <3>2. st'[m][i] = st[m][i]
      BY <1>1, <2>4
    <3> QED BY <2>1, <2>2, <3>1, <3>2
  <2> QED BY <2>3, <2>4
<1> QED BY <1>2, <1>3, <1>4, <1>5 DEF Safe

\* A stream that is refused: nothing but the error of its RST_STREAM counts.
LEMMA SafeRefusal ==
  ASSUME TypeOK, Safe, NEW n \in Node, NEW id \in Ids, Used(id),
         \/ UNCHANGED <<live, errors>>
         \/ errors' = errors + 1 /\ live' = [live EXCEPT ![n] = live[n] - 1],
         UNCHANGED <<st, nextID, offered, deletes, phase>>,
         \A g \in net' : g \in net \/ (g.type \in StreamFrames => g.id = id)
  PROVE  Safe'
<1>1. StreamsKnown'
  BY DEF Safe, StreamsKnown
<1>2. IDsFresh'
  <2>1. \A i \in Ids : Used(i)' => Used(i)
    BY DEF Used
  <2> QED BY <2>1, FreshStays DEF Safe
<1>3. SlotsDrift'
  <2>1. \A m \in Node : OpenStreams(m)' = OpenStreams(m)
    BY DEF OpenStreams
  <2>2. CASE UNCHANGED <<live, errors>>
    BY <2>1, <2>2, SlotsStay DEF Safe, TypeOK
  <2>3. CASE errors' = errors + 1 /\ live' = [live EXCEPT ![n] = live[n] - 1]
    <3> SUFFICES ASSUME NEW m \in Node
                 PROVE  LET open == Cardinality(OpenStreams(m)')
                        IN live'[m] <= open /\ open <= live'[m] + errors' /\ open <= MaxStreams + errors'
      BY DEF SlotsDrift
    <3>1. /\ Cardinality(OpenStreams(m)) \in Nat /\ live[m] \in Int /\ errors \in Nat
          /\ MaxStreams \in Nat
      BY OpenStreamsFinite, StreamLifecycleAssumption DEF TypeOK
    <3>2. LET open == Cardinality(OpenStreams(m))
          IN live[m] <= open /\ open <= live[m] + errors /\ open <= MaxStreams + errors
      BY DEF Safe, SlotsDrift
    <3>3. live'[m] = live[m] \/ live'[m] = live[m] - 1
      BY <2>3 DEF TypeOK
    <3> HIDE DEF OpenStreams
    <3> QED BY <2>1, <2>3, <3>1, <3>2, <3>3
  <2> QED BY <2>2, <2>3
<1>4. OffersCounted'
  BY OffersStay DEF Safe
<1> QED BY <1>1, <1>2, <1>3, <1>4 DEF Safe

LEMMA SafeArrive ==
  ASSUME TypeOK, Safe, NEW f \in net, NEW rest \in SUBSET net, Arrive(f, rest)
  PROVE  Safe'
<1> DEFINE n == f.to
<1>0. /\ f \in Frames /\ n \in Node /\ errors \in Nat
      /\ UNCHANGED <<nextID, deletes>>
  BY DEF TypeOK, Frames, Arrive
<1> HIDE DEF n
<1>2. CASE ReceiveStream(f, rest) /\ UNCHANGED phase /\ phase[n] # "destroyed"
  <2> DEFINE s == st[n][f.id]
  <2>1. f.type = "STREAM" /\ f.id \in Ids
    BY <1>0, <1>2 DEF ReceiveStream, Frames
  <2>2. s \in StreamStates /\ NewStream \in StreamStates
    BY <1>0, <2>1, StreamTypes DEF TypeOK
  <2>3. \A r \in StreamStates :
          Handled(r, f).known = r.known /\ Handled(r, f).destroyed = r.destroyed
    BY DEF Handled, StreamStates
  <2>4. Used(f.id)
    BY <2>1 DEF Used, StreamFrames
  <2>5. CASE s.known
    <3>1. UNCHANGED <<live, offered, errors>> /\ net' = rest
          /\ (UNCHANGED st \/ Put(n, f.id, Handled(s, f)))
      BY <1>2, <2>5 DEF ReceiveStream, n
    <3>2. CASE UNCHANGED st
      BY <1>0, <1>2, <3>1, <3>2, QuietStep
    <3>3. CASE Put(n, f.id, Handled(s, f))
      <4>1. Handled(s, f).known /\ Handled(s, f).destroyed = st[n][f.id].destroyed
        BY <2>2, <2>3, <2>5
      <4>2. errors' \in Nat /\ errors' >= errors
        BY <1>0, <3>1
      <4> HIDE DEF StreamFrames
      <4> QED BY <1>0, <1>2, <2>1, <2>5, <3>1, <3>3, <4>1, <4>2, KnownStep
    <3> QED BY <3>1, <3>2, <3>3
  <2>6. CASE ~s.known /\ shuttingDown[n]
    BY <1>0, <1>2, <2>6, QuietStep DEF ReceiveStream, n
  <2>7. CASE ~s.known /\ ~shuttingDown[n] /\ live[n] >= MaxStreams
    <3>1. /\ net' = rest \cup {RstStreamFrame(Peer(n), f.id, 0)}
          /\ \/ UNCHANGED <<live, errors>>
             \/ errors' = errors + 1 /\ live' = [live EXCEPT ![n] = live[n] - 1]
          /\ UNCHANGED <<st, offered>>
      BY <1>2, <2>7 DEF ReceiveStream, n
    <3>2. \A g \in net' : g \in net \/ (g.type \in StreamFrames => g.id = f.id)
      BY <3>1 DEF RstStreamFrame
    <3> QED BY <1>0, <1>2, <2>1, <2>4, <3>1, <3>2, SafeRefusal
  <2>8. CASE ~s.known /\ ~shuttingDown[n] /\ ~(live[n] >= MaxStreams)
    <3>1. /\ Put(n, f.id, Handled(NewStream, f))
          /\ live' = [live EXCEPT ![n] = live[n] + 1]
          /\ offered' = [offered EXCEPT ![n][f.id] = offered[n][f.id] + 1]
          /\ net' = rest /\ UNCHANGED errors
      BY <1>2, <2>8 DEF ReceiveStream, n
    <3>2. Handled(NewStream, f).known /\ ~Handled(NewStream, f).destroyed
      BY <2>2, <2>3 DEF NewStream, NoStream
    <3>3. live[n] < MaxStreams
      BY <1>0, <2>8, StreamLifecycleAssumption DEF TypeOK
    <3> QED BY <1>0, <1>2, <2>1, <2>4, <2>8, <3>1, <3>2, <3>3, SafeAccept
  <2> QED BY <2>5, <2>6, <2>7, <2>8
<1>3. CASE ReceiveRst(f, rest) /\ UNCHANGED phase
  <2> DEFINE s == st[n][f.id]
             noted == [s EXCEPT !.remoteFIN = TRUE, !.final = f.offset]
  <2>1. f.type = "RST_STREAM" /\ f.id \in Ids /\ f.offset \in Nat
    BY <1>0, <1>3 DEF ReceiveRst, Frames
  <2>2. s \in StreamStates
    BY <1>0, <2>1 DEF TypeOK
  <2>3. noted \in StreamStates /\ noted.known = s.known /\ noted.destroyed = s.destroyed
    BY <2>1, <2>2, StreamTypes DEF StreamStates
  <2>4. \/ net' = rest /\ UNCHANGED <<st, live, resetAt, errors>>
        \/ /\ s.known /\ ~s.destroyed
           /\ \/ DestroyStream(n, f.id, noted) /\ net' = rest /\ UNCHANGED <<resetAt, errors>>
              \/ CloseStream(n, f.id, noted, rest)
    BY <1>3 DEF ReceiveRst, n
  <2>5. UNCHANGED offered
    BY <1>3 DEF ReceiveRst
  <2> HIDE DEF noted
  <2>6. CASE net' = rest /\ UNCHANGED <<st, live, resetAt, errors>>
    BY <1>0, <1>3, <2>5, <2>6, QuietStep
  <2>7. CASE s.known /\ ~s.destroyed /\ DestroyStream(n, f.id, noted) /\ net' = rest
             /\ UNCHANGED <<resetAt, errors>>
    BY <1>0, <1>3, <2>1, <2>3, <2>5, <2>7, DestroyStreamStep
  <2>8. CASE s.known /\ ~s.destroyed /\ CloseStream(n, f.id, noted, rest)
    BY <1>0, <1>3, <2>1, <2>3, <2>5, <2>8, CloseStep
  <2> QED BY <2>4, <2>6, <2>7, <2>8
<1>4. CASE ReceiveGoaway(f, rest) /\ UNCHANGED phase
  BY <1>0, <1>4, QuietStep DEF ReceiveGoaway
<1>5. CASE ReceiveConnectionClose(f, rest)
  BY <1>0, <1>5, DestroyStep DEF ReceiveConnectionClose, n
<1>6. CASE net' = rest /\ UNCHANGED <<st, live, shuttingDown, resetAt, offered, errors, phase>>
  BY <1>0, <1>6, QuietStep
<1> QED BY <1>2, <1>3, <1>4, <1>5, <1>6 DEF Arrive, n

\* Errors and deletions keep their bounds.
Bounded == errors <= MaxErrors /\ deletes <= MaxDeletes

LEMMA BoundedStep == TypeOK /\ Bounded /\ [Next]_vars => Bounded'
<1> SUFFICES ASSUME TypeOK, Bounded, [Next]_vars PROVE Bounded'
  OBVIOUS
<1>0. errors \in Nat /\ deletes \in Nat /\ MaxErrors \in Nat /\ MaxDeletes \in Nat
  BY StreamLifecycleAssumption DEF TypeOK
<1>1. SUFFICES /\ UNCHANGED errors \/ (errors < MaxErrors /\ errors' = errors + 1)
               /\ UNCHANGED deletes \/ (deletes < MaxDeletes /\ deletes' = deletes + 1)
  BY <1>0 DEF Bounded
<1>2. ASSUME NEW f, NEW rest, Arrive(f, rest)
      PROVE  /\ UNCHANGED errors \/ (errors < MaxErrors /\ errors' = errors + 1)
             /\ UNCHANGED deletes
  BY <1>2 DEF Arrive, ReceiveStream, ReceiveRst, ReceiveGoaway, ReceiveConnectionClose, CloseStream
<1>3. ASSUME NEW n \in Node, NEW id \in Ids,
             \/ Write(n, id) \/ End(n, id) \/ SentNext(n, id) \/ SentLast(n, id)
             \/ Destroy(n, id) \/ Finish(n, id)
      PROVE  UNCHANGED <<errors, deletes>>
  BY <1>3 DEF Write, End, SentNext, SentLast, Destroy, Finish
<1>4. ASSUME NEW n \in Node, NEW id \in Ids, Close(n, id)
      PROVE  /\ UNCHANGED errors \/ (errors < MaxErrors /\ errors' = errors + 1)
             /\ UNCHANGED deletes
  BY <1>4 DEF Close, CloseStream
<1>5. ASSUME NEW n \in Node, NEW id \in Ids, Delete(n, id)
      PROVE  UNCHANGED errors /\ deletes < MaxDeletes /\ deletes' = deletes + 1
  BY <1>5 DEF Delete
<1>6. ASSUME NEW n \in Node, Request(n) \/ Goaway(n) \/ SessionEnd(n) \/ SessionClosed(n)
      PROVE  UNCHANGED <<errors, deletes>>
  BY <1>6 DEF Request, Goaway, SessionEnd, SessionClosed
<1>7. CASE UNCHANGED vars
  BY <1>7 DEF vars
<1> QED BY <1>2, <1>3, <1>4, <1>5, <1>6, <1>7 DEF Next, Deliver, DeliverAgain

LEMMA InitInv == Init => IInv /\ Bounded
<1> SUFFICES ASSUME Init PROVE IInv /\ Bounded
  OBVIOUS
<1>1. TypeOK
  BY TypeInit
<1>2. /\ \A n \in Node, id \in Ids : st[n][id].known <=> (n = Client /\ id = 1)
      /\ \A n \in Node, id \in Ids : ~st[n][id].known => st[n][id] = NoStream
      /\ \A n \in Node, id \in Ids : ~st[n][id].destroyed
      /\ \A n \in Node : nextID[n] = (IF n = Client THEN 3 ELSE 2)
  BY DEF Init, NewStream, NoStream, InitStream, NextID
<1>3. StreamsKnown
  BY <1>2 DEF StreamsKnown
<1>4. IDsFresh
  BY <1>2, StreamLifecycleAssumption DEF Init, IDsFresh, OwnID
<1>5. SlotsDrift
  <2> SUFFICES ASSUME NEW n \in Node
               PROVE  LET open == Cardinality(OpenStreams(n))
                      IN live[n] <= open /\ open <= live[n] + errors /\ open <= MaxStreams + errors
    BY DEF SlotsDrift
  <2>0. 1 \in Ids
    BY StreamLifecycleAssumption DEF InitStream
  <2>1. OpenStreams(n) = IF n = Client THEN {1} ELSE {}
    <3>1. \A id : id \in OpenStreams(n) <=> id \in Ids /\ n = Client /\ id = 1
      BY <1>2 DEF OpenStreams
    <3> HIDE DEF OpenStreams
    <3> QED BY <2>0, <3>1
  <2>2. Cardinality(OpenStreams(n)) = IF n = Client THEN 1 ELSE 0
    BY <2>1, FS_Singleton, FS_EmptySet
  <2> HIDE DEF OpenStreams
  <2> QED BY <2>2, StreamLifecycleAssumption DEF Init
<1>6. OffersCounted
  BY DEF Init, OffersCounted
<1>7. Bounded
  BY StreamLifecycleAssumption DEF Init, Bounded
<1> QED BY <1>1, <1>3, <1>4, <1>5, <1>6, <1>7 DEF IInv

LEMMA StepInv == IInv /\ [Next]_vars => IInv'
<1> SUFFICES ASSUME IInv, [Next]_vars PROVE IInv'
  OBVIOUS
<1>1. TypeOK /\ Safe /\ TypeOK'
  BY TypeStep DEF IInv, Safe
<1>2. ASSUME NEW n \in Node, Request(n)
      PROVE  Safe'
  BY <1>1, <1>2, SafeRequest
<1>3. ASSUME NEW n \in Node, Goaway(n) \/ SessionEnd(n) \/ SessionClosed(n)
      PROVE  Safe'
  BY <1>1, <1>3, SafeSession
<1>4. ASSUME NEW n \in Node, NEW id \in Ids,
             \/ Write(n, id) \/ End(n, id) \/ SentNext(n, id) \/ SentLast(n, id)
             \/ Close(n, id) \/ Destroy(n, id) \/ Finish(n, id) \/ Delete(n, id)
      PROVE  Safe'
  BY <1>1, <1>4, SafeStream
<1>5. ASSUME NEW f \in net, Deliver(f)
      PROVE  Safe'
  BY <1>1, <1>5, SafeArrive DEF Deliver
<1>6. ASSUME DeliverAgain
      PROVE  Safe'
  BY <1>1, <1>6, SafeArrive DEF DeliverAgain
<1>7. ASSUME UNCHANGED vars
      PROVE  Safe'
  <2>1. UNCHANGED <<st, live, nextID, offered, deletes, errors, net, phase>>
    BY <1>7 DEF vars, session
  <2>2. errors' \in Nat /\ errors' >= errors
    BY <1>1, <2>1 DEF TypeOK
  <2> QED BY <1>1, <2>1, <2>2, QuietStep
<1>8. ASSUME Next
      PROVE  Safe'
  <2>1. CASE \E f \in net : Deliver(f)
    BY <1>5, <2>1
  <2>2. CASE \E n \in Node :
               \/ Request(n) \/ Goaway(n) \/ SessionEnd(n) \/ SessionClosed(n)
               \/ \E id \in Ids : \/ Write(n, id) \/ End(n, id)
                                 \/ SentNext(n, id) \/ SentLast(n, id)
                                 \/ Close(n, id) \/ Destroy(n, id) \/ Finish(n, id)
                                 \/ Delete(n, id)
    BY <1>2, <1>3, <1>4, <2>2
  <2> QED BY <1>6, <1>8, <2>1, <2>2 DEF Next
<1> QED BY <1>1, <1>7, <1>8 DEF IInv, Safe

\* The inductive invariant, whatever the numbers of errors, deletions, closes,
\* repetitions and ends of sessions: request() uses fresh IDs, the count differs
\* from the open streams by the errors at most, and offers are repeated only
\* after deletions.
THEOREM Invariance == Spec => []IInv
BY InitInv, StepInv, PTL DEF Spec

LEMMA BoundsHold == Spec => [](IInv /\ Bounded)
<1>1. IInv => TypeOK
  BY DEF IInv
<1> QED BY <1>1, InitInv, StepInv, BoundedStep, PTL DEF Spec

\* Every variable of the streams of both ends keeps its type, for any numbers
\* of IDs, pieces, closes, errors and repetitions.
THEOREM TypeCorrect == Spec => []TypeOK
<1>1. IInv => TypeOK
  BY DEF IInv
<1> QED BY <1>1, Invariance, PTL

\* When no RST_STREAM calls back an error, liveStreamCount is the number of
\* open streams in every reachable state.
THEOREM SlotsAreCounted == ASSUME MaxErrors = 0 PROVE Spec => []SlotsCounted
<1>1. IInv /\ Bounded => SlotsCounted
  <2> SUFFICES ASSUME IInv, Bounded, NEW n \in Node
               PROVE  live[n] = Cardinality(OpenStreams(n))
    BY DEF SlotsCounted
  <2>1. errors = 0 /\ live[n] \in Int /\ Cardinality(OpenStreams(n)) \in Nat
    BY OpenStreamsFinite DEF IInv, TypeOK, Bounded
  <2>2. live[n] <= Cardinality(OpenStreams(n)) /\ Cardinality(OpenStreams(n)) <= live[n] + errors
    BY DEF IInv, SlotsDrift
  <2> HIDE DEF OpenStreams
  <2> QED BY <2>1, <2>2
<1> QED BY <1>1, BoundsHold, PTL

\* When no RST_STREAM calls back an error, no end has more than MaxStreams
\* streams open at once, its own and those of the peer taken together.
THEOREM OpenIsBounded == ASSUME MaxErrors = 0 PROVE Spec => []OpenBounded
<1>1. IInv /\ Bounded => OpenBounded
  <2> SUFFICES ASSUME IInv, Bounded, NEW n \in Node
               PROVE  Cardinality(OpenStreams(n)) <= MaxStreams
    BY DEF OpenBounded
  <2>1. errors = 0 /\ Cardinality(OpenStreams(n)) \in Nat /\ MaxStreams \in Nat
    BY OpenStreamsFinite, StreamLifecycleAssumption DEF IInv, TypeOK, Bounded
  <2>2. Cardinality(OpenStreams(n)) <= MaxStreams + errors
    BY DEF IInv, SlotsDrift
  <2> HIDE DEF OpenStreams
  <2> QED BY <2>1, <2>2
<1> QED BY <1>1, BoundsHold, PTL

\* As long as no idle stream is deleted, the application is offered each stream
\* ID once at most, however frames repeat and overtake each other.
THEOREM OffersAreUnique == ASSUME MaxDeletes = 0 PROVE Spec => []OfferedOnce
<1>1. IInv /\ Bounded => OfferedOnce
  <2> SUFFICES ASSUME IInv, Bounded, NEW n \in Node, NEW id \in Ids
               PROVE  offered[n][id] <= 1
    BY DEF OfferedOnce
  <2>1. deletes = 0 /\ offered[n][id] \in Nat
    BY DEF IInv, TypeOK, Bounded
  <2>2. offered[n][id] <= deletes + IF st[n][id].known \/ phase[n] = "destroyed" THEN 1 ELSE 0
    BY DEF IInv, OffersCounted
  <2> QED BY <2>1, <2>2
<1> QED BY <1>1, BoundsHold, PTL
=============================================================================
