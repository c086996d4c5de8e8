--------------------------- MODULE SessionsProofs ---------------------------
(***************************************************************************)
(* Sockets, clients and sessions end in order: TypeOK, SocketsHeld,        *)
(* ReadyLinked and SessionsHeard of Sessions hold in every reachable       *)
(* state, for any numbers of clients, sockets, calls and packets.  All but *)
(* TypeOK are for applications that wait for the calls they have made      *)
(* (Overlap is FALSE): SessionsConnect shows what happens otherwise.       *)
(***************************************************************************)
EXTENDS Sessions, FiniteSetTheorems, TLAPS

USE DEF None

-----------------------------------------------------------------------------
(* Types                                                                   *)

LEMMA DestroyType ==
  ASSUME TypeOK, NEW c \in Clients, DestroyClient(c)
  PROVE  /\ client' \in [Clients -> ClientStates]
         /\ sock' \in [Sockets \cup ServerSockets -> SocketStates]
<1>1. client' \in [Clients -> ClientStates]
  <2> DEFINE ended == [client[c] EXCEPT !.stage = "destroyed", !.socket = None,
                                        !.closing = FALSE]
  <2>1. client[c] \in ClientStates /\ client \in [Clients -> ClientStates]
    BY DEF TypeOK
  <2>2. ended \in ClientStates
    BY <2>1 DEF ClientStates
  <2>3. client' = [client EXCEPT ![c] = ended]
    BY DEF DestroyClient
  <2> HIDE DEF ended
  <2> QED BY <2>1, <2>2, <2>3
<1>2. CASE client[c].socket = None
  BY <1>1, <1>2 DEF TypeOK, DestroyClient
<1>3. CASE client[c].socket # None
  <2>1. client[c].socket \in Sockets
    BY <1>3 DEF TypeOK, ClientStates
  <2>2. sock[client[c].socket] \in SocketStates
    BY <2>1 DEF TypeOK
  <2>3. \A state \in {"closed", sock[client[c].socket].state} :
          [sock[client[c].socket] EXCEPT !.conns = sock[client[c].socket].conns \ {c},
                                         !.state = state] \in SocketStates
    BY <2>2 DEF SocketStates
  <2> QED BY <1>1, <1>3, <2>1, <2>3 DEF TypeOK, DestroyClient
<1> QED BY <1>2, <1>3

LEMMA CloseType ==
  ASSUME TypeOK, NEW c \in Clients, NEW kind \in {"close", "reset"}, CloseClient(c, kind),
         closes' \in Nat
  PROVE  TypeOK'
<1>1. CASE Linked(c)
  <2>1. ToServer(c, kind) \in Packets
    BY DEF Packets, ClientStates, ToServer, ResetPacket, RegularPacket, TypeOK
  <2>2. client' \in [Clients -> ClientStates]
    <3>1. client' = [client EXCEPT ![c] = [@ EXCEPT !.closing = TRUE, !.sent = TRUE]]
      BY <1>1 DEF CloseClient
    <3>2. client \in [Clients -> ClientStates]
      BY DEF TypeOK
    <3> QED BY <3>1, <3>2 DEF ClientStates
  <2> QED BY <1>1, <2>1, <2>2 DEF CloseClient, TypeOK, serverSide
<1>2. CASE ~Linked(c)
  BY <1>2, DestroyType DEF CloseClient, TypeOK, ClientStates, serverSide
<1> QED BY <1>1, <1>2

LEMMA TypeInit == Init => TypeOK
BY SessionsAssumption DEF Init, TypeOK, ClientStates, SocketStates, ServerStates, SessionStates, NoClient, NoSession

LEMMA TypeClient ==
  ASSUME TypeOK, NEW c \in Clients, ClientNext(c)
  PROVE  TypeOK'
<1>1. CASE NewClient(c)
  BY <1>1 DEF NewClient, TypeOK, ClientStates, serverSide
<1>2. CASE Connect(c)
  BY <1>2 DEF Connect, Begin, TypeOK, Calls, serverSide
<1>3. CASE Spawn(c)
  BY <1>3 DEF Spawn, Begin, TypeOK, Calls, ClientStates, serverSide
<1>4. CASE SendData(c)
  <2>1. ToServer(c, "data") \in Packets
    BY DEF Packets, ClientStates, ToServer, RegularPacket, TypeOK
  <2>2. client' \in [Clients -> ClientStates]
    BY <1>4 DEF SendData, TypeOK, ClientStates
  <2> QED BY <1>4, <2>1, <2>2 DEF SendData, TypeOK, serverSide
<1>5. CASE Close(c)
  <2>1. closes' \in Nat
    BY <1>5 DEF Close, TypeOK
  <2> QED BY <1>5, <2>1, CloseType DEF Close
<1>6. CASE Destroy(c)
  BY <1>6, DestroyType DEF Destroy, TypeOK, serverSide
<1>7. CASE CloseSent(c)
  BY <1>7, DestroyType DEF CloseSent, TypeOK, serverSide
<1>8. CASE Idle(c)
  <2>1. closes' \in Nat
    BY <1>8 DEF Idle, TypeOK
  <2> QED BY <1>8, <2>1, CloseType DEF Idle
<1> QED BY <1>1, <1>2, <1>3, <1>4, <1>5, <1>6, <1>7, <1>8 DEF ClientNext

LEMMA TypeSession ==
  ASSUME TypeOK, NEW c \in Clients, SessionNext(c)
  PROVE  TypeOK'
<1>0. \A kind \in {"data", "close", "reset"} : ToClient(c, kind) \in Packets
  BY DEF Packets, ToClient, ResetPacket, RegularPacket
<1>1. CASE SessionSend(c)
  BY <1>0, <1>1 DEF SessionSend, TypeOK, SessionStates, clientSide
<1>2. CASE SessionClose(c)
  <2>1. session' \in [Clients -> SessionStates]
    <3>1. \/ session' = [session EXCEPT ![c] = [@ EXCEPT !.closing = TRUE, !.sent = TRUE]]
          \/ session' = [session EXCEPT ![c].destroyed = TRUE]
      BY <1>2 DEF SessionClose, CloseSession
    <3>2. session \in [Clients -> SessionStates]
      BY DEF TypeOK
    <3> QED BY <3>1, <3>2 DEF SessionStates
  <2> QED BY <1>0, <1>2, <2>1 DEF SessionClose, CloseSession, TypeOK, clientSide
<1>3. CASE SessionClosed(c)
  BY <1>3 DEF SessionClosed, TypeOK, SessionStates, clientSide
<1>4. CASE SessionIdle(c)
  BY <1>4 DEF SessionIdle, NoSession, TypeOK, SessionStates, clientSide
<1> QED BY <1>1, <1>2, <1>3, <1>4 DEF SessionNext

LEMMA TypeCall ==
  ASSUME TypeOK, NEW call \in calls, CallNext(call)
  PROVE  TypeOK'
<1>0. call \in Calls
  BY DEF TypeOK
<1>1. CASE ConnectLookedUp(call)
  <2>1. client' \in [Clients -> ClientStates]
    <3>1. PICK s \in Sockets : client' = [client EXCEPT ![call.by].socket = s]
      BY <1>1 DEF ConnectLookedUp
    <3>2. client \in [Clients -> ClientStates] /\ call.by \in Clients
      BY <1>0 DEF TypeOK, Calls
    <3> QED BY <3>1, <3>2 DEF ClientStates
  <2>2. sock' \in [Sockets \cup ServerSockets -> SocketStates]
    BY <1>0, <1>1 DEF ConnectLookedUp, TypeOK, SocketStates, Calls
  <2>3. calls' \subseteq Calls
    BY <1>0, <1>1 DEF ConnectLookedUp, TypeOK, Calls
  <2> QED BY <1>1, <2>1, <2>2, <2>3 DEF ConnectLookedUp, TypeOK, serverSide
<1>2. CASE ConnectListening(call)
  <2>1. client' \in [Clients -> ClientStates]
    BY <1>0, <1>2 DEF ConnectListening, TypeOK, ClientStates
  <2>2. sock' \in [Sockets \cup ServerSockets -> SocketStates]
    BY <1>0, <1>2 DEF ConnectListening, TypeOK, SocketStates, Calls
  <2> QED BY <1>2, <2>1, <2>2 DEF ConnectListening, TypeOK, serverSide
<1>3. CASE SpawnLookedUp(call)
  <2>1. PICK d \in Clients :
          /\ client' = [client EXCEPT ![d] =
               [@ EXCEPT !.stage = "live", !.socket = call.socket,
                         !.ready = sock[call.socket].state = "open"]]
          /\ sock' = [sock EXCEPT ![call.socket] =
               [@ EXCEPT !.conns = sock[call.socket].conns \cup {d}, !.exclusive = FALSE]]
    BY <1>3 DEF SpawnLookedUp
  <2>2. client' \in [Clients -> ClientStates]
    <3>1. client \in [Clients -> ClientStates] /\ call.socket \in Sockets \cup {None}
      BY <1>0 DEF TypeOK, Calls
    <3>2. \A r \in ClientStates, ready \in BOOLEAN :
            [r EXCEPT !.stage = "live", !.socket = call.socket, !.ready = ready] \in ClientStates
      BY <3>1 DEF ClientStates
    <3> QED BY <2>1, <3>1, <3>2
  <2>3. sock' \in [Sockets \cup ServerSockets -> SocketStates]
    <3>1. sock \in [Sockets \cup ServerSockets -> SocketStates]
      BY DEF TypeOK
    <3>2. \A r \in SocketStates : [r EXCEPT !.conns = r.conns \cup {d}, !.exclusive = FALSE]
                                     \in SocketStates
      BY DEF SocketStates
    <3> QED BY <2>1, <3>1, <3>2
  <2> QED BY <1>3, <2>2, <2>3 DEF SpawnLookedUp, TypeOK, serverSide
<1>4. CASE LookupFails(call)
  BY <1>4 DEF LookupFails, TypeOK, serverSide
<1> QED BY <1>1, <1>2, <1>3, <1>4 DEF CallNext

LEMMA TypeReceive ==
  ASSUME TypeOK, NEW p \in net, ClientReceive(p) \/ ServerReceive(p)
  PROVE  TypeOK'
<1>0. p.id \in Clients
  BY DEF TypeOK, Packets
<1>1. CASE ClientReceive(p)
  <2>1. \A version \in BOOLEAN : RegularPacket("server", p.id, "data", version) \in Packets
    BY <1>0 DEF Packets, RegularPacket
  <2>2. CASE client[p.id].stage # "live" \/ ~Linked(p.id) \/ p.kind = "negotiation"
    BY <1>1, <2>2 DEF ClientReceive, TypeOK, ClientStates, serverSide
  <2>3. CASE /\ ~(client[p.id].stage # "live" \/ ~Linked(p.id) \/ p.kind = "negotiation")
             /\ p.kind = "data"
    <3>1. client' \in [Clients -> ClientStates]
      <4>1. client' = [client EXCEPT ![p.id].negotiated = TRUE]
        BY <1>1, <2>3 DEF ClientReceive
      <4>2. client \in [Clients -> ClientStates]
        BY DEF TypeOK
      <4> QED BY <4>1, <4>2, <1>0 DEF ClientStates
    <3>2. sends' \in Nat
      <4>1. sends' = sends \/ sends' = sends + 1
        BY <1>1, <2>3 DEF ClientReceive
      <4> QED BY <4>1 DEF TypeOK
    <3>3. net' \subseteq Packets
      BY <1>1, <2>1, <2>3 DEF ClientReceive, TypeOK
    <3> QED BY <1>1, <2>3, <3>1, <3>2, <3>3 DEF ClientReceive, TypeOK, serverSide
  <2>4. CASE /\ ~(client[p.id].stage # "live" \/ ~Linked(p.id) \/ p.kind = "negotiation")
             /\ p.kind # "data"
    BY <1>0, <1>1, <2>4, DestroyType DEF ClientReceive, TypeOK, ClientStates, serverSide
  <2> QED BY <2>2, <2>3, <2>4
<1>2. CASE ServerReceive(p)
  <2>1. NegotiationPacket(p.id) \in Packets
    BY <1>0 DEF Packets, NegotiationPacket
  <2>2. session' \in [Clients -> SessionStates]
    <3>1. session[p.id] \in SessionStates
      BY <1>0 DEF TypeOK
    <3>2. [session[p.id] EXCEPT !.destroyed = TRUE] \in SessionStates
      BY <3>1 DEF SessionStates
    <3>3. \A s \in ServerSockets :
            [session[p.id] EXCEPT !.known = TRUE, !.socket = s] \in SessionStates
      BY <3>1 DEF SessionStates
    <3>4. \A e \in SessionStates, offered, destroyed \in BOOLEAN :
            [e EXCEPT !.negotiated = TRUE, !.offered = offered, !.destroyed = destroyed]
              \in SessionStates
      BY DEF SessionStates
    <3>5. \A e \in SessionStates : e.offered \in BOOLEAN /\ e.known \in BOOLEAN
      BY DEF SessionStates
    <3>6. \/ UNCHANGED session
          \/ \E e \in SessionStates : session' = [session EXCEPT ![p.id] = e]
      BY <1>2, <3>1, <3>2, <3>3, <3>4, <3>5 DEF ServerReceive
    <3> QED BY <1>0, <3>6 DEF TypeOK
  <2>3. net' \subseteq net \cup {NegotiationPacket(p.id)}
    BY <1>2 DEF ServerReceive
  <2> QED BY <1>2, <2>1, <2>2, <2>3 DEF ServerReceive, TypeOK, clientSide
<1> QED BY <1>1, <1>2

LEMMA TypeServer ==
  ASSUME TypeOK,
         \/ Listen \/ ListenLookedUp \/ ListenLookupFails \/ Bound
         \/ ServerClose \/ ServerCloseNext \/ ServerCloseDone \/ ServerOnClose \/ Lose
  PROVE  TypeOK'
<1>1. CASE Listen
  BY <1>1 DEF Listen, TypeOK, ServerStates, clientSide
<1>2. CASE ListenLookedUp
  <2>1. server' \in ServerStates
    <3>1. PICK s \in ServerSockets :
            server.listens > 0 /\ server' = [server EXCEPT !.listens = @ - 1, !.socket = s]
      BY <1>2 DEF ListenLookedUp
    <3>2. server \in ServerStates
      BY DEF TypeOK
    <3>3. server.listens - 1 \in Nat
      BY <3>1, <3>2 DEF ServerStates
    <3>4. \A n \in Nat : [server EXCEPT !.listens = n, !.socket = s] \in ServerStates
      BY <3>2 DEF ServerStates
    <3> QED BY <3>1, <3>3, <3>4
  <2>2. sock' \in [Sockets \cup ServerSockets -> SocketStates]
    <3>1. PICK s \in ServerSockets : sock' = [sock EXCEPT ![s].state = "binding"]
      BY <1>2 DEF ListenLookedUp
    <3>2. sock \in [Sockets \cup ServerSockets -> SocketStates]
      BY DEF TypeOK
    <3> QED BY <3>1, <3>2 DEF SocketStates
  <2> QED BY <1>2, <2>1, <2>2 DEF ListenLookedUp, TypeOK
<1>3. CASE ListenLookupFails
  BY <1>3 DEF ListenLookupFails, TypeOK, ServerStates, clientSide
<1>4. CASE Bound
  BY <1>4 DEF Bound, TypeOK, SocketStates, serverSide
<1>5. CASE ServerClose
  BY <1>5 DEF ServerClose, TypeOK, ServerStates, clientSide
<1>6. CASE ServerCloseNext
  <2>1. \A c \in Clients : ToClient(c, "close") \in Packets
    BY DEF Packets, ToClient, RegularPacket
  <2>2. server' \in ServerStates
    <3>1. PICK c \in Clients :
            \/ server' = [server EXCEPT !.visited = @ \cup {c}]
            \/ server' = [server EXCEPT !.visited = @ \cup {c}, !.awaits = c]
      BY <1>6 DEF ServerCloseNext
    <3>2. server \in ServerStates
      BY DEF TypeOK
    <3>3. /\ server.visited \cup {c} \subseteq Clients
          /\ \A visited \in SUBSET Clients :
               /\ [server EXCEPT !.visited = visited] \in ServerStates
               /\ [server EXCEPT !.visited = visited, !.awaits = c] \in ServerStates
      BY <3>2 DEF ServerStates
    <3> QED BY <3>1, <3>3
  <2>3. session' \in [Clients -> SessionStates]
    <3>1. \/ UNCHANGED session
          \/ \E c \in Clients :
               session' = [session EXCEPT ![c] = [@ EXCEPT !.closing = TRUE, !.sent = TRUE]]
      BY <1>6 DEF ServerCloseNext, CloseSession
    <3>2. session \in [Clients -> SessionStates]
      BY DEF TypeOK
    <3> QED BY <3>1, <3>2 DEF SessionStates
  <2>4. net' \subseteq Packets
    BY <1>6, <2>1 DEF ServerCloseNext, CloseSession, TypeOK
  <2> QED BY <1>6, <2>2, <2>3, <2>4 DEF ServerCloseNext, TypeOK, clientSide
<1>7. CASE ServerCloseDone
  <2>1. server' \in ServerStates
    BY <1>7 DEF ServerCloseDone, TypeOK, ServerStates
  <2>2. sock' \in [Sockets \cup ServerSockets -> SocketStates]
    BY <1>7 DEF ServerCloseDone, ServerSocketCloses, TypeOK, ServerStates, SocketStates
  <2> QED BY <1>7, <2>1, <2>2 DEF ServerCloseDone, TypeOK
<1>8. CASE ServerOnClose
  <2>1. server' \in ServerStates
    BY <1>8 DEF ServerOnClose, TypeOK, ServerStates
  <2>2. sock' \in [Sockets \cup ServerSockets -> SocketStates]
    BY <1>8 DEF ServerOnClose, TypeOK, SocketStates
  <2>3. session' \in [Clients -> SessionStates]
    <3>1. session' = [c \in Clients |->
            [session[c] EXCEPT !.destroyed = session[c].destroyed \/ session[c].known]]
      BY <1>8 DEF ServerOnClose
    <3>2. session \in [Clients -> SessionStates]
      BY DEF TypeOK
    <3>3. \A e \in SessionStates : [e EXCEPT !.destroyed = e.destroyed \/ e.known] \in SessionStates
      BY DEF SessionStates
    <3> QED BY <3>1, <3>2, <3>3
  <2> QED BY <1>8, <2>1, <2>2, <2>3 DEF ServerOnClose, TypeOK
<1>9. CASE Lose
  BY <1>9 DEF Lose, TypeOK, clientSide, serverSide
<1> QED BY <1>1, <1>2, <1>3, <1>4, <1>5, <1>6, <1>7, <1>8, <1>9

LEMMA TypeStep == TypeOK /\ [Next]_vars => TypeOK'
<1> SUFFICES ASSUME TypeOK, [Next]_vars PROVE TypeOK'
  OBVIOUS
<1>1. CASE UNCHANGED vars
  BY <1>1 DEF TypeOK, vars, clientSide, serverSide
<1>2. CASE Next
  BY <1>2, TypeClient, TypeSession, TypeCall, TypeReceive, TypeServer DEF Next
<1> QED BY <1>1, <1>2

\* Every variable of clients, sockets, server and sessions keeps its type.
THEOREM TypeCorrect == Spec => []TypeOK
BY TypeInit, TypeStep, PTL DEF Spec

-----------------------------------------------------------------------------
(* The clients' side                                                       *)

ClientInv == LinksSound /\ ClientsSound /\ CallsSound /\ OwnersSound

LEMMA SocketsApart == None \notin Sockets \cup ServerSockets /\ Sockets \cap ServerSockets = {}
BY SessionsAssumption

\* A step that changes no more than flags of clients.
LEMMA FlagsInv ==
  ASSUME ClientInv, UNCHANGED calls,
         \A s \in Sockets : sock'[s] = sock[s],
         \A c \in Clients :
           /\ client'[c].stage = client[c].stage /\ client'[c].socket = client[c].socket
           /\ client'[c].ready = client[c].ready
           /\ client'[c].closing => client[c].closing \/ client[c].socket # None,
         TypeOK
  PROVE  ClientInv'
<1>1. \A c \in Clients : client[c].socket \in Sockets \cup {None}
  BY DEF TypeOK, ClientStates
<1>2. \A call \in calls : call.by \in Clients /\ call.socket \in Sockets \cup {None}
  BY DEF TypeOK, Calls
<1>3. \A s \in Sockets : sock[s].owner \in Clients \cup {None}
  BY DEF TypeOK, SocketStates
<1>4. LinksSound'
  BY <1>1 DEF ClientInv, LinksSound, Opened
<1>5. ClientsSound'
  BY <1>1 DEF ClientInv, ClientsSound, Linked
<1>6. CallsSound'
  BY <1>2 DEF ClientInv, CallsSound
<1>7. OwnersSound'
  BY <1>3 DEF ClientInv, OwnersSound
<1> QED BY <1>4, <1>5, <1>6, <1>7 DEF ClientInv

\* What destroy() of a client does to it and to its socket.
LEMMA DestroyEffect ==
  ASSUME TypeOK, NEW c \in Clients, DestroyClient(c)
  PROVE  /\ \A d \in Clients \ {c} : client'[d] = client[d]
         /\ client'[c].stage = "destroyed" /\ client'[c].socket = None
         /\ ~client'[c].closing
         /\ \A t \in Sockets : t # client[c].socket => sock'[t] = sock[t]
         /\ \A t \in ServerSockets : sock'[t] = sock[t]
         /\ \A s \in Sockets : s = client[c].socket =>
              /\ sock'[s].conns = sock[s].conns \ {c}
              /\ sock'[s].owner = sock[s].owner /\ sock'[s].exclusive = sock[s].exclusive
              /\ IF sock[s].exclusive \/ sock[s].conns \ {c} = {}
                 THEN sock'[s].state = "closed" ELSE sock'[s].state = sock[s].state
<1>1. client[c] \in ClientStates /\ client \in [Clients -> ClientStates]
  BY DEF TypeOK
<1>2. client' = [client EXCEPT ![c] =
          [client[c] EXCEPT !.stage = "destroyed", !.socket = None, !.closing = FALSE]]
  BY DEF DestroyClient
<1>3. /\ \A d \in Clients \ {c} : client'[d] = client[d]
      /\ client'[c].stage = "destroyed" /\ client'[c].socket = None /\ ~client'[c].closing
  BY <1>1, <1>2 DEF ClientStates
<1>4. sock \in [Sockets \cup ServerSockets -> SocketStates]
  BY DEF TypeOK
<1>5. CASE client[c].socket = None
  BY <1>3, <1>5, SocketsApart DEF DestroyClient
<1>6. CASE client[c].socket # None
  <2> DEFINE s == client[c].socket
  <2>1. s \in Sockets /\ s \notin ServerSockets
    BY <1>1, <1>6, SocketsApart DEF ClientStates
  <2>2. sock' = [sock EXCEPT ![s] =
          [sock[s] EXCEPT !.conns = sock[s].conns \ {c},
                          !.state = IF sock[s].exclusive \/ sock[s].conns \ {c} = {}
                                    THEN "closed" ELSE sock[s].state]]
    BY <1>6 DEF DestroyClient
  <2>3. sock[s] \in SocketStates
    BY <1>4, <2>1
  <2>4. sock'[s] = [sock[s] EXCEPT !.conns = sock[s].conns \ {c},
                          !.state = IF sock[s].exclusive \/ sock[s].conns \ {c} = {}
                                    THEN "closed" ELSE sock[s].state]
    BY <1>4, <2>1, <2>2
  <2>5. \A t \in Sockets \cup ServerSockets : t # s => sock'[t] = sock[t]
    BY <1>4, <2>2
  <2>6. /\ sock'[s].conns = sock[s].conns \ {c}
        /\ sock'[s].owner = sock[s].owner /\ sock'[s].exclusive = sock[s].exclusive
        /\ sock'[s].state = IF sock[s].exclusive \/ sock[s].conns \ {c} = {}
                            THEN "closed" ELSE sock[s].state
    BY <2>3, <2>4 DEF SocketStates
  <2> QED BY <1>3, <2>1, <2>5, <2>6
<1> QED BY <1>5, <1>6

\* destroy() keeps the invariant, as nothing that waits for the client's
\* connect() is left behind.
LEMMA DestroyInv ==
  ASSUME TypeOK, ClientInv, NEW c \in Clients, DestroyClient(c), UNCHANGED calls,
         client[c].socket # None \/ \A call \in calls : call.by # c
  PROVE  ClientInv'
<1> DEFINE s == client[c].socket
<1>1. \A d \in Clients : client[d].socket \in Sockets \cup {None}
  BY DEF TypeOK, ClientStates
<1>2. \A call \in calls : call.by \in Clients /\ call.socket \in Sockets \cup {None}
  BY DEF TypeOK, Calls
<1>3. \A t \in Sockets : sock[t].owner \in Clients \cup {None} /\ sock[t].conns \in SUBSET Clients
  BY DEF TypeOK, SocketStates
<1>4. /\ \A d \in Clients \ {c} : client'[d] = client[d]
      /\ client'[c].stage = "destroyed" /\ client'[c].socket = None /\ ~client'[c].closing
  BY DestroyEffect
<1>5. \A t \in Sockets : t # s => sock'[t] = sock[t]
  BY DestroyEffect
<1>6. s \in Sockets =>
        /\ sock'[s].conns = sock[s].conns \ {c}
        /\ sock'[s].owner = sock[s].owner /\ sock'[s].exclusive = sock[s].exclusive
        /\ IF sock[s].exclusive \/ sock[s].conns \ {c} = {}
           THEN sock'[s].state = "closed" ELSE sock'[s].state = sock[s].state
  BY DestroyEffect
<1>7. s \in Sockets => sock[s].state # "unused"
  BY SocketsApart DEF ClientInv, LinksSound
<1>8. LinksSound'
  <2> HIDE DEF s
  <2>1. \A d \in Clients, t \in Sockets : d \in sock'[t].conns <=> client'[d].socket = t
    BY <1>1, <1>4, <1>5, <1>6, SocketsApart DEF ClientInv, LinksSound, s
  <2>2. \A d \in Clients : client'[d].socket # None =>
          client'[d].stage = "live" /\ sock'[client'[d].socket].state # "unused"
    BY <1>1, <1>4, <1>5, <1>6 DEF ClientInv, LinksSound
  <2>3. \A t \in Sockets : Opened(t)' => sock'[t].conns # {}
    BY <1>5, <1>6 DEF ClientInv, LinksSound, Opened
  <2>4. \A t \in Sockets : sock'[t].exclusive => \A d, e \in sock'[t].conns : d = e
    BY <1>5, <1>6 DEF ClientInv, LinksSound
  <2> QED BY <2>1, <2>2, <2>3, <2>4 DEF LinksSound
<1>9. ClientsSound'
  <2> SUFFICES ASSUME NEW d \in Clients
               PROVE  /\ client'[d].stage = "none" => ~client'[d].ready
                      /\ client'[d].closing => client'[d].socket # None
                      /\ client'[d].stage = "live" /\ client'[d].ready => Linked(d)'
    BY DEF ClientsSound
  <2>1. CASE d = c
    BY <1>4, <2>1
  <2>2. CASE d # c
    <3>1. client[d].socket = s /\ s \in Sockets =>
            ~sock[s].exclusive /\ d \in sock[s].conns \ {c}
      BY <2>2 DEF ClientInv, LinksSound
    <3> HIDE DEF s
    <3>2. Linked(d) => Linked(d)'
      BY <1>1, <1>4, <1>5, <1>6, <2>2, <3>1 DEF Linked
    <3> QED BY <1>4, <2>2, <3>2 DEF ClientInv, ClientsSound
  <2> QED BY <2>1, <2>2
<1>10. CallsSound'
  <2>1. \A call \in calls : call.op = "connect" /\ call.socket = None => call.by # c
    BY DEF ClientInv, CallsSound
  <2> HIDE DEF s
  <2>2. \A call \in calls : call.socket # None => sock'[call.socket].state # "unused"
    BY <1>2, <1>5, <1>6, <1>7 DEF ClientInv, CallsSound
  <2> QED BY <1>2, <1>4, <2>1, <2>2 DEF ClientInv, CallsSound
<1>11. OwnersSound'
  <2> HIDE DEF s
  <2>1. \A t \in Sockets : sock'[t].owner = sock[t].owner
    BY <1>5, <1>6
  <2>2. \A t \in Sockets : sock'[t].state # "unused" => sock[t].state # "unused"
    BY <1>5, <1>6, <1>7
  <2> QED BY <1>3, <1>4, <2>1, <2>2 DEF ClientInv, OwnersSound
<1> QED BY <1>8, <1>9, <1>10, <1>11 DEF ClientInv

\* close() or reset() of a client.
LEMMA CloseInv ==
  ASSUME TypeOK, ClientInv, NEW c \in Clients, NEW kind, CloseClient(c, kind),
         \A call \in calls : call.by # c
  PROVE  ClientInv'
<1>1. UNCHANGED calls
  BY DEF CloseClient
<1>2. CASE Linked(c)
  <2>1. client \in [Clients -> ClientStates]
    BY DEF TypeOK
  <2>2. client' = [client EXCEPT ![c] = [client[c] EXCEPT !.closing = TRUE, !.sent = TRUE]]
        /\ UNCHANGED sock
    BY <1>2 DEF CloseClient
  <2>3. \A d \in Clients :
          /\ client'[d].stage = client[d].stage /\ client'[d].socket = client[d].socket
          /\ client'[d].ready = client[d].ready
          /\ client'[d].closing => client[d].closing \/ client[d].socket # None
    BY <1>2, <2>1, <2>2 DEF ClientStates, Linked
  <2> QED BY <1>1, <2>2, <2>3, FlagsInv
<1>3. CASE ~Linked(c)
  BY <1>1, <1>3, DestroyInv DEF CloseClient
<1> QED BY <1>2, <1>3

LEMMA ClientNextInv ==
  ASSUME ~Overlap, TypeOK, ClientInv, NEW c \in Clients, ClientNext(c)
  PROVE  ClientInv'
<1>1. CASE NewClient(c)
  <2>1. client' = [client EXCEPT ![c].stage = "live"] /\ UNCHANGED <<sock, calls>>
        /\ client[c].stage = "none"
    BY <1>1 DEF NewClient
  <2>2. client \in [Clients -> ClientStates]
    BY DEF TypeOK
  <2>3. /\ \A d \in Clients \ {c} : client'[d] = client[d]
        /\ client'[c].stage = "live" /\ client'[c].socket = client[c].socket
        /\ client'[c].ready = client[c].ready /\ client'[c].closing = client[c].closing
    BY <2>1, <2>2 DEF ClientStates
  <2>4. client[c].socket = None
    BY <2>1 DEF ClientInv, LinksSound
  <2>5. \A d \in Clients : client[d].socket \in Sockets \cup {None}
    BY <2>2 DEF ClientStates
  <2>6. \A call \in calls : call.by \in Clients
    BY DEF TypeOK, Calls
  <2>7. \A t \in Sockets : sock[t].owner \in Clients \cup {None}
    BY DEF TypeOK, SocketStates
  <2>8. LinksSound'
    BY <2>1, <2>3, <2>4, <2>5 DEF ClientInv, LinksSound, Opened
  <2>9. ClientsSound'
    BY <2>1, <2>3, <2>4, <2>5 DEF ClientInv, ClientsSound, Linked
  <2>10. CallsSound'
    BY <2>1, <2>3, <2>6 DEF ClientInv, CallsSound
  <2>11. OwnersSound'
    BY <2>1, <2>3, <2>7 DEF ClientInv, OwnersSound
  <2> QED BY <2>8, <2>9, <2>10, <2>11 DEF ClientInv
<1>2. CASE Connect(c) \/ Spawn(c)
  <2>1. PICK call \in Calls :
          /\ calls' = calls \cup {call} /\ call.by = c
          /\ call.op = "connect" => call.socket = None /\ client[c].socket = None
          /\ call.op = "spawn" => call.socket # None /\ call.socket = client[c].socket
    <3>1. client[c].socket \in Sockets \cup {None} /\ made \in Nat
      BY DEF TypeOK, ClientStates
    <3>2. CASE Connect(c)
      <4>1. [op |-> "connect", n |-> made, by |-> c, socket |-> None] \in Calls
        BY <3>1 DEF Calls
      <4> QED BY <3>2, <4>1 DEF Connect, Begin
    <3>3. CASE Spawn(c)
      <4>1. [op |-> "spawn", n |-> made, by |-> c, socket |-> client[c].socket] \in Calls
        BY <3>1 DEF Calls
      <4> QED BY <3>3, <4>1 DEF Spawn, Begin
    <3> QED BY <1>2, <3>2, <3>3
  <2>2. UNCHANGED <<client, sock>> /\ client[c].stage = "live" /\ \A d \in calls : d.by # c
    BY <1>2 DEF Connect, Spawn, Begin, MayCall
  <2>3. CallsSound'
    <3>1. \A d, e \in calls' : d.by = e.by => d = e
      BY <2>1, <2>2 DEF ClientInv, CallsSound
    <3>2. call.socket # None => sock[call.socket].state # "unused"
      BY <2>1 DEF ClientInv, LinksSound, Calls
    <3>3. call.op \in {"connect", "spawn"}
      BY DEF Calls
    <3> QED BY <2>1, <2>2, <3>1, <3>2, <3>3 DEF ClientInv, CallsSound
  <2>4. LinksSound' /\ ClientsSound' /\ OwnersSound'
    BY <2>2 DEF ClientInv, LinksSound, ClientsSound, OwnersSound, Opened, Linked
  <2> QED BY <2>3, <2>4 DEF ClientInv
<1>3. CASE SendData(c)
  <2>1. client' = [client EXCEPT ![c].sent = TRUE] /\ UNCHANGED <<sock, calls>>
    BY <1>3 DEF SendData
  <2>2. client \in [Clients -> ClientStates]
    BY DEF TypeOK
  <2>3. \A d \in Clients :
          /\ client'[d].stage = client[d].stage /\ client'[d].socket = client[d].socket
          /\ client'[d].ready = client[d].ready /\ client'[d].closing = client[d].closing
    BY <2>1, <2>2 DEF ClientStates
  <2> QED BY <2>1, <2>3, FlagsInv
<1>4. CASE Close(c)
  BY <1>4, CloseInv DEF Close, MayCall
<1>5. CASE Destroy(c)
  BY <1>5, DestroyInv DEF Destroy, MayCall
<1>6. CASE CloseSent(c)
  BY <1>6, DestroyInv DEF CloseSent, ClientInv, ClientsSound
<1>7. CASE Idle(c)
  BY <1>7, CloseInv DEF Idle
<1> QED BY <1>1, <1>2, <1>3, <1>4, <1>5, <1>6, <1>7 DEF ClientNext

LEMMA ConnectLookedUpInv ==
  ASSUME TypeOK, ClientInv, NEW call \in calls, ConnectLookedUp(call)
  PROVE  ClientInv'
<1> DEFINE c == call.by
<1>1. PICK s \in Sockets :
        /\ call.op = "connect" /\ call.socket = None /\ sock[s].state = "unused"
        /\ sock' = [sock EXCEPT ![s] = [state |-> "binding", owner |-> c,
                                        exclusive |-> TRUE, conns |-> {c}]]
        /\ client' = [client EXCEPT ![c].socket = s]
        /\ calls' = (calls \ {call}) \cup {[call EXCEPT !.socket = s]}
  BY DEF ConnectLookedUp
<1>2. /\ client \in [Clients -> ClientStates] /\ c \in Clients /\ call \in Calls
      /\ sock \in [Sockets \cup ServerSockets -> SocketStates]
  BY DEF TypeOK, Calls
<1>3. \A d \in Clients : client[d].socket \in Sockets \cup {None}
  BY <1>2 DEF ClientStates
<1>4. /\ \A d \in Clients \ {c} : client'[d] = client[d]
      /\ client'[c].stage = client[c].stage /\ client'[c].socket = s
      /\ client'[c].ready = client[c].ready /\ client'[c].closing = client[c].closing
  BY <1>1, <1>2 DEF ClientStates
<1>5. /\ \A t \in Sockets : t # s => sock'[t] = sock[t]
      /\ sock'[s].state = "binding" /\ sock'[s].owner = c /\ sock'[s].exclusive
      /\ sock'[s].conns = {c}
  BY <1>1, <1>2
<1>6. client[c].stage = "live" /\ client[c].socket = None
  BY <1>1 DEF ClientInv, CallsSound
<1>7. \A d \in Clients : client[d].socket # s
  BY <1>1, SocketsApart DEF ClientInv, LinksSound
<1>8. \A t \in Sockets : sock[t].owner \in Clients \cup {None} /\ sock[t].conns \in SUBSET Clients
  BY <1>2 DEF SocketStates
<1>9. s # None
  BY SocketsApart
<1> HIDE DEF c
<1>10. LinksSound'
  <2>1. \A d \in Clients, t \in Sockets : d \in sock'[t].conns <=> client'[d].socket = t
    BY <1>2, <1>3, <1>4, <1>5, <1>6, <1>7, SocketsApart DEF ClientInv, LinksSound
  <2>2. \A d \in Clients : client'[d].socket # None =>
          client'[d].stage = "live" /\ sock'[client'[d].socket].state # "unused"
    BY <1>3, <1>4, <1>5, <1>6 DEF ClientInv, LinksSound
  <2>3. \A t \in Sockets : Opened(t)' => sock'[t].conns # {}
    BY <1>5 DEF ClientInv, LinksSound, Opened
  <2>4. \A t \in Sockets : sock'[t].exclusive => \A d, e \in sock'[t].conns : d = e
    BY <1>5 DEF ClientInv, LinksSound
  <2> QED BY <2>1, <2>2, <2>3, <2>4 DEF LinksSound
<1>11. ClientsSound'
  <2>1. \A d \in Clients : Linked(d) => Linked(d)'
    BY <1>3, <1>4, <1>5, <1>6, <1>7 DEF Linked
  <2> QED BY <1>4, <1>6, <1>9, <2>1 DEF ClientInv, ClientsSound
<1>12. CallsSound'
  <2> DEFINE new == [call EXCEPT !.socket = s]
  <2>1. new.by = c /\ new.op = "connect" /\ new.socket = s
    BY <1>1, <1>2 DEF Calls, c
  <2>2. calls' = (calls \ {call}) \cup {new}
    BY <1>1
  <2>3. \A d \in calls \ {call} :
          /\ d.by \in Clients /\ d.by # c
          /\ d.socket # None => d.socket \in Sockets /\ sock[d.socket].state # "unused"
    BY DEF ClientInv, CallsSound, c, TypeOK, Calls
  <2> HIDE DEF new
  <2>4. \A d, e \in calls' : d.by = e.by => d = e
    BY <2>1, <2>2, <2>3 DEF ClientInv, CallsSound
  <2>5. \A d \in calls \ {call} : d.socket # None => sock'[d.socket].state # "unused"
    BY <1>1, <1>5, <2>3
  <2> QED BY <1>2, <1>4, <1>5, <1>6, <1>9, <2>1, <2>2, <2>3, <2>4, <2>5
          DEF ClientInv, CallsSound
<1>13. OwnersSound'
  <2>1. \A t \in Sockets : sock[t].state # "unused" => sock[t].owner # c
    BY <1>6, SocketsApart DEF ClientInv, OwnersSound
  <2>2. \A t, u \in Sockets :
          sock'[t].state # "unused" /\ sock'[u].state # "unused" /\ sock'[t].owner = sock'[u].owner
            => t = u
    BY <1>5, <2>1 DEF ClientInv, OwnersSound
  <2>3. c # None
    BY <1>2, SessionsAssumption
  <2> QED BY <1>1, <1>2, <1>4, <1>5, <1>6, <1>8, <2>2, <2>3 DEF ClientInv, OwnersSound
<1> QED BY <1>10, <1>11, <1>12, <1>13 DEF ClientInv

LEMMA ConnectListeningInv ==
  ASSUME TypeOK, ClientInv, NEW call \in calls, ConnectListening(call)
  PROVE  ClientInv'
<1> DEFINE c == call.by
           s == call.socket
<1>1. /\ call.op = "connect" /\ s # None /\ sock[s].state = "binding"
      /\ sock' = [sock EXCEPT ![s].state = "open"]
      /\ client' = [client EXCEPT ![c].ready = TRUE]
      /\ calls' = calls \ {call}
  BY DEF ConnectListening
<1>2. /\ client \in [Clients -> ClientStates] /\ c \in Clients /\ s \in Sockets
      /\ sock \in [Sockets \cup ServerSockets -> SocketStates]
  BY <1>1 DEF TypeOK, Calls
<1>3. \A d \in Clients : client[d].socket \in Sockets \cup {None}
  BY <1>2 DEF ClientStates
<1>4. /\ \A d \in Clients \ {c} : client'[d] = client[d]
      /\ \A d \in Clients :
           /\ client'[d].stage = client[d].stage /\ client'[d].socket = client[d].socket
           /\ client'[d].closing = client[d].closing
  BY <1>1, <1>2 DEF ClientStates
<1>5. /\ \A t \in Sockets : t # s => sock'[t] = sock[t]
      /\ sock'[s].state = "open"
      /\ \A t \in Sockets : /\ sock'[t].owner = sock[t].owner
                            /\ sock'[t].exclusive = sock[t].exclusive
                            /\ sock'[t].conns = sock[t].conns
  BY <1>1, <1>2 DEF SocketStates
<1>6. client[c].stage # "none" /\ (client[c].stage = "live" => client[c].socket = s)
  BY <1>1 DEF ClientInv, CallsSound
<1>7. \A t \in Sockets : sock[t].owner \in Clients \cup {None}
  BY <1>2 DEF SocketStates
<1> HIDE DEF c, s
<1>8. LinksSound'
  BY <1>1, <1>3, <1>4, <1>5 DEF ClientInv, LinksSound, Opened
<1>9. ClientsSound'
  <2>1. \A d \in Clients : Linked(d) => Linked(d)'
    BY <1>3, <1>4, <1>5 DEF Linked
  <2>2. client[c].stage = "live" => Linked(c)'
    BY <1>1, <1>2, <1>4, <1>5, <1>6 DEF Linked
  <2> QED BY <1>4, <1>6, <2>1, <2>2 DEF ClientInv, ClientsSound
<1>10. CallsSound'
  <2>1. \A d \in calls : d.by \in Clients /\ d.socket \in Sockets \cup {None}
    BY DEF TypeOK, Calls
  <2>2. \A d \in calls : d.socket # None => sock'[d.socket].state # "unused"
    BY <1>5, <2>1 DEF ClientInv, CallsSound
  <2> QED BY <1>1, <1>4, <2>1, <2>2 DEF ClientInv, CallsSound
<1>11. OwnersSound'
  <2>1. \A t \in Sockets : sock'[t].state # "unused" => sock[t].state # "unused"
    BY <1>1, <1>5
  <2> QED BY <1>4, <1>5, <1>7, <2>1 DEF ClientInv, OwnersSound
<1> QED BY <1>8, <1>9, <1>10, <1>11 DEF ClientInv

LEMMA SpawnLookedUpInv ==
  ASSUME TypeOK, ClientInv, NEW call \in calls, SpawnLookedUp(call)
  PROVE  ClientInv'
<1> DEFINE s == call.socket
<1>1. PICK d \in Clients :
        /\ call.op = "spawn" /\ client[d].stage = "none"
        /\ client' = [client EXCEPT ![d] =
             [client[d] EXCEPT !.stage = "live", !.socket = s, !.ready = sock[s].state = "open"]]
        /\ sock' = [sock EXCEPT ![s] =
             [sock[s] EXCEPT !.conns = sock[s].conns \cup {d}, !.exclusive = FALSE]]
        /\ calls' = calls \ {call}
  BY DEF SpawnLookedUp
<1>2. /\ s # None /\ sock[s].state # "unused"
  BY <1>1 DEF ClientInv, CallsSound
<1>3. /\ client \in [Clients -> ClientStates] /\ s \in Sockets
      /\ sock \in [Sockets \cup ServerSockets -> SocketStates]
  BY <1>2 DEF TypeOK, Calls
<1>4. \A e \in Clients : client[e].socket \in Sockets \cup {None}
  BY <1>3 DEF ClientStates
<1>5. /\ \A e \in Clients \ {d} : client'[e] = client[e]
      /\ client'[d].stage = "live" /\ client'[d].socket = s
      /\ client'[d].ready = (sock[s].state = "open")
      /\ client'[d].closing = client[d].closing
  BY <1>1, <1>3 DEF ClientStates
<1>6. /\ \A t \in Sockets : t # s => sock'[t] = sock[t]
      /\ sock'[s].conns = sock[s].conns \cup {d} /\ ~sock'[s].exclusive
      /\ \A t \in Sockets : sock'[t].owner = sock[t].owner /\ sock'[t].state = sock[t].state
  BY <1>1, <1>3 DEF SocketStates
<1>7. client[d].socket = None
  BY <1>1 DEF ClientInv, LinksSound
<1>8. \A t \in Sockets : sock[t].owner \in Clients \cup {None} /\ sock[t].conns \in SUBSET Clients
  BY <1>3 DEF SocketStates
<1> HIDE DEF s
<1>9. LinksSound'
  <2>1. \A e \in Clients, t \in Sockets : e \in sock'[t].conns <=> client'[e].socket = t
    BY <1>3, <1>4, <1>5, <1>6, <1>7, SocketsApart DEF ClientInv, LinksSound
  <2>2. \A e \in Clients : client'[e].socket # None =>
          client'[e].stage = "live" /\ sock'[client'[e].socket].state # "unused"
    BY <1>2, <1>3, <1>4, <1>5, <1>6 DEF ClientInv, LinksSound
  <2>3. \A t \in Sockets : Opened(t)' => sock'[t].conns # {}
    BY <1>6 DEF ClientInv, LinksSound, Opened
  <2>4. \A t \in Sockets : sock'[t].exclusive => \A e, f \in sock'[t].conns : e = f
    BY <1>6 DEF ClientInv, LinksSound
  <2> QED BY <2>1, <2>2, <2>3, <2>4 DEF LinksSound
<1>10. ClientsSound'
  <2>1. \A e \in Clients \ {d} : Linked(e) => Linked(e)'
    BY <1>4, <1>5, <1>6 DEF Linked
  <2>2. client'[d].ready => Linked(d)'
    BY <1>2, <1>3, <1>5, <1>6 DEF Linked
  <2> QED BY <1>2, <1>5, <2>1, <2>2 DEF ClientInv, ClientsSound
<1>11. CallsSound'
  <2>1. \A e \in calls : e.by \in Clients /\ e.socket \in Sockets \cup {None}
    BY DEF TypeOK, Calls
  <2>2. \A e \in calls : e.op = "connect" => e.by # d
    BY <1>1 DEF ClientInv, CallsSound
  <2> QED BY <1>1, <1>5, <1>6, <2>1, <2>2 DEF ClientInv, CallsSound
<1>12. OwnersSound'
  <2>1. \A t \in Sockets : sock[t].state # "unused" => sock[t].owner # d
    BY <1>1 DEF ClientInv, OwnersSound
  <2> QED BY <1>5, <1>6, <1>8, <2>1 DEF ClientInv, OwnersSound
<1> QED BY <1>9, <1>10, <1>11, <1>12 DEF ClientInv

LEMMA CallNextInv ==
  ASSUME TypeOK, ClientInv, NEW call \in calls, CallNext(call)
  PROVE  ClientInv'
<1>1. CASE LookupFails(call)
  <2>1. UNCHANGED <<client, sock>> /\ calls' \subseteq calls
    BY <1>1 DEF LookupFails
  <2> QED BY <2>1 DEF ClientInv, LinksSound, ClientsSound, CallsSound, OwnersSound, Opened, Linked
<1> QED BY <1>1, ConnectLookedUpInv, ConnectListeningInv, SpawnLookedUpInv DEF CallNext

LEMMA ClientReceiveInv ==
  ASSUME TypeOK, ClientInv, NEW p \in net, ClientReceive(p)
  PROVE  ClientInv'
<1>1. p.id \in Clients /\ UNCHANGED calls
  BY DEF TypeOK, Packets, ClientReceive
<1>2. CASE UNCHANGED <<client, sock>>
  BY <1>1, <1>2, FlagsInv
<1>3. CASE client' = [client EXCEPT ![p.id].negotiated = TRUE] /\ UNCHANGED sock
  <2>1. client \in [Clients -> ClientStates]
    BY DEF TypeOK
  <2>2. \A d \in Clients :
          /\ client'[d].stage = client[d].stage /\ client'[d].socket = client[d].socket
          /\ client'[d].ready = client[d].ready /\ client'[d].closing = client[d].closing
    BY <1>1, <1>3, <2>1 DEF ClientStates
  <2> QED BY <1>1, <1>3, <2>2, FlagsInv
<1>4. CASE Linked(p.id) /\ DestroyClient(p.id)
  BY <1>1, <1>4, DestroyInv DEF Linked
<1> QED BY <1>2, <1>3, <1>4 DEF ClientReceive

-----------------------------------------------------------------------------
(* The server's side                                                       *)

ServerInv == ServerSound /\ SessionsSound /\ SessionsHeard

\* A step that changes nothing of the server.
LEMMA ServerStutter ==
  ASSUME TypeOK, ServerInv, UNCHANGED serverSide, \A s \in ServerSockets : sock'[s] = sock[s]
  PROVE  ServerInv'
<1>1. \A c \in Clients : session[c].known => sock'[session[c].socket] = sock[session[c].socket]
  BY DEF ServerInv, SessionsSound, TypeOK, SessionStates
<1>2. UNCHANGED <<server, session>>
  BY DEF serverSide
<1>3. ServerSound'
  BY <1>2 DEF ServerInv, ServerSound, Opened
<1>4. SessionsSound'
  BY <1>2 DEF ServerInv, SessionsSound, LiveSession
<1>5. SessionsHeard'
  BY <1>1, <1>2 DEF ServerInv, SessionsHeard, LiveSession, Heard
<1> QED BY <1>3, <1>4, <1>5 DEF ServerInv

\* A step of one session, that is still heard if it lives and that Server.close
\* has not left behind.
LEMMA SessionInv ==
  ASSUME TypeOK, ServerInv, UNCHANGED <<server, sock>>, NEW c \in Clients, NEW e,
         session' = [session EXCEPT ![c] = e],
         e.known => e.socket # None,
         e.known /\ ~e.destroyed =>
           /\ sock[e.socket].state = "open"
           /\ c \in server.visited => LiveSession(c) /\ e.closing
  PROVE  ServerInv'
<1>1. session'[c] = e /\ \A d \in Clients \ {c} : session'[d] = session[d]
  BY DEF TypeOK
<1>2. ServerSound'
  BY DEF ServerInv, ServerSound, Opened
<1>3. SessionsSound'
  BY <1>1 DEF ServerInv, SessionsSound, LiveSession, TypeOK, ServerStates
<1>4. SessionsHeard'
  BY <1>1 DEF ServerInv, SessionsHeard, LiveSession, Heard
<1> QED BY <1>2, <1>3, <1>4 DEF ServerInv

LEMMA SessionNextInv ==
  ASSUME TypeOK, ServerInv, NEW c \in Clients, SessionNext(c)
  PROVE  ServerInv'
<1>1. UNCHANGED <<server, sock>>
  BY DEF SessionNext, SessionSend, SessionClose, SessionClosed, SessionIdle, clientSide
<1>2. session[c] \in SessionStates /\ session \in [Clients -> SessionStates]
  BY DEF TypeOK
<1>3. /\ session[c].known => session[c].socket # None
      /\ LiveSession(c) => sock[session[c].socket].state = "open"
      /\ c \in server.visited /\ LiveSession(c) => session[c].closing
  BY DEF ServerInv, SessionsSound, SessionsHeard, Heard
<1>4. CASE SessionSend(c)
  <2> DEFINE e == [session[c] EXCEPT !.sent = TRUE]
  <2>1. session' = [session EXCEPT ![c] = e] /\ LiveSession(c)
    BY <1>2, <1>4 DEF SessionSend
  <2>2. /\ e.known = session[c].known /\ e.socket = session[c].socket
        /\ e.destroyed = session[c].destroyed /\ e.closing = session[c].closing
    BY <1>2 DEF SessionStates
  <2> HIDE DEF e
  <2> QED BY <1>1, <1>3, <2>1, <2>2, SessionInv DEF LiveSession
<1>5. CASE SessionClose(c)
  <2>1. CASE session' = [session EXCEPT ![c] = [@ EXCEPT !.closing = TRUE, !.sent = TRUE]]
    <3> DEFINE e == [session[c] EXCEPT !.closing = TRUE, !.sent = TRUE]
    <3>1. session' = [session EXCEPT ![c] = e] /\ LiveSession(c)
      BY <1>5, <2>1 DEF SessionClose
    <3>2. /\ e.known = session[c].known /\ e.socket = session[c].socket
          /\ e.destroyed = session[c].destroyed /\ e.closing
      BY <1>2 DEF SessionStates
    <3> HIDE DEF e
    <3> QED BY <1>1, <1>3, <3>1, <3>2, SessionInv DEF LiveSession
  <2>2. CASE session' = [session EXCEPT ![c].destroyed = TRUE]
    <3> DEFINE e == [session[c] EXCEPT !.destroyed = TRUE]
    <3>1. session' = [session EXCEPT ![c] = e]
      BY <2>2
    <3>2. e.known = session[c].known /\ e.socket = session[c].socket /\ e.destroyed
      BY <1>2 DEF SessionStates
    <3> HIDE DEF e
    <3> QED BY <1>1, <1>3, <3>1, <3>2, SessionInv
  <2> QED BY <1>5, <2>1, <2>2 DEF SessionClose, CloseSession
<1>6. CASE SessionClosed(c)
  <2> DEFINE e == [session[c] EXCEPT !.closing = FALSE, !.destroyed = TRUE]
  <2>1. session' = [session EXCEPT ![c] = e]
    BY <1>6 DEF SessionClosed
  <2>2. e.known = session[c].known /\ e.socket = session[c].socket /\ e.destroyed
    BY <1>2 DEF SessionStates
  <2> HIDE DEF e
  <2> QED BY <1>1, <1>3, <2>1, <2>2, SessionInv
<1>7. CASE SessionIdle(c)
  <2>1. session' = [session EXCEPT ![c] = NoSession] /\ ~NoSession.known
    BY <1>7 DEF SessionIdle, NoSession
  <2> QED BY <1>1, <2>1, SessionInv
<1> QED BY <1>4, <1>5, <1>6, <1>7 DEF SessionNext

LEMMA ServerReceiveInv ==
  ASSUME TypeOK, ServerInv, NEW p \in net, ServerReceive(p)
  PROVE  ServerInv'
<1> DEFINE c == p.id
           entry == session[c]
           listening == {s \in ServerSockets : sock[s].state = "open"}
           New(s) == IF entry.known THEN entry ELSE [entry EXCEPT !.known = TRUE, !.socket = s]
           Accepted(s) == [New(s) EXCEPT !.negotiated = TRUE, !.offered = @ \/ ~entry.known,
                                         !.destroyed = p.kind = "close"]
<1>1. c \in Clients /\ UNCHANGED <<server, clientSide, sock>>
  BY DEF TypeOK, Packets, ServerReceive, clientSide
<1>2. entry \in SessionStates
  BY <1>1 DEF TypeOK
<1>3. /\ entry.known => entry.socket # None
      /\ entry.known /\ ~entry.destroyed => sock[entry.socket].state = "open"
  BY <1>1 DEF ServerInv, SessionsSound, SessionsHeard, LiveSession, Heard
<1>4. ~server.destroyed => c \notin server.visited
  BY DEF ServerInv, SessionsSound
<1>5. \A s \in listening :
        /\ New(s) \in SessionStates /\ New(s).known /\ New(s).socket # None
        /\ ~entry.destroyed => sock[New(s).socket].state = "open"
  <2> TAKE s \in listening
  <2>1. CASE entry.known
    BY <1>2, <1>3, <2>1
  <2>2. CASE ~entry.known
    BY <1>2, <2>2, SocketsApart DEF SessionStates
  <2> QED BY <2>1, <2>2
<1>6. CASE UNCHANGED session
  BY <1>1, <1>6, ServerStutter DEF serverSide
<1>7. CASE session' = [session EXCEPT ![c] = [entry EXCEPT !.destroyed = TRUE]]
  <2> DEFINE e == [entry EXCEPT !.destroyed = TRUE]
  <2>1. e.known = entry.known /\ e.socket = entry.socket /\ e.destroyed
    BY <1>2 DEF SessionStates
  <2> HIDE DEF e, entry, c
  <2> QED BY <1>1, <1>3, <1>7, <2>1, SessionInv DEF e
<1>8. ASSUME NEW s \in listening, session' = [session EXCEPT ![c] = New(s)],
             ~server.destroyed, ~entry.destroyed
      PROVE  ServerInv'
  <2> HIDE DEF c, New, entry
  <2> QED BY <1>1, <1>4, <1>5, <1>8, SessionInv
<1>9. ASSUME NEW s \in listening, session' = [session EXCEPT ![c] = Accepted(s)],
             ~server.destroyed, ~entry.destroyed
      PROVE  ServerInv'
  <2>1. /\ Accepted(s).known = New(s).known /\ Accepted(s).socket = New(s).socket
    <3> HIDE DEF New
    <3> QED BY <1>5 DEF SessionStates
  <2> HIDE DEF c, New, Accepted, entry
  <2> QED BY <1>1, <1>4, <1>5, <1>9, <2>1, SessionInv
<1>10. \/ UNCHANGED session
       \/ session' = [session EXCEPT ![c] = [entry EXCEPT !.destroyed = TRUE]]
       \/ /\ ~server.destroyed /\ ~entry.destroyed
          /\ \E s \in listening : \/ session' = [session EXCEPT ![c] = New(s)]
                                  \/ session' = [session EXCEPT ![c] = Accepted(s)]
  BY DEF ServerReceive
<1> HIDE DEF c, entry, listening, New, Accepted
<1> QED BY <1>6, <1>7, <1>8, <1>9, <1>10

LEMMA ListenInv ==
  ASSUME ~Overlap, TypeOK, ServerInv, Listen \/ ListenLookedUp \/ ListenLookupFails
  PROVE  ServerInv'
<1>1. server \in ServerStates /\ sock \in [Sockets \cup ServerSockets -> SocketStates]
  BY DEF TypeOK
<1>2. UNCHANGED session
  BY DEF Listen, ListenLookedUp, ListenLookupFails
<1>3. /\ server'.destroyed = server.destroyed /\ server'.closed = server.closed
      /\ server'.visited = server.visited /\ server'.awaits = server.awaits
  BY <1>1 DEF Listen, ListenLookedUp, ListenLookupFails, ServerStates
<1>4. \A c \in Clients : session[c].known /\ sock[session[c].socket].state = "open" =>
        sock'[session[c].socket].state = "open"
  <2>1. CASE Listen \/ ListenLookupFails
    BY <2>1 DEF Listen, ListenLookupFails, clientSide
  <2>2. CASE ListenLookedUp
    <3>1. PICK s \in ServerSockets :
            sock[s].state = "unused" /\ sock' = [sock EXCEPT ![s].state = "binding"]
      BY <2>2 DEF ListenLookedUp
    <3> QED BY <1>1, <3>1
  <2> QED BY <2>1, <2>2
<1>5. SessionsSound' /\ SessionsHeard'
  BY <1>2, <1>3, <1>4 DEF ServerInv, SessionsSound, SessionsHeard, LiveSession, Heard
<1>6. ServerSound'
  <2>1. CASE Listen
    <3>1. server' = [server EXCEPT !.listens = 1] /\ server.listens = 0
      BY <1>1, <2>1 DEF Listen, ServerStates
    <3>2. server'.listens = 1 /\ server'.socket = server.socket
      BY <1>1, <3>1 DEF ServerStates
    <3>3. server.socket = None /\ ~server.destroyed /\ UNCHANGED sock
      BY <2>1 DEF Listen, clientSide
    <3> QED BY <1>3, <3>2, <3>3 DEF ServerInv, ServerSound, Opened
  <2>2. CASE ListenLookedUp
    <3>1. PICK s \in ServerSockets :
            /\ server.listens > 0
            /\ server' = [server EXCEPT !.listens = @ - 1, !.socket = s]
            /\ sock' = [sock EXCEPT ![s].state = "binding"]
      BY <2>2 DEF ListenLookedUp
    <3>2. server.socket = None /\ ~server.destroyed /\ server.listens = 1
      BY <3>1 DEF ServerInv, ServerSound
    <3>3. server'.socket = s /\ server'.listens = 0
      BY <1>1, <3>1, <3>2 DEF ServerStates
    <3>4. \A t \in ServerSockets : t # s => sock'[t].state = "unused"
      BY <1>1, <3>1, <3>2, SocketsApart DEF ServerInv, ServerSound
    <3>5. \A t \in ServerSockets : sock'[t].owner = sock[t].owner
      BY <1>1, <3>1 DEF SocketStates
    <3> QED BY <1>3, <3>2, <3>3, <3>4, <3>5 DEF ServerInv, ServerSound, Opened
  <2>3. CASE ListenLookupFails
    <3>1. server' = [server EXCEPT !.listens = server.listens - 1] /\ UNCHANGED sock
          /\ server.listens > 0
      BY <2>3 DEF ListenLookupFails, clientSide
    <3>2. server'.listens = server.listens - 1 /\ server'.socket = server.socket
      BY <1>1, <3>1 DEF ServerStates
    <3>3. server.listens = 1
      BY <3>1 DEF ServerInv, ServerSound
    <3> QED BY <1>3, <3>1, <3>2, <3>3 DEF ServerInv, ServerSound, Opened
  <2> QED BY <2>1, <2>2, <2>3
<1> QED BY <1>5, <1>6 DEF ServerInv

LEMMA BoundInv ==
  ASSUME TypeOK, ServerInv, Bound
  PROVE  ServerInv'
<1>1. PICK s \in ServerSockets, state \in {"open", "failed"} :
        sock[s].state = "binding" /\ sock' = [sock EXCEPT ![s].state = state]
  BY DEF Bound
<1>2. UNCHANGED <<server, session>> /\ sock \in [Sockets \cup ServerSockets -> SocketStates]
  BY DEF Bound, serverSide, TypeOK
<1>3. /\ \A t \in ServerSockets : t # s => sock'[t] = sock[t]
      /\ sock'[s].state = state
      /\ \A t : t # s => sock'[t].state = sock[t].state \/ t \notin Sockets \cup ServerSockets
  BY <1>1, <1>2 DEF SocketStates
<1>4. \A c \in Clients : session[c].known /\ sock[session[c].socket].state = "open" =>
        sock'[session[c].socket].state = "open"
  BY <1>1, <1>2
<1>5. ServerSound'
  BY <1>1, <1>2, <1>3 DEF ServerInv, ServerSound, Opened
<1>6. SessionsSound' /\ SessionsHeard'
  BY <1>2, <1>4 DEF ServerInv, SessionsSound, SessionsHeard, LiveSession, Heard
<1> QED BY <1>5, <1>6 DEF ServerInv

LEMMA ServerCloseInv ==
  ASSUME ~Overlap, TypeOK, ServerInv, ServerClose \/ ServerCloseNext
  PROVE  ServerInv'
<1>1. server \in ServerStates /\ session \in [Clients -> SessionStates] /\ UNCHANGED sock
  BY DEF TypeOK, ServerClose, ServerCloseNext, clientSide
<1>2. CASE ServerClose
  <2>1. /\ server' = [server EXCEPT !.destroyed = TRUE] /\ UNCHANGED session
        /\ ~server.destroyed /\ server.listens = 0
    BY <1>2 DEF ServerClose
  <2>2. /\ server'.destroyed /\ server'.closed = server.closed /\ server'.listens = 0
        /\ server'.socket = server.socket /\ server'.visited = server.visited
        /\ server'.awaits = server.awaits
    BY <1>1, <2>1 DEF ServerStates
  <2>3. ServerSound'
    BY <1>1, <2>1, <2>2 DEF ServerInv, ServerSound, Opened
  <2>4. SessionsSound' /\ SessionsHeard'
    BY <1>1, <2>1, <2>2 DEF ServerInv, SessionsSound, SessionsHeard, LiveSession, Heard
  <2> QED BY <2>3, <2>4 DEF ServerInv
<1>3. CASE ServerCloseNext
  <2>1. PICK c \in Clients \ server.visited :
          /\ server.destroyed /\ ~server.closed /\ ~Awaiting /\ session[c].known
          /\ IF session[c].destroyed
             THEN /\ server' = [server EXCEPT !.visited = server.visited \cup {c}]
                  /\ UNCHANGED session
             ELSE /\ server' = [server EXCEPT !.visited = server.visited \cup {c}, !.awaits = c]
                  /\ session' = [session EXCEPT ![c] =
                       [session[c] EXCEPT !.closing = TRUE, !.sent = TRUE]]
    BY <1>3 DEF ServerCloseNext, CloseSession
  <2>2. /\ server'.destroyed = server.destroyed /\ server'.closed = server.closed
        /\ server'.listens = server.listens /\ server'.socket = server.socket
        /\ server'.visited = server.visited \cup {c}
    BY <1>1, <2>1 DEF ServerStates
  <2>3. /\ \A d \in Clients \ {c} : session'[d] = session[d]
        /\ session'[c].known = session[c].known /\ session'[c].socket = session[c].socket
        /\ session'[c].destroyed = session[c].destroyed
        /\ ~session[c].destroyed => session'[c].closing /\ server'.awaits = c
    <3>1. CASE session[c].destroyed
      BY <2>1, <3>1
    <3>2. CASE ~session[c].destroyed
      <4>1. session' = [session EXCEPT ![c] = [session[c] EXCEPT !.closing = TRUE, !.sent = TRUE]]
        BY <2>1, <3>2
      <4>2. /\ \A d \in Clients \ {c} : session'[d] = session[d]
            /\ session'[c] = [session[c] EXCEPT !.closing = TRUE, !.sent = TRUE]
        BY <1>1, <4>1
      <4>3. session[c] \in SessionStates
        BY <1>1
      <4>4. /\ session'[c].known = session[c].known /\ session'[c].socket = session[c].socket
            /\ session'[c].destroyed = session[c].destroyed /\ session'[c].closing
        BY <4>2, <4>3 DEF SessionStates
      <4>5. server' = [server EXCEPT !.visited = server.visited \cup {c}, !.awaits = c]
        BY <2>1, <3>2
      <4>6. server'.awaits = c
        BY <1>1, <4>5 DEF ServerStates
      <4> QED BY <4>2, <4>4, <4>6
    <3> QED BY <3>1, <3>2
  <2>4. \A d \in server.visited : ~LiveSession(d)
    <3>1. \A d \in server.visited : d # None
      BY <1>1, SessionsAssumption DEF ServerStates
    <3> QED BY <2>1, <3>1 DEF ServerInv, SessionsSound, Awaiting
  <2>5. \A d \in Clients : LiveSession(d)' <=> LiveSession(d)
    BY <2>3 DEF LiveSession
  <2>6. \A d \in Clients : session'[d].known = session[d].known
                           /\ session'[d].socket = session[d].socket
    BY <2>3
  <2>7. ServerSound'
    BY <1>1, <2>2 DEF ServerInv, ServerSound, Opened
  <2>8. SessionsSound'
    <3>1. server.visited \subseteq Clients
      BY <1>1 DEF ServerStates
    <3>2. \A d \in server'.visited : LiveSession(d) => d = c /\ ~session[c].destroyed
      BY <2>2, <2>4 DEF LiveSession
    <3> QED BY <2>1, <2>2, <2>3, <2>5, <2>6, <3>1, <3>2 DEF ServerInv, SessionsSound
  <2>9. SessionsHeard'
    BY <1>1, <2>5, <2>6 DEF ServerInv, SessionsHeard, Heard
  <2> QED BY <2>7, <2>8, <2>9 DEF ServerInv
<1> QED BY <1>2, <1>3

LEMMA ServerCloseDoneInv ==
  ASSUME TypeOK, ServerInv, ServerCloseDone
  PROVE  ServerInv'
<1>1. /\ server \in ServerStates /\ session \in [Clients -> SessionStates]
      /\ sock \in [Sockets \cup ServerSockets -> SocketStates]
  BY DEF TypeOK
<1>2. /\ server.destroyed /\ ~Awaiting /\ UNCHANGED session
      /\ \A c \in Clients : session[c].known => c \in server.visited
      /\ server' = [server EXCEPT !.closed = TRUE]
      /\ IF server.socket = None
         THEN UNCHANGED sock
         ELSE sock' = [sock EXCEPT ![server.socket].state = "closing"]
  BY DEF ServerCloseDone, ServerSocketCloses
<1>3. /\ server'.destroyed /\ server'.listens = server.listens /\ server'.closed
      /\ server'.socket = server.socket /\ server'.visited = server.visited
      /\ server'.awaits = server.awaits
  BY <1>1, <1>2 DEF ServerStates
<1>4. \A c \in Clients : ~LiveSession(c)
  <2>1. \A c \in Clients : c # None
    BY SessionsAssumption
  <2> QED BY <1>2, <2>1 DEF ServerInv, SessionsSound, Awaiting, LiveSession
<1>5. ServerSound'
  <2>1. \A s \in ServerSockets : s # server.socket => sock'[s] = sock[s]
    BY <1>1, <1>2
  <2>2. server.socket \in ServerSockets => sock'[server.socket].state = "closing"
    BY <1>1, <1>2, SocketsApart DEF SocketStates
  <2>3. \A s \in ServerSockets : sock'[s].owner = sock[s].owner
    BY <1>1, <1>2 DEF SocketStates
  <2> QED BY <1>2, <1>3, <2>1, <2>2, <2>3 DEF ServerInv, ServerSound, Opened
<1>6. SessionsSound' /\ SessionsHeard'
  BY <1>2, <1>3, <1>4 DEF ServerInv, SessionsSound, SessionsHeard, LiveSession
<1> QED BY <1>5, <1>6 DEF ServerInv

LEMMA ServerOnCloseInv ==
  ASSUME TypeOK, ServerInv, ServerOnClose
  PROVE  ServerInv'
<1>1. /\ server \in ServerStates /\ session \in [Clients -> SessionStates]
      /\ sock \in [Sockets \cup ServerSockets -> SocketStates]
  BY DEF TypeOK
<1>2. PICK s \in ServerSockets :
        /\ sock[s].state = "closing" /\ sock' = [sock EXCEPT ![s].state = "closed"]
        /\ server' = [server EXCEPT !.destroyed = TRUE]
        /\ session' = [c \in Clients |->
             [session[c] EXCEPT !.destroyed = session[c].destroyed \/ session[c].known]]
  BY DEF ServerOnClose
<1>3. /\ server'.destroyed /\ server'.listens = server.listens /\ server'.closed = server.closed
      /\ server'.socket = server.socket /\ server'.visited = server.visited
      /\ server'.awaits = server.awaits
  BY <1>1, <1>2 DEF ServerStates
<1>4. \A c \in Clients :
        /\ session'[c].known = session[c].known /\ session'[c].socket = session[c].socket
        /\ session'[c].known => session'[c].destroyed
  BY <1>1, <1>2 DEF SessionStates
<1>5. ServerSound'
  <2>1. \A t \in ServerSockets : t # s => sock'[t] = sock[t]
    BY <1>1, <1>2
  <2>2. sock'[s].state = "closed"
    BY <1>1, <1>2 DEF SocketStates
  <2>3. server.socket = s /\ s # None
    BY <1>2, SocketsApart DEF ServerInv, ServerSound
  <2>4. sock'[s].owner = sock[s].owner
    BY <1>1, <1>2 DEF SocketStates
  <2> QED BY <1>3, <2>1, <2>2, <2>3, <2>4 DEF ServerInv, ServerSound, Opened
<1>6. SessionsSound' /\ SessionsHeard'
  <2>1. server.visited \subseteq Clients
    BY <1>1 DEF ServerStates
  <2> QED BY <1>3, <1>4, <2>1 DEF ServerInv, SessionsSound, SessionsHeard, LiveSession
<1> QED BY <1>5, <1>6 DEF ServerInv

-----------------------------------------------------------------------------
(* Both sides                                                              *)

\* What is of the clients and their sockets and nothing else.
LEMMA ClientsApart ==
  ASSUME TypeOK, ClientInv,
         \/ \E c \in Clients : ClientNext(c)
         \/ \E call \in calls : CallNext(call)
         \/ \E p \in net : ClientReceive(p)
  PROVE  UNCHANGED serverSide /\ \A s \in ServerSockets : sock'[s] = sock[s]
<1>1. ASSUME NEW c \in Clients, DestroyClient(c)
      PROVE  \A s \in ServerSockets : sock'[s] = sock[s]
  BY <1>1, DestroyEffect
<1>2. ASSUME NEW c \in Clients, NEW kind, CloseClient(c, kind)
      PROVE  UNCHANGED serverSide /\ \A s \in ServerSockets : sock'[s] = sock[s]
  BY <1>1, <1>2 DEF CloseClient
<1>3. CASE \E c \in Clients : ClientNext(c)
  <2>1. PICK c \in Clients : ClientNext(c)
    BY <1>3
  <2>2. CASE NewClient(c) \/ Connect(c) \/ Spawn(c) \/ SendData(c)
    BY <2>2 DEF NewClient, Connect, Spawn, Begin, SendData
  <2>3. CASE Close(c) \/ Idle(c)
    BY <1>2, <2>3 DEF Close, Idle
  <2>4. CASE Destroy(c) \/ CloseSent(c)
    BY <1>1, <2>4 DEF Destroy, CloseSent
  <2> QED BY <2>1, <2>2, <2>3, <2>4 DEF ClientNext
<1>4. CASE \E call \in calls : CallNext(call)
  <2>1. PICK call \in calls : CallNext(call)
    BY <1>4
  <2>2. call.socket \in Sockets \cup {None} /\ call \in Calls
    BY DEF TypeOK, Calls
  <2>3. sock \in [Sockets \cup ServerSockets -> SocketStates]
    BY DEF TypeOK
  <2>4. CASE ConnectLookedUp(call)
    BY <2>3, <2>4, SocketsApart DEF ConnectLookedUp
  <2>5. CASE ConnectListening(call)
    BY <2>2, <2>3, <2>5, SocketsApart DEF ConnectListening
  <2>6. CASE SpawnLookedUp(call)
    <3>1. call.socket \in Sockets
      BY <2>2, <2>6 DEF SpawnLookedUp, ClientInv, CallsSound
    <3> QED BY <2>3, <2>6, <3>1, SocketsApart DEF SpawnLookedUp
  <2>7. CASE LookupFails(call)
    BY <2>7 DEF LookupFails
  <2> QED BY <2>1, <2>4, <2>5, <2>6, <2>7 DEF CallNext
<1>5. CASE \E p \in net : ClientReceive(p)
  <2>1. PICK p \in net : ClientReceive(p)
    BY <1>5
  <2>2. p.id \in Clients
    BY DEF TypeOK, Packets
  <2>3. UNCHANGED sock \/ DestroyClient(p.id)
    BY <2>1 DEF ClientReceive
  <2> QED BY <1>1, <2>1, <2>2, <2>3 DEF ClientReceive
<1> QED BY <1>3, <1>4, <1>5

\* What is of the server and its sockets and nothing else.
LEMMA ServerApart ==
  ASSUME TypeOK, ServerInv,
         \/ \E c \in Clients : SessionNext(c)
         \/ \E p \in net : ServerReceive(p)
         \/ Listen \/ ListenLookedUp \/ ListenLookupFails \/ Bound
         \/ ServerClose \/ ServerCloseNext \/ ServerCloseDone \/ ServerOnClose \/ Lose
  PROVE  UNCHANGED <<client, calls>> /\ \A s \in Sockets : sock'[s] = sock[s]
<1>1. sock \in [Sockets \cup ServerSockets -> SocketStates]
      /\ server.socket \in ServerSockets \cup {None}
  BY DEF TypeOK, ServerStates
<1>2. CASE \E c \in Clients : SessionNext(c)
  BY <1>2 DEF SessionNext, SessionSend, SessionClose, SessionClosed, SessionIdle, clientSide
<1>3. CASE \E p \in net : ServerReceive(p)
  BY <1>3 DEF ServerReceive, clientSide
<1>4. CASE Listen \/ ListenLookupFails \/ ServerClose \/ ServerCloseNext \/ Lose
  BY <1>4 DEF Listen, ListenLookupFails, ServerClose, ServerCloseNext, Lose, clientSide
<1>5. CASE ListenLookedUp
  BY <1>1, <1>5, SocketsApart DEF ListenLookedUp
<1>6. CASE Bound
  BY <1>1, <1>6, SocketsApart DEF Bound
<1>7. CASE ServerCloseDone
  BY <1>1, <1>7, SocketsApart DEF ServerCloseDone, ServerSocketCloses
<1>8. CASE ServerOnClose
  BY <1>1, <1>8, SocketsApart DEF ServerOnClose
<1> QED BY <1>2, <1>3, <1>4, <1>5, <1>6, <1>7, <1>8

LEMMA InitInv == Init => IInv
<1> SUFFICES ASSUME Init PROVE IInv
  OBVIOUS
<1>1. TypeOK
  BY TypeInit
<1>2. /\ \A c \in Clients : client[c] = NoClient /\ session[c] = NoSession
      /\ \A s \in Sockets \cup ServerSockets :
           sock[s].state = "unused" /\ sock[s].owner = None /\ sock[s].conns = {}
      /\ calls = {}
      /\ server.listens = 0 /\ ~server.closed /\ server.visited = {}
  BY DEF Init
<1>3. LinksSound
  BY <1>2, SocketsApart DEF LinksSound, NoClient, Opened
<1>4. ClientsSound
  BY <1>2 DEF ClientsSound, NoClient
<1>5. CallsSound /\ OwnersSound
  BY <1>2 DEF CallsSound, OwnersSound
<1>6. ServerSound
  BY <1>2 DEF ServerSound, Opened
<1>7. SessionsSound /\ SessionsHeard
  BY <1>2 DEF SessionsSound, SessionsHeard, LiveSession, NoSession
<1> QED BY <1>1, <1>3, <1>4, <1>5, <1>6, <1>7 DEF IInv

LEMMA StepInv == ~Overlap /\ IInv /\ [Next]_vars => IInv'
<1> SUFFICES ASSUME ~Overlap, IInv, [Next]_vars PROVE IInv'
  OBVIOUS
<1>1. TypeOK /\ TypeOK' /\ ClientInv /\ ServerInv
  BY TypeStep DEF IInv, ClientInv, ServerInv
<1>2. CASE \/ \E c \in Clients : ClientNext(c)
           \/ \E call \in calls : CallNext(call)
           \/ \E p \in net : ClientReceive(p)
  <2>1. ClientInv'
    BY <1>1, <1>2, ClientNextInv, CallNextInv, ClientReceiveInv
  <2>2. ServerInv'
    BY <1>1, <1>2, ClientsApart, ServerStutter
  <2> QED BY <1>1, <2>1, <2>2 DEF IInv, ClientInv, ServerInv
<1>3. CASE \/ \E c \in Clients : SessionNext(c)
           \/ \E p \in net : ServerReceive(p)
           \/ Listen \/ ListenLookedUp \/ ListenLookupFails \/ Bound
           \/ ServerClose \/ ServerCloseNext \/ ServerCloseDone \/ ServerOnClose \/ Lose
  <2>1. ClientInv'
    BY <1>1, <1>3, ServerApart, FlagsInv
  <2>2. ServerInv'
    <3>1. CASE Lose
      BY <1>1, <3>1, ServerStutter DEF Lose, clientSide
    <3> QED BY <1>1, <1>3, <3>1, SessionNextInv, ServerReceiveInv, ListenInv, BoundInv,
               ServerCloseInv, ServerCloseDoneInv, ServerOnCloseInv
  <2> QED BY <1>1, <2>1, <2>2 DEF IInv, ClientInv, ServerInv
<1>4. CASE UNCHANGED vars
  <2>1. UNCHANGED <<client, sock, calls, server, session>>
    BY <1>4 DEF vars, clientSide, serverSide
  <2>2. ClientInv'
    BY <1>1, <2>1, FlagsInv
  <2>3. ServerInv'
    BY <1>1, <2>1, ServerStutter DEF serverSide
  <2> QED BY <1>1, <2>2, <2>3 DEF IInv, ClientInv, ServerInv
<1> QED BY <1>2, <1>3, <1>4 DEF Next

\* For applications that wait, the conns of a socket are the clients that hold
\* it, in every reachable state, and so on for the calls and the server.
THEOREM Invariance == ASSUME ~Overlap PROVE Spec => []IInv
BY InitInv, StepInv, PTL DEF Spec

\* Every socket that is open has a user: a client that is not destroyed, or
\* the server as long as close() has not come to its end.
THEOREM SocketsAreHeld == ASSUME ~Overlap PROVE Spec => []SocketsHeld
<1>1. IInv => SocketsHeld
  <2> SUFFICES ASSUME IInv PROVE SocketsHeld
    OBVIOUS
  <2>1. ASSUME NEW s \in Sockets, Opened(s)
        PROVE  \E c \in Clients : client[c].stage = "live" /\ client[c].socket = s
    <3>1. PICK c \in sock[s].conns : TRUE
      BY <2>1 DEF IInv, LinksSound
    <3>2. c \in Clients
      BY <3>1 DEF IInv, TypeOK, SocketStates
    <3> QED BY <3>1, <3>2, SocketsApart DEF IInv, LinksSound
  <2>2. ASSUME NEW s \in ServerSockets, Opened(s)
        PROVE  server.socket = s /\ ~server.closed
    BY <2>2 DEF IInv, ServerSound, Opened
  <2> QED BY <2>1, <2>2 DEF SocketsHeld
<1> QED BY <1>1, Invariance, PTL

\* A client whose connect or spawn has returned keeps a socket that is open and
\* routes packets to it, until it is destroyed.
THEOREM ReadyAreLinked == ASSUME ~Overlap PROVE Spec => []ReadyLinked
<1>1. IInv => ReadyLinked
  <2> SUFFICES ASSUME IInv, NEW c \in Clients, client[c].stage = "live", client[c].ready
               PROVE  Linked(c) /\ c \in sock[client[c].socket].conns
    BY DEF ReadyLinked
  <2>1. Linked(c)
    BY DEF IInv, ClientsSound
  <2>2. client[c].socket \in Sockets
    BY <2>1 DEF IInv, TypeOK, ClientStates, Linked
  <2> QED BY <2>1, <2>2 DEF IInv, LinksSound
<1> QED BY <1>1, Invariance, PTL

\* A session of the server that is not destroyed has the open socket of the server.
THEOREM SessionsAreHeard == ASSUME ~Overlap PROVE Spec => []SessionsHeard
<1>1. IInv => SessionsHeard
  BY DEF IInv
<1> QED BY <1>1, Invariance, PTL

\* No client and no server opens a second socket while it has one.
THEOREM OnlyOneSocket == ASSUME ~Overlap PROVE Spec => []OneSocket
<1>1. IInv => OneSocket
  <2> SUFFICES ASSUME IInv, NEW owner \in Clients \cup {None}
               PROVE  Cardinality({s \in DOMAIN sock : Opened(s) /\ sock[s].owner = owner}) <= 1
    BY DEF OneSocket
  <2> DEFINE mine == {s \in DOMAIN sock : Opened(s) /\ sock[s].owner = owner}
  <2>1. DOMAIN sock = Sockets \cup ServerSockets
    BY DEF IInv, TypeOK
  <2>2. \A s \in mine : sock[s].state # "unused"
    BY DEF Opened
  <2>3. \A s, t \in mine : s = t
    BY <2>1, <2>2 DEF IInv, OwnersSound, ServerSound
  <2>4. CASE mine = {}
    BY <2>4, FS_EmptySet
  <2>5. CASE mine # {}
    <3>1. PICK s \in mine : mine = {s}
      BY <2>3, <2>5
    <3> QED BY <3>1, FS_Singleton
  <2> QED BY <2>4, <2>5
<1> QED BY <1>1, Invariance, PTL
=============================================================================
