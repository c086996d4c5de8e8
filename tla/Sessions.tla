------------------------------ MODULE Sessions ------------------------------
(***************************************************************************)
(* The life of the sessions and sockets at both ends: connect, spawn,      *)
(* listen, close, reset, destroy and the idle timers of Client             *)
(* (src/src/client.ts), Server with its ServerSessions (src/src/server.ts) *)
(* and the sockets that clients share (src/src/socket.ts).                 *)
(*                                                                         *)
(* A connection is named by its client: the ID is random and goes to the   *)
(* server in every packet.  Both ends run the same code, so every version  *)
(* offered is supported; what matters of a packet is whether it carries    *)
(* the version at all.  dnsLookup, binding and the sending of a packet     *)
(* call back later, and anything may happen in between.                    *)
(***************************************************************************)
EXTENDS Integers, FiniteSets

CONSTANTS
  Clients,      \* numbers that stand for the random connection IDs
  Sockets,      \* the clients' UDP sockets
  ServerSockets,\* the server's
  Overlap,      \* may an application use a client whose connect or spawn is pending,
                \* or a server whose listen() is at its lookup or that it has closed?
  MaxCalls,     \* bound: calls of connect and spawn
  MaxSends,     \* bound: packets with data that clients send
  MaxCloses     \* bound: calls of close, reset and destroy

None == 0

ASSUME SessionsAssumption ==
  /\ Clients \subseteq Nat \ {None} /\ IsFiniteSet(Clients)
  /\ Sockets \subseteq Nat \ {None} /\ IsFiniteSet(Sockets)
  /\ ServerSockets \subseteq Nat \ ({None} \cup Sockets) /\ IsFiniteSet(ServerSockets)
  /\ Overlap \in BOOLEAN
  /\ MaxCalls \in Nat /\ MaxSends \in Nat /\ MaxCloses \in Nat

VARIABLES
  client,     \* client[c]: a Client, with its kSocket and versionNegotiated
  sock,       \* sock[s]: a socket and its SocketState
  calls,      \* calls of connect and spawn that have not returned
  server,     \* the Server, its kSocket, its listen() calls at dnsLookup, its close() call
  session,    \* session[c]: the entry of the server's kConns for c
  net,        \* packets in flight
  made, sends, closes

clientSide == <<client, sock, calls>>
serverSide == <<server, session>>
vars == <<clientSide, serverSide, net, made, sends, closes>>

\* closing: the packet of close() or reset() is being sent, destroy follows.
\* sent: a numbered packet has been sent, without which reset() throws.
NoClient ==
  [stage |-> "none", socket |-> None, ready |-> FALSE, negotiated |-> FALSE,
   sent |-> FALSE, closing |-> FALSE]

NoSession ==
  [known |-> FALSE, socket |-> None, destroyed |-> FALSE, negotiated |-> FALSE,
   offered |-> FALSE, sent |-> FALSE, closing |-> FALSE]

Init ==
  /\ client = [c \in Clients |-> NoClient]
  /\ sock = [s \in Sockets \cup ServerSockets |->
       [state |-> "unused", owner |-> None, exclusive |-> s \in Sockets, conns |-> {}]]
  /\ calls = {}
  /\ server = [socket |-> None, listens |-> 0,
               destroyed |-> FALSE, closed |-> FALSE, visited |-> {}, awaits |-> None]
  /\ session = [c \in Clients |-> NoSession]
  /\ net = {} /\ made = 0 /\ sends = 0 /\ closes = 0

\* A regular packet carries a CONNECTION_CLOSE frame ("close") or anything else
\* ("data").  Only a client sets its version.
RegularPacket(to, c, kind, version) ==
  [to |-> to, id |-> c, kind |-> kind, version |-> version]

\* Mutant: the public flags of a reset packet include the version flag.
ResetPacketFlagged(to, c) == [to |-> to, id |-> c, kind |-> "reset", version |-> TRUE]

ResetPacket(to, c) == [to |-> to, id |-> c, kind |-> "reset", version |-> FALSE]

NegotiationPacket(c) ==
  [to |-> "client", id |-> c, kind |-> "negotiation", version |-> FALSE]

ToServer(c, kind) ==
  IF kind = "reset" THEN ResetPacket("server", c)
                    ELSE RegularPacket("server", c, kind, ~client[c].negotiated)

ToClient(c, kind) ==
  IF kind = "reset" THEN ResetPacket("client", c)
                    ELSE RegularPacket("client", c, kind, FALSE)

-----------------------------------------------------------------------------
(* A client: connect and spawn                                             *)

NewClient(c) ==
  /\ client[c].stage = "none"
  /\ client' = [client EXCEPT ![c].stage = "live"]
  /\ UNCHANGED <<sock, calls, serverSide, net, made, sends, closes>>

\* The application calls nothing on c that could overtake a call under way.
MayCall(c) ==
  /\ client[c].stage = "live"
  /\ Overlap \/ \A call \in calls : call.by # c

Begin(op, c, s) ==
  /\ made < MaxCalls /\ made' = made + 1
  /\ calls' = calls \cup {[op |-> op, n |-> made, by |-> c, socket |-> s]}
  /\ UNCHANGED <<client, sock, serverSide, net, sends, closes>>

\* connect(), up to its dnsLookup.
Connect(c) == MayCall(c) /\ client[c].socket = None /\ Begin("connect", c, None)

\* connect() goes on with a socket of its own, whatever became of c.
ConnectLookedUp(call) ==
  \E s \in Sockets :
    /\ call.op = "connect" /\ call.socket = None
    /\ sock[s].state = "unused"
    /\ sock' = [sock EXCEPT ![s] = [state |-> "binding", owner |-> call.by,
                                    exclusive |-> TRUE, conns |-> {call.by}]]
    /\ client' = [client EXCEPT ![call.by].socket = s]
    /\ calls' = (calls \ {call}) \cup {[call EXCEPT !.socket = s]}
    /\ UNCHANGED <<serverSide, net, made, sends, closes>>

\* The socket listens; setup() of the handshake is over at once.
ConnectListening(call) ==
  /\ call.op = "connect" /\ call.socket # None
  /\ sock[call.socket].state = "binding"
  /\ sock' = [sock EXCEPT ![call.socket].state = "open"]
  /\ client' = [client EXCEPT ![call.by].ready = TRUE]
  /\ calls' = calls \ {call}
  /\ UNCHANGED <<serverSide, net, made, sends, closes>>

\* spawn(), up to its dnsLookup.
Spawn(c) ==
  /\ MayCall(c) /\ client[c].socket # None
  /\ sock[client[c].socket].state # "closed"
  /\ Begin("spawn", c, client[c].socket)

\* Mutant: spawn leaves the socket exclusive.
SpawnLookedUpExclusive(call) ==
  \E d \in Clients :
    /\ call.op = "spawn" /\ client[d].stage = "none"
    /\ client' = [client EXCEPT ![d] =
         [@ EXCEPT !.stage = "live", !.socket = call.socket,
                   !.ready = sock[call.socket].state = "open"]]
    /\ sock' = [sock EXCEPT ![call.socket].conns = @ \cup {d}]
    /\ calls' = calls \ {call}
    /\ UNCHANGED <<serverSide, net, made, sends, closes>>

\* spawn() goes on with the socket it saw before: address() throws when that
\* is not open any more, and the new client is left as it is.
SpawnLookedUp(call) ==
  \E d \in Clients :
    /\ call.op = "spawn" /\ client[d].stage = "none"
    /\ client' = [client EXCEPT ![d] =
         [@ EXCEPT !.stage = "live", !.socket = call.socket,
                   !.ready = sock[call.socket].state = "open"]]
    /\ sock' = [sock EXCEPT ![call.socket] =
         [@ EXCEPT !.conns = sock[call.socket].conns \cup {d}, !.exclusive = FALSE]]
    /\ calls' = calls \ {call}
    /\ UNCHANGED <<serverSide, net, made, sends, closes>>

\* dnsLookup fails, and with it connect() or spawn().
LookupFails(call) ==
  /\ call.op = "spawn" \/ call.socket = None
  /\ calls' = calls \ {call}
  /\ UNCHANGED <<client, sock, serverSide, net, made, sends, closes>>

-----------------------------------------------------------------------------
(* A client: packets, close and destroy                                    *)

Linked(c) == client[c].socket # None /\ sock[client[c].socket].state # "closed"

\* Mutant: only an exclusive socket is closed.
DestroyClientAlone(c) ==
  LET s == client[c].socket
      others == sock[s].conns \ {c}
  IN /\ client' = [client EXCEPT ![c] =
          [@ EXCEPT !.stage = "destroyed", !.socket = None, !.closing = FALSE]]
     /\ IF s = None
        THEN UNCHANGED sock
        ELSE sock' = [sock EXCEPT ![s] =
               [@ EXCEPT !.conns = others,
                         !.state = IF sock[s].exclusive THEN "closed" ELSE sock[s].state]]

\* destroy() of a client that is not destroyed.
DestroyClient(c) ==
  LET s == client[c].socket
      others == sock[s].conns \ {c}
  IN /\ client' = [client EXCEPT ![c] =
          [@ EXCEPT !.stage = "destroyed", !.socket = None, !.closing = FALSE]]
     /\ IF s = None
        THEN UNCHANGED sock
        ELSE sock' = [sock EXCEPT ![s] =
               [@ EXCEPT !.conns = others,
                         !.state = IF sock[s].exclusive \/ others = {}
                                   THEN "closed" ELSE sock[s].state]]

\* close() and reset(): without a socket that works the callback gets an error
\* at once.  reset() of a session that has sent nothing rejects: there is no
\* number before its first.
CloseClient(c, kind) ==
  /\ kind = "reset" => client[c].sent
  /\ IF Linked(c)
     THEN /\ net' = net \cup {ToServer(c, kind)}
          /\ client' = [client EXCEPT ![c] = [@ EXCEPT !.closing = TRUE, !.sent = TRUE]]
          /\ UNCHANGED sock
     ELSE DestroyClient(c) /\ UNCHANGED net
  /\ UNCHANGED <<calls, serverSide, made, sends>>

SendData(c) ==
  /\ MayCall(c) /\ client[c].ready /\ Linked(c)
  /\ sends < MaxSends /\ sends' = sends + 1
  /\ net' = net \cup {ToServer(c, "data")}
  /\ client' = [client EXCEPT ![c].sent = TRUE]
  /\ UNCHANGED <<sock, calls, serverSide, made, closes>>

Close(c) ==
  \E kind \in {"close", "reset"} :
    /\ MayCall(c) /\ closes < MaxCloses /\ closes' = closes + 1
    /\ CloseClient(c, kind)

Destroy(c) ==
  /\ MayCall(c) /\ closes < MaxCloses /\ closes' = closes + 1
  /\ DestroyClient(c)
  /\ UNCHANGED <<calls, serverSide, net, made, sends>>

\* The packet of close() or reset() has been sent.
CloseSent(c) ==
  /\ client[c].closing
  /\ DestroyClient(c)
  /\ UNCHANGED <<calls, serverSide, net, made, sends, closes>>

\* The interval timer finds that nothing has arrived for idleTimeout, which
\* outlasts lookups and datagrams.
Idle(c) ==
  /\ client[c].stage = "live" /\ ~client[c].closing
  /\ \A call \in calls : call.by # c
  /\ \A p \in net : p.id = c => p.to = "server"
  /\ CloseClient(c, "close")
  /\ UNCHANGED closes

\* socketOnMessage of client.ts.  Every negotiation packet of this server
\* names the version that the client has offered, and is ignored.  With the
\* acknowledgements in a packet the client may send a packet once more, which
\* keeps the version it had.
ClientReceive(p) ==
  LET c == p.id
  IN /\ p.to = "client"
     /\ IF client[c].stage # "live" \/ ~Linked(c) \/ p.kind = "negotiation"
        THEN net' = net \ {p} /\ UNCHANGED <<client, sock, sends>>
        ELSE IF p.kind = "data"
        THEN /\ client' = [client EXCEPT ![c].negotiated = TRUE]
             /\ \/ net' = net \ {p} /\ UNCHANGED sends
                \/ /\ client[c].sent /\ sends < MaxSends /\ sends' = sends + 1
                   /\ \E version \in {TRUE, ~client[c].negotiated} :
                        net' = (net \ {p}) \cup {RegularPacket("server", c, "data", version)}
             /\ UNCHANGED sock
        ELSE net' = net \ {p} /\ DestroyClient(c) /\ UNCHANGED sends
     /\ UNCHANGED <<calls, serverSide, made, closes>>

-----------------------------------------------------------------------------
(* The server                                                              *)

\* listen(), up to its dnsLookup.
Listen ==
  /\ server.socket = None
  /\ server.listens < Cardinality(ServerSockets)
  /\ Overlap \/ (server.listens = 0 /\ ~server.destroyed)
  /\ server' = [server EXCEPT !.listens = @ + 1]
  /\ UNCHANGED <<clientSide, session, net, made, sends, closes>>

\* listen() goes on with a new socket, whatever became of the server.
ListenLookedUp ==
  \E s \in ServerSockets :
    /\ server.listens > 0 /\ sock[s].state = "unused"
    /\ server' = [server EXCEPT !.listens = @ - 1, !.socket = s]
    /\ sock' = [sock EXCEPT ![s].state = "binding"]
    /\ UNCHANGED <<client, calls, session, net, made, sends, closes>>

ListenLookupFails ==
  /\ server.listens > 0
  /\ server' = [server EXCEPT !.listens = @ - 1]
  /\ UNCHANGED <<clientSide, session, net, made, sends, closes>>

\* The socket is bound, or an error of bind() ends listen(): the server keeps
\* the socket nevertheless.
Bound ==
  \E s \in ServerSockets, state \in {"open", "failed"} :
    /\ sock[s].state = "binding"
    /\ sock' = [sock EXCEPT ![s].state = state]
    /\ UNCHANGED <<client, calls, serverSide, net, made, sends, closes>>

\* serverOnMessage.  A session that was not known is offered to the
\* application only when this packet carries the version.
ServerReceive(p) ==
  LET c == p.id
      entry == session[c]
      Put(e) == session' = [session EXCEPT ![c] = e]
      New(s) == IF entry.known THEN entry ELSE [entry EXCEPT !.known = TRUE, !.socket = s]
      Accepted(s) == [New(s) EXCEPT !.negotiated = TRUE, !.offered = @ \/ ~entry.known,
                                    !.destroyed = p.kind = "close"]
      listening == {s \in ServerSockets : sock[s].state = "open"}
      ignored == listening = {} \/ server.destroyed \/ entry.destroyed \/ (~entry.known /\ p.kind = "reset")
  IN /\ p.to = "server"
     /\ \/ ignored /\ net' = net \ {p} /\ UNCHANGED session
        \/ /\ ~ignored /\ p.kind = "reset"
           /\ net' = net \ {p} /\ Put([entry EXCEPT !.destroyed = TRUE])
        \/ /\ ~ignored /\ p.kind # "reset" /\ ~entry.negotiated /\ ~p.version
           /\ net' = (net \ {p}) \cup {NegotiationPacket(c)}
           /\ \E s \in listening : Put(New(s))
        \/ /\ ~ignored /\ p.kind # "reset" /\ (entry.negotiated \/ p.version)
           /\ net' = net \ {p} /\ \E s \in listening : Put(Accepted(s))
     /\ UNCHANGED <<clientSide, server, made, sends, closes>>

LiveSession(c) == session[c].known /\ ~session[c].destroyed

Heard(c) == session[c].known /\ sock[session[c].socket].state = "open"

\* The session acknowledges or sends something.
SessionSend(c) ==
  /\ LiveSession(c) /\ session[c].negotiated /\ Heard(c)
  /\ net' = net \cup {ToClient(c, "data")}
  /\ session' = [session EXCEPT ![c].sent = TRUE]
  /\ UNCHANGED <<clientSide, server, made, sends, closes>>

\* close() or reset() of a session.
CloseSession(c, kind) ==
  /\ kind = "reset" => session[c].sent
  /\ net' = net \cup {ToClient(c, kind)}
  /\ session' = [session EXCEPT ![c] = [@ EXCEPT !.closing = TRUE, !.sent = TRUE]]

\* The application has the session once it was offered.
SessionClose(c) ==
  /\ LiveSession(c) /\ session[c].offered /\ Heard(c)
  /\ closes < MaxCloses /\ closes' = closes + 1
  /\ \/ \E kind \in {"close", "reset"} : CloseSession(c, kind)
     \/ session' = [session EXCEPT ![c].destroyed = TRUE] /\ UNCHANGED net
  /\ UNCHANGED <<clientSide, server, made, sends>>

\* The packet of close() or reset() has been sent.
SessionClosed(c) ==
  /\ session[c].closing
  /\ session' = [session EXCEPT ![c] = [@ EXCEPT !.closing = FALSE, !.destroyed = TRUE]]
  /\ UNCHANGED <<clientSide, server, net, made, sends, closes>>

\* Mutant: the timer leaves a destroyed session alone.
SessionIdleLive(c) ==
  /\ LiveSession(c) /\ ~session[c].closing /\ ~server.closed
  /\ \A p \in net : p.id = c => p.to = "client"
  /\ session' = [session EXCEPT ![c] = NoSession]
  /\ UNCHANGED <<clientSide, server, net, made, sends, closes>>

\* _intervalCheck of the server: the session has been silent for idleTimeout,
\* whether or not it is destroyed.
SessionIdle(c) ==
  /\ session[c].known /\ ~session[c].closing /\ ~server.closed
  /\ \A p \in net : p.id = c => p.to = "client"
  /\ session' = [session EXCEPT ![c] = NoSession]
  /\ UNCHANGED <<clientSide, server, net, made, sends, closes>>

\* Server.close: the sessions are closed one after the other, each awaited.
ServerClose ==
  /\ ~server.destroyed /\ (Overlap \/ server.listens = 0)
  /\ server' = [server EXCEPT !.destroyed = TRUE]
  /\ UNCHANGED <<clientSide, session, net, made, sends, closes>>

Awaiting == server.awaits # None /\ session[server.awaits].closing

\* Mutant: sessions that were not negotiated are not closed.
ServerCloseNegotiated ==
  \E c \in Clients \ server.visited :
    /\ server.destroyed /\ ~server.closed /\ ~Awaiting /\ session[c].known
    /\ server' = [server EXCEPT !.visited = @ \cup {c}]
    /\ IF session[c].destroyed \/ ~session[c].negotiated
       THEN UNCHANGED <<session, net>>
       ELSE CloseSession(c, "close")
    /\ UNCHANGED <<clientSide, made, sends, closes>>

\* close() of a destroyed session resolves at once.
ServerCloseNext ==
  \E c \in Clients \ server.visited :
    /\ server.destroyed /\ ~server.closed /\ ~Awaiting /\ session[c].known
    /\ IF session[c].destroyed
       THEN /\ server' = [server EXCEPT !.visited = @ \cup {c}]
            /\ UNCHANGED <<session, net>>
       ELSE /\ server' = [server EXCEPT !.visited = @ \cup {c}, !.awaits = c]
            /\ CloseSession(c, "close")
    /\ UNCHANGED <<clientSide, made, sends, closes>>

\* close() of the server's socket.
ServerSocketCloses ==
  IF server.socket = None
  THEN UNCHANGED sock
  ELSE sock' = [sock EXCEPT ![server.socket].state = "closing"]

\* Mutant: the close() of the last session is not awaited.
ServerCloseDoneEarly ==
  /\ server.destroyed /\ ~server.closed
  /\ \A c \in Clients : session[c].known => c \in server.visited
  /\ server' = [server EXCEPT !.closed = TRUE]
  /\ ServerSocketCloses
  /\ UNCHANGED <<client, calls, session, net, made, sends, closes>>

ServerCloseDone ==
  /\ server.destroyed /\ ~server.closed /\ ~Awaiting
  /\ \A c \in Clients : session[c].known => c \in server.visited
  /\ server' = [server EXCEPT !.closed = TRUE]
  /\ ServerSocketCloses
  /\ UNCHANGED <<client, calls, session, net, made, sends, closes>>

\* The socket's close event, and serverOnClose.
ServerOnClose ==
  \E s \in ServerSockets :
    /\ sock[s].state = "closing"
    /\ sock' = [sock EXCEPT ![s].state = "closed"]
    /\ server' = [server EXCEPT !.destroyed = TRUE]
    /\ session' = [c \in Clients |->
         [session[c] EXCEPT !.destroyed = @ \/ session[c].known]]
    /\ UNCHANGED <<client, calls, net, made, sends, closes>>

Lose ==
  \E p \in net :
    /\ net' = net \ {p}
    /\ UNCHANGED <<clientSide, serverSide, made, sends, closes>>

-----------------------------------------------------------------------------
ClientNext(c) ==
  \/ NewClient(c) \/ Connect(c) \/ Spawn(c) \/ SendData(c)
  \/ Close(c) \/ Destroy(c) \/ CloseSent(c) \/ Idle(c)

SessionNext(c) ==
  SessionSend(c) \/ SessionClose(c) \/ SessionClosed(c) \/ SessionIdle(c)

CallNext(call) ==
  \/ ConnectLookedUp(call) \/ ConnectListening(call)
  \/ SpawnLookedUp(call) \/ LookupFails(call)

Next ==
  \/ \E c \in Clients : ClientNext(c) \/ SessionNext(c)
  \/ \E call \in calls : CallNext(call)
  \/ \E p \in net : ClientReceive(p) \/ ServerReceive(p)
  \/ Listen \/ ListenLookedUp \/ ListenLookupFails \/ Bound
  \/ ServerClose \/ ServerCloseNext \/ ServerCloseDone \/ ServerOnClose \/ Lose

Spec == Init /\ [][Next]_vars

\* Datagrams reach the server or are lost, sends call back, the server's timer and its
\* close() go on.  Nothing is assumed of the applications.
Fairness ==
  /\ WF_vars(\E p \in net : ServerReceive(p))
  /\ WF_vars(ServerCloseNext) /\ WF_vars(ServerCloseDone)
  /\ \A c \in Clients : WF_vars(SessionClosed(c)) /\ WF_vars(SessionIdle(c))

FairSpec == Spec /\ Fairness

-----------------------------------------------------------------------------
(* Properties                                                              *)

ClientStates ==
  [stage : {"none", "live", "destroyed"}, socket : Sockets \cup {None}, ready : BOOLEAN,
   negotiated : BOOLEAN, sent : BOOLEAN, closing : BOOLEAN]

SocketStates ==
  [state : {"unused", "binding", "failed", "open", "closing", "closed"},
   owner : Clients \cup {None}, exclusive : BOOLEAN, conns : SUBSET Clients]

Calls ==
  [op : {"connect", "spawn"}, n : Nat, by : Clients, socket : Sockets \cup {None}]

ServerStates ==
  [socket : ServerSockets \cup {None}, listens : Nat, destroyed : BOOLEAN,
   closed : BOOLEAN, visited : SUBSET Clients, awaits : Clients \cup {None}]

SessionStates ==
  [known : BOOLEAN, socket : ServerSockets \cup {None}, destroyed : BOOLEAN,
   negotiated : BOOLEAN, offered : BOOLEAN, sent : BOOLEAN, closing : BOOLEAN]

\* Only packets of a client that are not reset packets carry the version.
Packets ==
  [to : {"server"}, id : Clients, kind : {"data", "close"}, version : BOOLEAN] \cup
  [to : {"server"}, id : Clients, kind : {"reset"}, version : {FALSE}] \cup
  [to : {"client"}, id : Clients, kind : {"data", "close", "reset", "negotiation"},
   version : {FALSE}]

TypeOK ==
  /\ client \in [Clients -> ClientStates]
  /\ sock \in [Sockets \cup ServerSockets -> SocketStates]
  /\ calls \subseteq Calls
  /\ server \in ServerStates
  /\ session \in [Clients -> SessionStates]
  /\ net \subseteq Packets
  /\ made \in Nat /\ sends \in Nat /\ closes \in Nat

Opened(s) == sock[s].state \in {"binding", "failed", "open"}

\* No socket outlives those that use it: destroy() closes it with the last of
\* the clients, in whatever order a client and those it spawned end, and
\* Server.close the server's.
SocketsHeld ==
  /\ \A s \in Sockets : Opened(s) =>
       \E c \in Clients : client[c].stage = "live" /\ client[c].socket = s
  /\ \A s \in ServerSockets : Opened(s) => server.socket = s /\ ~server.closed

\* Server.close and serverOnClose: no session of the server lives on without
\* the socket, whose packets it could neither send nor get any more.
SessionsHeard == \A c \in Clients : LiveSession(c) => Heard(c)

\* A socket is not closed under a client that shares it: once connect or spawn
\* has returned, a client keeps an open socket, that routes packets to it,
\* until it is destroyed.
ReadyLinked ==
  \A c \in Clients : client[c].stage = "live" /\ client[c].ready =>
    Linked(c) /\ c \in sock[client[c].socket].conns

\* "Client connecting duplicated", "Server listening": neither a client nor the
\* server opens a second socket.
OneSocket ==
  \A owner \in Clients \cup {None} :
    Cardinality({s \in DOMAIN sock : Opened(s) /\ sock[s].owner = owner}) <= 1

\* Server.close comes to its end and leaves no session behind.
ServerStops ==
  server.destroyed ~> server.closed /\ \A c \in Clients : ~LiveSession(c)

\* The server forgets every session at last, even when the packets that close
\* it are lost, unless the whole server is closed.
SessionsForgotten ==
  \A c \in Clients : session[c].known ~> ~session[c].known \/ server.destroyed

-----------------------------------------------------------------------------
(* The inductive invariant behind the safety properties, for applications  *)
(* that wait for the calls they have made (Overlap is FALSE).              *)

\* The kSocket of a client and the conns of the socket agree.
LinksSound ==
  /\ \A c \in Clients, s \in Sockets : c \in sock[s].conns <=> client[c].socket = s
  /\ \A c \in Clients : client[c].socket # None =>
       client[c].stage = "live" /\ sock[client[c].socket].state # "unused"
  /\ \A s \in Sockets : Opened(s) => sock[s].conns # {}
  /\ \A s \in Sockets : sock[s].exclusive =>
       \A c, d \in sock[s].conns : c = d

\* What the flags of a client say: one whose socket is ready holds one that is
\* not closed, and one that is closing has a socket.
ClientsSound ==
  \A c \in Clients :
    /\ client[c].stage = "none" => ~client[c].ready
    /\ client[c].closing => client[c].socket # None
    /\ client[c].stage = "live" /\ client[c].ready => Linked(c)

\* What a call that has not returned may rely on: connect() finds its client
\* as it was before the lookup, and spawn() a socket that was in use.
CallsSound ==
  /\ \A a, b \in calls : a.by = b.by => a = b
  /\ \A call \in calls :
       /\ call.op = "connect" /\ call.socket = None =>
            client[call.by].stage = "live" /\ client[call.by].socket = None
       /\ call.op = "connect" /\ call.socket # None =>
            /\ client[call.by].stage # "none"
            /\ client[call.by].stage = "live" => client[call.by].socket = call.socket
       /\ call.op = "spawn" => call.socket # None
       /\ call.socket # None => sock[call.socket].state # "unused"

\* A client opens one socket, and keeps it as long as it lives.
OwnersSound ==
  /\ \A s \in Sockets : sock[s].state # "unused" =>
       LET owner == sock[s].owner
       IN /\ owner # None /\ client[owner].stage # "none"
          /\ client[owner].stage = "live" => client[owner].socket = s
  /\ \A s, t \in Sockets :
       sock[s].state # "unused" /\ sock[t].state # "unused" /\ sock[s].owner = sock[t].owner
         => s = t

\* The server has one socket at most, and none that is open once it is closed.
ServerSound ==
  /\ server.listens > 0 => server.socket = None /\ ~server.destroyed /\ server.listens = 1
  /\ \A s \in ServerSockets :
       sock[s].owner = None /\ (sock[s].state # "unused" => server.socket = s)
  /\ \A s \in ServerSockets : Opened(s) => ~server.closed
  /\ server.closed => server.destroyed

\* A session of kConns has the socket it came by, and one that Server.close has
\* passed is destroyed or is the one awaited.
SessionsSound ==
  /\ \A c \in Clients : session[c].known => session[c].socket # None
  /\ server.visited # {} => server.destroyed
  /\ \A c \in server.visited : LiveSession(c) => server.awaits = c /\ session[c].closing

IInv ==
  /\ TypeOK
  /\ LinksSound /\ ClientsSound /\ CallsSound /\ OwnersSound
  /\ ServerSound /\ SessionsSound /\ SessionsHeard
=============================================================================
