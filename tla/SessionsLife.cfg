SPECIFICATION FairSpec
CONSTANTS
  Clients = {1, 2}
  Sockets = {1}
  ServerSockets = {3}
  Overlap = FALSE
  MaxCalls = 2
  MaxSends = 1
  MaxCloses = 1
INVARIANTS TypeOK SocketsHeld ReadyLinked SessionsHeard IInv
PROPERTIES ServerStops SessionsForgotten
CHECK_DEADLOCK FALSE
