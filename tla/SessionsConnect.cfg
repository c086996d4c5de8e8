SPECIFICATION Spec
CONSTANTS
  Clients = {1, 2}
  Sockets = {1, 2}
  ServerSockets = {3}
  Overlap = TRUE
  MaxCalls = 2
  MaxSends = 0
  MaxCloses = 0
INVARIANTS OneSocket
CHECK_DEADLOCK FALSE
