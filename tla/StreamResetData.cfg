SPECIFICATION Spec
CONSTANTS
  Client = Client
  Server = Server
  Ids = {1, 3}
  MaxStreams = 2
  AutoDestroy = TRUE
  MaxPieces = 2
  MaxCloses = 1
  MaxDeletes = 0
  MaxErrors = 0
  MaxDups = 0
  MaxEnds = 0
INVARIANT NoDataBeyondReset
CHECK_DEADLOCK FALSE
