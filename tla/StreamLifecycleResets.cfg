SPECIFICATION FairSpec
CONSTANTS
  Client = Client
  Server = Server
  Ids = {1, 2, 3}
  MaxStreams = 2
  AutoDestroy = FALSE
  MaxPieces = 0
  MaxCloses = 2
  MaxDeletes = 0
  MaxErrors = 1
  MaxDups = 0
  MaxEnds = 0
INVARIANTS TypeOK IInv
PROPERTY ResetsEnd
CHECK_DEADLOCK FALSE
