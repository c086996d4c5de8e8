SPECIFICATION FairSpec
CONSTANTS
  Client = Client
  Server = Server
  Ids = {1, 3}
  MaxStreams = 2
  AutoDestroy = TRUE
  MaxPieces = 2
  MaxCloses = 0
  MaxDeletes = 0
  MaxErrors = 0
  MaxDups = 1
  MaxEnds = 0
INVARIANT OfferedOnce
PROPERTY SlotsFreed
CHECK_DEADLOCK FALSE
