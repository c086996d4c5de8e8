SPECIFICATION Spec
CONSTANTS
  Client = Client
  Server = Server
  Ids = {1, 2, 3}
  MaxStreams = 2
  AutoDestroy = TRUE
  MaxPieces = 0
  MaxCloses = 1
  MaxDeletes = 1
  MaxErrors = 0
  MaxDups = 0
  MaxEnds = 2
INVARIANTS SlotsCounted OpenBounded IInv
CHECK_DEADLOCK FALSE
