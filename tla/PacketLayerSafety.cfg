SPECIFICATION Spec
CONSTANTS
  Client = Client
  Server = Server
  d1 = d1
  d2 = d2
  d3 = d3
  d4 = d4
  d5 = d5
  d6 = d6
  Data = {d2, d3}
  Owner <- OwnersClient
  MaxUnacked = 2
  MaxPacketNumber = 6
  Byte = 256
  MaxPings = 1
  MaxAckRanges = 2
  MaxLosses = 0
  MaxDups = 1
SYMMETRY Symmetric
INVARIANTS TypeOK NoFalseAck NumbersUnique AcksOnlySent NoLoss StaleAcksHarmless IInv
PROPERTY EndsAreSendQueues
CONSTRAINT RepeatsWithFewerNumbers
CHECK_DEADLOCK FALSE
