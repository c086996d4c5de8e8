SPECIFICATION Spec
CONSTANTS
  Client = Client
  Server = Server
  d1 = d1
  d2 = d2
  d3 = d3
  d4 = d4
  d5 = d5
  d6 = d6
  Data = {d1, d2, d3, d4, d5, d6}
  Owner <- OwnersClient
  MaxUnacked = 9
  MaxPacketNumber = 8
  Byte = 8
  MaxPings = 0
  MaxAckRanges = 256
  MaxLosses = 0
  MaxDups = 0
SYMMETRY Symmetric
INVARIANT StopWaitingBelowPacket
CHECK_DEADLOCK FALSE
