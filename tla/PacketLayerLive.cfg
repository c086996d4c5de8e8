SPECIFICATION FairSpec
CONSTANTS
  Client = Client
  Server = Server
  d1 = d1
  d2 = d2
  d3 = d3
  d4 = d4
  d5 = d5
  d6 = d6
  Data = {d2}
  Owner <- OwnersClient
  MaxUnacked = 9
  MaxPacketNumber = 15
  Byte = 256
  MaxPings = 1
  MaxAckRanges = 256
  MaxLosses = 2
  MaxDups = 0
PROPERTIES EventuallyDelivered RestsBetweenPings
CHECK_DEADLOCK FALSE
