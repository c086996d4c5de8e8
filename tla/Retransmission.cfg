SPECIFICATION Spec
CONSTANTS
  MaxUnacked = 2
  MaxPacketNumber = 7
  MaxAckRanges = 3
  MaxGap = 2
  MaxAcks = 2
INVARIANTS TypeOK WireTrue WireExact EachPacketOnce IInv
PROPERTY SendQueueSpec
CHECK_DEADLOCK FALSE
