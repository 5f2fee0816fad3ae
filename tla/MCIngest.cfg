SPECIFICATION FairSpec
CHECK_DEADLOCK FALSE
CONSTANTS
  MaxMessages = 5
  Kind <- EveryKind
  PacketIds = {1, 2}
  ReceiveMaximum = 2
  MaxFaults = 3
INVARIANTS
  TypeOK
  NoLoss
  NoForeignAck
  QueueNeverFull
PROPERTIES
  EventuallyHandled
