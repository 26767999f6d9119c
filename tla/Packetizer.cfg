SPECIFICATION FairSpec
CONSTANTS
  Capacity = 8
  PacketSize = 3
  HeaderSize = 1
  StreamLength = 10
  Extra = 2
INVARIANTS
  TypeOK
  LiveBytesInOrder
  HeadIsSync
  DamageConfinedToTail
  NoSyncByteLost
  OnlyRealPackets
  EndLeavesNothing
  WholeRecording
PROPERTIES
  FramingSpec
  EveryPacketDelivered
  FullBufferKeepsPayload
