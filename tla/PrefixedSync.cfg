SPECIFICATION Spec
CONSTANTS
  Capacity = 7
  PacketSize = 3
  HeaderSize = 1
  StreamLength = 10
  Extra = 2
INVARIANT ExtraBytesSkipped
