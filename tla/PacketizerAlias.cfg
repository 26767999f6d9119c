SPECIFICATION MainSpec
CONSTANTS
  Capacity = 7
  PacketSize = 3
  HeaderSize = 1
  StreamLength = 11
  Extra = 0
INVARIANT PayloadIntact
