SPECIFICATION Spec
CONSTANTS
  PacketSize = 12
  TsHeaderSize = 2
  StartSize = 3
  FlagsSize = 1
  HeaderDataLengths = {0, 2}
  ByteValues = {0, 1, 2, 3}
  SplitAt = {2, 3}
  OtherIds = TRUE
  StreamLength = 12
  MaxFaults = 2
  SizeModulus = 64
INVARIANTS
  TypeOK
  ExtractedInOrder
  NoOverrun
CHECK_DEADLOCK FALSE
