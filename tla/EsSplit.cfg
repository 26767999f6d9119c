SPECIFICATION Spec
CONSTANTS
  PacketSize = 12
  TsHeaderSize = 2
  StartSize = 3
  FlagsSize = 1
  HeaderDataLengths = {0, 2}
  ByteValues = {0, 1, 2, 3}
  SplitAt = {4, 5}
  OtherIds = FALSE
  StreamLength = 60
  MaxFaults = 1
  SizeModulus = 64
INVARIANT NoOverrun
