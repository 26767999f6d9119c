SPECIFICATION FairSpec
CONSTANTS
  Inputs <- MCInputs
  Pids = {256, 257}
  Values = {15, 27}
  Infos = {0, 3}
  ExtLength = 5
  CrcLength = 4
  PatEntry = 4
  PmtHeader = 4
  PmtEntry = 5
  SizeModulus = 65536
  MaxEntries = 3
  MaxLength = 26
INVARIANTS
  TypeOK
  ReadsInside
  TableAsListed
PROPERTY ParseEnds
CHECK_DEADLOCK FALSE
