SPECIFICATION FairSandstreamSpec
CONSTANTS
  Pids = {0, 1, 2, 3}
  PatPid = 0
  PatTables <- MCPatTables
  PmtTables <- MCPmtTables
  Types = {15, 27}
  MaxPackets = 5
  Packets <- MCPackets
  BufferSize = 2
  InputLength = 5
INVARIANTS
  MainTypeOK
  SuccessIsComplete
  TracksExtracted
PROPERTIES
  FilesSpec
  ProgramEnds
  WorkShrinks
CHECK_DEADLOCK FALSE
