SPECIFICATION FairSpec
CONSTANTS
  Pids = {0, 1, 2, 3, 4, 5, 7}
  PatPid = 0
  PatTables <- MCPatTables
  PmtTables <- MCPmtTables
  Types = {3, 15, 27, 240}
  WithNit = FALSE
  MaxPackets = 2
INVARIANTS
  TypeOK
  CreatedOnce
  RoutedInOrder
  ConsumersAnnounced
PROPERTIES
  ParserNeverReplaced
  EveryTrackGetsConsumer
