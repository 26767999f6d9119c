SPECIFICATION Spec
CONSTANTS
  Pids = {0, 1, 2, 3, 4, 5, 6, 8}
  PatPid = 0
  PatTables <- MCPatTables
  PmtTables <- MCPmtTables
  Types = {3, 15, 27, 240}
  WithNit = TRUE
  MaxPackets = 2
INVARIANT OnlyTracksCreated
