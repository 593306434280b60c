SPECIFICATION ScsiSpec
CONSTANTS
  Targets = {0}
  Absent = 1
  NSectors = 7
  NCells = 5
  Lbas = {1}
  Counts = {3, 4}
  Wide = 4
  Pieces <- MCPieces
  SectorBytes = 512
  SectorSizes <- MCSizes
  Tibs <- MCTibs
  SG_TABLE_SIZE = 2
  MaxTransactions = 2
INVARIANTS
  TransactionIsExact
  
CHECK_DEADLOCK FALSE
