SPECIFICATION Spec
CONSTANTS
  Depth = 2
  Shift = 1
  Stride = 2
  MaxBatches = 1
  Zero <- MCZero
  pedersen <- MCPedersen
  Batches <- GapBatch
INVARIANTS
  RowsAgree
CHECK_DEADLOCK FALSE
