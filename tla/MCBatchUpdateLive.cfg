SPECIFICATION FairSpec
CONSTANTS
  Depth = 3
  Shift = 0
  Stride = 2
  MaxBatches = 3
  Zero <- MCZero
  pedersen <- MCPedersen
  Batches <- MCBatches
PROPERTIES
  BatchEnds
CHECK_DEADLOCK FALSE
