SPECIFICATION Spec
CONSTANTS
  Depth = 3
  Shift = 0
  Stride = 1
  MaxBatches = 2
  Zero <- MCZero
  pedersen <- MCPedersen
  Batches <- MCBatches
INVARIANTS
  TypeOK
  RowsAgree
  PreimageSound
  PreimageOpens
  ProofsOpen
  RootVerifies
PROPERTIES
  ImplementsCommitment
CHECK_DEADLOCK FALSE
