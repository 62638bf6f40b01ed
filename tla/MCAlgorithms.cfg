SPECIFICATION AlgorithmsSpec
CONSTANTS
  Problem = {p1, p2}
  Verification = {v1, v2}
  None = None
  MaxCount = 2
  Depth = 4
  Shift = 0
  Stride = 4
  Zero <- MCZero
  pedersen <- Pair
  Inputs <- MCInputs
  RoundKeys <- MCRoundKeys
  Prime = 23
  P = 23
  Nibbles = 2
  ALPHA = 1
  BETA = 19
  EC_ORDER = 19
  GENERATOR <- MCGenerator
  ELEMENT_UPPER_BOUND = 16
  SHIFT_POINT <- MCShiftPoint
  Base <- MCBase
  LowBits = 3
  HighBits = 2
  CURVE_CONSTS_BITS = 2
  FULL_ROUNDS = 4
  PARTIAL_ROUNDS = 3
INVARIANTS
  ReadsWhatWasStored
  BuildsTree
  RanksModels
  NumbersReadBack
  ScalarsMultiply
  SignaturesVerify
  PedersenDefined
  PermutationAgrees
  HashersAgree
  NamesAndClassesTold
  ProvidersAgree
CHECK_DEADLOCK FALSE
