SPECIFICATION Spec
CONSTANTS
  Params <- AllParams
  Base = 3
  METRIC = 2
  M = 8
  Far = 3
  DIM = 2
  DELTA = 2
  U64 = 24
INVARIANTS
  ExactCover
  OneCommonPrefix
  FitsTable
  SharesOfPower
  OneSharedCell
  SampledInRange
CHECK_DEADLOCK FALSE
