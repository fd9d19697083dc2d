SPECIFICATION Spec
CONSTANTS
  SparseSize = 5
  Ssp = 2
  BatchSize = 2
  Threads = 2
  ItemsPerBin = 3
  PerThread = 2
  DecodeCap = 2
  Instances <- MCInstances
  Tapes <- MCTapes
INVARIANT TriangulationInv
INVARIANT BinHoldsItsItems
INVARIANT DuplicatesDetected
INVARIANT Decodes
