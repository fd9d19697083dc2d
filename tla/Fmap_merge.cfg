SPECIFICATION Spec
CONSTANTS
  Delta = 1
  DIM = 1
  SizeR = 3
  SizeS = 3
  Inputs <- MCMerge
INVARIANTS
  DecidingCheck
