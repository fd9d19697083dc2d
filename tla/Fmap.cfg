SPECIFICATION FairSpec
CONSTANTS
  Delta = 1
  DIM = 2
  SizeR = 3
  SizeS = 3
  Inputs <- MCInputs
INVARIANTS
  LabelInv
  AscendingStaysCurrent
  CurrentIdsAgree
  SameIdMeansLinked
PROPERTIES
  Completes
