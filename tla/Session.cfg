SPECIFICATION FairSpec
CONSTANTS
  Delta = 2
  DIM = 2
  SizeR = 2
  SizeS = 2
  Inputs <- MCAllInputs
  Calls <- MCCalls
INVARIANTS
  UFmapIdsAgree
  TrafficExact
PROPERTIES
  Completes
