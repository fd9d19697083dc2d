SPECIFICATION FairSpec
CONSTANTS
  n = 3
  otStep = 2
  ByteBits = 2
  MsgPairs <- MCMsgPairs
INVARIANTS
  TripleInv
  TriplesValid
PROPERTIES
  Completes
