SPECIFICATION FairSpec
CONSTANTS
  Length = 3
  N = 2
  LengthLevel = 2
  InputSet <- MCInputs3
  TripleSet <- MCTriples2
INVARIANTS
  IInv
  PeqtCorrect
  ReducedAtReturn
  TriplesInRange
PROPERTIES
  Completes
  ImplementsIdeal
