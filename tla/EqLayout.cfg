SPECIFICATION Spec
CONSTANTS
  MaxN = 4
  MaxLength = 7
INVARIANTS
  LayoutInv
  InPlaceCorrect
