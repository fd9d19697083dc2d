SPECIFICATION FairSpec
CONSTANTS
  r1 = r1
  r2 = r2
  s1 = s1
  s2 = s2
  i1 = i1
  i2 = i2
  i3 = i3
  None = None
  DIM = 2
  Coord = {1, 2, 3, 4}
  DELTA = 1
  BallR = {r1, r2}
  BallS = {s1, s2}
  ID = {i1, i2, i3}
  Bin = {0, 1, 2}
  HashIdx = {0, 1}
  RangeKeys <- MCRangeKeys
  PointKeys <- MCPointKeys
  PrefixCount = 2
  PrefixSize = 2
  RecvInputs <- MCRecvInputs
  SendInputs <- MCSendInputs
  Hashes <- MCHashes
INVARIANTS
  ProtocolInv
  MatchInv
  OnlyMatchesRevealed
PROPERTIES
  Completes
  ImplementsIdeal
