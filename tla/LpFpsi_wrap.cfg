SPECIFICATION Spec
CONSTANTS
  r1 = r1
  r2 = r2
  s1 = s1
  s2 = s2
  i1 = i1
  i2 = i2
  i3 = i3
  None = None
  DIM = 2
  Coord = {2, 3, 4, 5, 6, 7, 8}
  DELTA = 2
  METRIC = 2
  M = 16
  BallR = {r1, r2}
  BallS = {s1, s2}
  ID = {i1, i2, i3}
  Bin = {0, 1, 2}
  HashIdx = {0, 1}
  LevelsPlus = {0, 1}
  CountPlus = 2
  Levels = {0, 1}
  Count = 2
  LevelsIf = {0, 2}
  CountIf = 5
  RecvInputs <- MCRecvInputs
  SendInputs <- MCSendInputs
  Hashes <- FewHashes
  Draws <- FewDraws
INVARIANT EveryMatchFound
