SPECIFICATION FairSpec
CONSTANTS
  Chunk = 4
  Lanes = 2
  Instances <- MCInstances
INVARIANTS
  ChunkInv
  OutputsAgree
PROPERTY
  Completes
