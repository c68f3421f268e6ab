SPECIFICATION FairSpec
CONSTANTS
  ChunkMax = 4
  ChunkSize = 2
  Lengths = {1, 3, 4}
  Cases <- PlaysOnly
PROPERTIES InitReturns
CHECK_DEADLOCK FALSE
