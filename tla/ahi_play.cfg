SPECIFICATION FairSpec
CONSTANTS
  ChunkMax = 4
  ChunkSize = 2
  Lengths = {1, 3, 4}
  Cases <- PlaysAndRaces
INVARIANTS TypeOK RingIntact WrittenIsFill RequestIsFree TaskHasEnded
PROPERTIES CallsReturn Drains
CHECK_DEADLOCK FALSE
