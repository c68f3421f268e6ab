CONSTANTS
  FileSize = 13
  SectorSize = 2
  CacheSize = 9
  MinSectors = 4
  FillSectors = 2
  ReadChunk = 5
  PrefillArg = 6
  SeekLimitArg = 9
  SeekTargets <- AnyInFile
  BackwardSeeks = FALSE
  Chapters <- NoPositions
  Queries = TRUE
  Interrupts = FALSE
  HasControl = FALSE
  SeekFails = FALSE
  ReadFails = FALSE
  MaxCalls = 3
  Junk = Junk
SPECIFICATION FairSpec
INVARIANTS PlayInv NoOverlap
PROPERTIES BackKept ReadsMedium
