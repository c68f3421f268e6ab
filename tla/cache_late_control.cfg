CONSTANTS
  FileSize = 7
  SectorSize = 1
  CacheSize = 5
  MinSectors = 4
  FillSectors = 2
  ReadChunk = 2
  PrefillArg = 4
  SeekLimitArg = 2
  SeekTargets = {}
  BackwardSeeks = FALSE
  Chapters <- TwoChapters
  Queries = FALSE
  Interrupts = TRUE
  HasControl = TRUE
  SeekFails = FALSE
  ReadFails = FALSE
  MaxCalls = 3
  Junk = Junk
SPECIFICATION Spec
INVARIANTS PosAgrees
