CONSTANTS
  FileSize = 5
  SectorSize = 1
  CacheSize = 4
  MinSectors = 4
  FillSectors = 2
  ReadChunk = 2
  PrefillArg = 4
  SeekLimitArg = 2
  SeekTargets = {0, 4}
  BackwardSeeks = TRUE
  Chapters = {0}
  Queries = FALSE
  Interrupts = TRUE
  HasControl = TRUE
  SeekFails = TRUE
  ReadFails = TRUE
  MaxCalls = 1
  Junk = Junk
SPECIFICATION FairSpec
INVARIANTS TypeOK
PROPERTIES NoCallHangs
