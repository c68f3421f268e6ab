CONSTANTS
  FileSize = 6
  SectorSize = 1
  CacheSize = 5
  MinSectors = 4
  FillSectors = 2
  ReadChunk = 2
  PrefillArg = 4
  SeekLimitArg = 2
  SeekTargets = {}
  BackwardSeeks = FALSE
  Chapters <- TwoChapters
  Queries = TRUE
  Interrupts = FALSE
  HasControl = TRUE
  SeekFails = FALSE
  ReadFails = TRUE
  MaxCalls = 2
  Junk = Junk
SPECIFICATION Spec
INVARIANTS AnswerIsOwn DeliveredIsFile
