SPECIFICATION FairSpec
CONSTANTS
  Size = 2
  Blocks = TRUE
  MaxArexx = 4
  MaxKeys = 2
  ArexxKinds = {"get", "pause", "other"}
  KeyKinds = {"pause", "quit", "keep", "other"}
  None = None
INVARIANTS TypeOK NothingVanishes InOrder AnswerIsOwn EndedWhenStopped
PROPERTIES GetReturns StopReturns
CHECK_DEADLOCK FALSE
