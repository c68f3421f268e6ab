SPECIFICATION Spec
CONSTANTS
  Size = 2
  Blocks = TRUE
  MaxArexx = 4
  MaxKeys = 2
  ArexxKinds = {"get", "pause", "other"}
  KeyKinds = {"pause", "quit", "keep", "other"}
  None = None
INVARIANTS RemovesPeeked
CHECK_DEADLOCK FALSE
