SPECIFICATION Spec
CONSTANTS
  None = None
  Files <- MCFiles
  FillLimit = 2
  MaxPacks = 4
  MaxBytes = 8
  Small = 1
  Wants = {1, 3}
  Interleaves = {TRUE, FALSE}
  MaxJumps = 2
INVARIANTS BuffersValid WholeStream PlaysToTheEnd
PROPERTIES Ends
CHECK_DEADLOCK FALSE
