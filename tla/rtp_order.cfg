SPECIFICATION Spec
CONSTANTS
  Max = 12
  Mod = 144
  Start = 60
  Packets = 13
  Restart = 5
  Jumps <- NoneBackOrAhead
  Spread = 3
  MaxLost = 2
  MaxDups = 1
  MaxErrors = 1
  None = None
INVARIANTS TypeOK Ordered NothingDropped Resumes
CHECK_DEADLOCK FALSE
