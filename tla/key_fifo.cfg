SPECIFICATION Spec
CONSTANTS
  Size = 5
  MaxDown = 2
  m = m
  md = md
  Buttons = {m, b}
  Taps = {md, t}
  Double <- MouseDouble
  NoKey = NoKey
  AllUp = AllUp
INVARIANTS TypeOK NoStuckKey NoTwoResets RepeatIsCurrent
PROPERTIES PressResetsNothing
