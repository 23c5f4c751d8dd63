SPECIFICATION Spec
CONSTANTS
  a = a
  b = b
  home = home
  data = data
  PV = {a, b}
  LV = {home, data}
  Metas <- MCMetas
  Base <- MCBase
  Radix = 2
  Chars = 5
  W = 32
  MaxLoops = 2
  None = None
CHECK_DEADLOCK FALSE
INVARIANTS
  ExtentSizeExact
  SimpleVolumeExact
  SuperblockFound
PROPERTY ImagesMoveNothing
