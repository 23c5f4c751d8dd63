SPECIFICATION Spec
CONSTANTS
  small = small
  large = large
  other = other
  Volume = {small, large, other}
  Super <- MCSuper
  Inum <- MCInum
  SECT = 2
  DESC = 1
  NotExt = NotExt
  Junk = Junk
  None = None
INVARIANTS
  InodesExact
  JunkOnlyPastLoaded
