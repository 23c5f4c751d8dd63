SPECIFICATION Spec
CONSTANTS
  BlockSize <- MCBlockSize
  Dirs <- MCDirs
  Null = Null
INVARIANTS
  ListedIsPassed
  StopsOnlyAtObstacle
PROPERTY ListingEnds
