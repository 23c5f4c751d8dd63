SPECIFICATION Spec
CONSTANTS
  Thread = {gui, copier}
  Block <- MCBlock
  InodeTable <- MCInodeTable
  Root = 0
  Bad <- MCBad
  Short <- MCShort
  MaxCost = 2
  Exclusive = TRUE
  None = None
  Junk = Junk
  Failed = Failed
INVARIANTS
  CacheTransparent
  BufferIsLastBlock
  LeastRecentlyUsedGoes
  NoBufferLost
PROPERTY ImplementsBlockSource
