SPECIFICATION SessionSpec
CONSTANTS
  gui = gui
  Proc = {p1, p2}
  Thread = {gui, p1, p2}
  NoProc = NoProc
  MaxScans = 1
  Block <- MCBlock
  InodeTable <- MCInodeTable
  Root = 0
  Bad <- MCBad
  Short <- MCShort
  MaxCost = 1
  Exclusive = FALSE
  None = None
  Junk = Junk
  Failed = Failed
INVARIANT BufferFollowsLastBlock
