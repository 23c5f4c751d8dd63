SPECIFICATION Spec
CONSTANTS
  NDIR = 2
  SZ = 3
  Asked <- MCAsked
  Zero = Zero
  Junk = Junk
  Nodes <- MCNodes
  Extents <- MCExtents
  Trees <- MCTrees
  FileBlock <- MCFileBlock
  InitMax <- MCInitMax
  Stale <- MCStale
  NoHeader = NoHeader
  None = None
INVARIANTS
  PointersLeadToBlock
  ExtentsLeadToBlock
