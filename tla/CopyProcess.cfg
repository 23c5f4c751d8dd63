SPECIFICATION FairSpec
CONSTANTS
  Node <- MCNode
  Kind <- MCKind
  Children <- MCChildren
  Roots <- MCRoots
  Patterns <- MCPatterns
  None = None
INVARIANTS
  DestinationIsPrefix
  FailuresStayLocal
  AtMostOneBlockLate
  OnlyLastFileOpen
PROPERTIES
  ImplementsTreeCopy
  CopyEnds
