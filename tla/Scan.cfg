SPECIFICATION FairSpec
CONSTANTS
  Machines <- MCMachines
  raw = raw
  dos = dos
  zeros = zeros
  stub = stub
  Images = {raw, dos, zeros, stub}
  Content <- MCContent
  Letters = 3
  EPS = 2
  MaxDrives = 2
  MaxRounds = 5
  MaxImages = 2
  None = None
INVARIANTS
  FindsTheLayout
  NamesUnique
  NameIsDevice
PROPERTY ScanEnds
