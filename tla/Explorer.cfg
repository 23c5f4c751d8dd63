SPECIFICATION Spec
CONSTANTS
  disk = disk
  stick = stick
  docs = docs
  letter = letter
  note = note
  photo = photo
  Part = {disk, stick}
  File = {docs, letter, note, photo}
  Children <- MCChildren
  Root = Root
  MaxScans = 2
  None = None
INVARIANTS
  NothingTwice
  ItemsOwnFiles
  NoStalePartition
  FailureIsRetried
