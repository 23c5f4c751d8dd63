SPECIFICATION FairDialogSpec
CONSTANTS
  Proc = {p1, p2, p3}
  MaxScans = 2
  NoProc = NoProc
INVARIANTS
  OneUser
  PartitionsOutliveCopies
  DeletesSender
  HiddenCopyIsCancelled
PROPERTIES
  DialogGoesAway
  CancelReachesShownCopy
